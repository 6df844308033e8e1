------------------------- MODULE CodegenLoops_proofs -------------------------
(***************************************************************************)
(* The proof that a throw is taken, in its own frame, by the loop around it   *)
(* or by none, for every tree, every Word and every set of handlers that     *)
(* keeps the disciplines of modules Typing and Nesting.                      *)
(***************************************************************************)
EXTENDS Codegen_proofs, Nesting

-----------------------------------------------------------------------------
(* Throws and handlers of one frame f of content r.  A seat K[i] says of an   *)
(* activation its id, the frame it was called in (home), whether its loop is  *)
(* yet to come, in progress or left, and where it starts.                     *)

Seat(id, home, loop, start) == [id |-> id, home |-> home, loop |-> loop, start |-> start]

(* Activation i is in a loop in frame f.                                      *)
Open(K, f, i) == i \in DOMAIN K /\ K[i].loop = "in" /\ K[i].home = f

(* Where the throws op at pc go among the handlers hs: to the loop by, or, as *)
(* the handlers are pushed when a loop ends, to none yet.                     *)
Uncaught(hs, op, pc) == \A k \in DOMAIN hs : ~ Handles(hs[k], op, pc)
First(hs, op, pc, m) ==
  m \in DOMAIN hs /\ Handles(hs[m], op, pc) /\ \A k \in DOMAIN hs : Handles(hs[k], op, pc) => m <= k
Taken(hs, op, pc, by) == \E m : First(hs, op, pc, m) /\ hs[m].by = by

(* The innermost loop open around pc will take it.                            *)
Awaited(K, f, op, pc, by) ==
  \E i : /\ Open(K, f, i) /\ K[i].id = by /\ K[i].start <= pc
         /\ \A j : Open(K, f, j) /\ j > i => K[j].start > pc

(* No loop of the frame, open, left or to come, will.                         *)
Outside(K, f, hs, op, pc, by) ==
  /\ \A k \in DOMAIN hs : hs[k].by # by
  /\ \A i : Open(K, f, i) => K[i].start > pc /\ K[i].id # by
  /\ \A i \in DOMAIN K : K[i].id = by => K[i].loop # "none"

Settles(K, f, hs, op, pc, by) ==
  \/ Taken(hs, op, pc, by)
  \/ Uncaught(hs, op, pc) /\ (Awaited(K, f, op, pc, by) \/ Outside(K, f, hs, op, pc, by))

(* The throw in of frame f, which has n handlers called so far.               *)
Point(K, n, f, r, in) ==
  /\ in.at + 3 < r.bytecode_size /\ in.by \in 0..n
  /\ Settles(K, f, r.handlers, in.op, in.at + 2, in.by)
Ended(K, n, r, h) ==
  h.end_offset < r.bytecode_size /\ h.by \in 1..n /\ \A i \in DOMAIN K : K[i].id = h.by => K[i].loop = "over"

Governed(K, n, f, r) ==
  /\ \A k \in DOMAIN r.handlers : Ended(K, n, r, r.handlers[k])
  /\ \A i : Open(K, f, i) => K[i].start < r.bytecode_size
  /\ \A k \in DOMAIN r.code : IsThrow(r.code[k].op) => Point(K, n, f, r, r.code[k])

IsSeated(K, n) ==
  /\ \A i \in DOMAIN K : /\ i \in Nat /\ K[i].id \in 0..n /\ (K[i].id = 0 <=> K[i].loop = "never")
                         /\ K[i].loop = "in" => K[i].start \in Int
  /\ \A i, j \in DOMAIN K : K[i].id = K[j].id => i = j
-----------------------------------------------------------------------------
(* A frame is added to, without a throw or a handler.                         *)
Quietly(r, s) ==
  /\ s.handlers = r.handlers /\ r.bytecode_size <= s.bytecode_size
  /\ \A k \in DOMAIN r.code : /\ k \in DOMAIN s.code /\ s.code[k].op = r.code[k].op
                              /\ s.code[k].at = r.code[k].at /\ s.code[k].by = r.code[k].by
  /\ \A k \in DOMAIN s.code : k \notin DOMAIN r.code => ~ IsThrow(s.code[k].op)

LEMMA QuietlyGoverned ==
  ASSUME NEW r \in KijiFrame, NEW s \in KijiFrame, Quietly(r, s),
         NEW K, NEW n \in Nat, IsSeated(K, n), NEW f, Governed(K, n, f, r)
  PROVE  Governed(K, n, f, s)
<1>1. /\ s.handlers = r.handlers /\ r.bytecode_size <= s.bytecode_size
      /\ r.bytecode_size \in Nat /\ s.bytecode_size \in Nat
      /\ \A k \in DOMAIN r.handlers : r.handlers[k].end_offset \in Nat
      /\ \A k \in DOMAIN r.code : r.code[k].at \in Nat
  <2>1. \A k \in DOMAIN r.handlers : r.handlers[k] \in FrameHandler
    BY FrameFields
  <2>2. \A k \in DOMAIN r.code : r.code[k] \in Instruction
    BY FrameFields
  <2> QED
    BY <2>1, <2>2, FrameFields DEF Quietly, FrameHandler, Instruction
<1>2. ASSUME NEW k \in DOMAIN s.handlers
      PROVE  Ended(K, n, s, s.handlers[k])
  BY <1>1 DEF Governed, Ended
<1>3. ASSUME NEW i, Open(K, f, i)
      PROVE  K[i].start < s.bytecode_size
  <2>1. K[i].start < r.bytecode_size /\ K[i].start \in Int
    BY <1>3 DEF Governed, IsSeated, Open
  <2> QED
    BY <1>1, <2>1
<1>4. ASSUME NEW k \in DOMAIN s.code, IsThrow(s.code[k].op)
      PROVE  Point(K, n, f, s, s.code[k])
  <2>1. /\ k \in DOMAIN r.code /\ s.code[k].op = r.code[k].op
        /\ s.code[k].at = r.code[k].at /\ s.code[k].by = r.code[k].by
    BY <1>4 DEF Quietly
  <2>2. Point(K, n, f, r, r.code[k])
    BY <1>4, <2>1 DEF Governed
  <2> QED
    BY <1>1, <2>1, <2>2 DEF Point
<1> QED
  BY <1>2, <1>3, <1>4 DEF Governed

(* Activations that come and go, or turn to a loop in another frame, leave the *)
(* loops of a frame as they are.                                            *)
SameLoops(K, J, n, f) ==
  /\ \A i : Open(J, f, i) <=> Open(K, f, i)
  /\ \A i : Open(K, f, i) => J[i].id = K[i].id /\ J[i].start = K[i].start
  /\ \A i \in DOMAIN J : J[i].id <= n => /\ i \in DOMAIN K /\ K[i].id = J[i].id
                                         /\ K[i].loop = "over" => J[i].loop = "over"
                                         /\ K[i].loop # "none" => J[i].loop # "none"

LEMMA SeatsGoverned ==
  ASSUME NEW r, NEW n \in Nat, NEW m \in Nat, n <= m, NEW K, NEW J, NEW f, SameLoops(K, J, n, f),
         Governed(K, n, f, r)
  PROVE  Governed(J, m, f, r)
<1>1. ASSUME NEW k \in DOMAIN r.handlers
      PROVE  Ended(J, m, r, r.handlers[k])
  <2>1. Ended(K, n, r, r.handlers[k])
    BY DEF Governed
  <2>2. PICK by : by = r.handlers[k].by
    OBVIOUS
  <2>3. by \in 1..m /\ by <= n
    BY <2>1, <2>2 DEF Ended
  <2>4. ASSUME NEW i \in DOMAIN J, J[i].id = by
        PROVE  J[i].loop = "over"
    <3>1. J[i].id <= n
      BY <2>3, <2>4
    <3>2. i \in DOMAIN K /\ K[i].id = by /\ (K[i].loop = "over" => J[i].loop = "over")
      BY <2>4, <3>1, Zenon DEF SameLoops
    <3> QED
      BY <2>1, <2>2, <3>2 DEF Ended
  <2> QED
    BY <2>1, <2>2, <2>3, <2>4 DEF Ended
<1>2. \A i : Open(J, f, i) => J[i].start < r.bytecode_size
  BY Zenon DEF Governed, SameLoops
<1>3. ASSUME NEW k \in DOMAIN r.code, IsThrow(r.code[k].op)
      PROVE  Point(J, m, f, r, r.code[k])
  <2>1. PICK in, hs, op, pc, by : /\ in = r.code[k] /\ hs = r.handlers /\ op = in.op
                                  /\ pc = in.at + 2 /\ by = in.by
    OBVIOUS
  <2>2. Point(K, n, f, r, in)
    BY <1>3, <2>1 DEF Governed
  <2>3. by \in 0..n /\ Settles(K, f, hs, op, pc, by)
    BY <2>1, <2>2 DEF Point
  <2>4. Awaited(K, f, op, pc, by) => Awaited(J, f, op, pc, by)
    BY Zenon DEF Awaited, SameLoops
  <2>5. Outside(K, f, hs, op, pc, by) => Outside(J, f, hs, op, pc, by)
    <3> SUFFICES ASSUME Outside(K, f, hs, op, pc, by)
                 PROVE  Outside(J, f, hs, op, pc, by)
      OBVIOUS
    <3>1. \A i : Open(J, f, i) => J[i].start > pc /\ J[i].id # by
      BY Zenon DEF Outside, SameLoops
    <3>2. ASSUME NEW i \in DOMAIN J, J[i].id = by
          PROVE  J[i].loop # "none"
      <4>1. J[i].id <= n
        BY <2>3, <3>2
      <4>2. i \in DOMAIN K /\ K[i].id = by /\ (K[i].loop # "none" => J[i].loop # "none")
        BY <3>2, <4>1, Zenon DEF SameLoops
      <4> QED
        BY <4>2 DEF Outside
    <3> QED
      BY <3>1, <3>2, Zenon DEF Outside
  <2>6. Settles(J, f, hs, op, pc, by)
    BY <2>3, <2>4, <2>5, Zenon DEF Settles
  <2>7. by \in 0..m
    BY <2>3
  <2> QED
    BY <2>1, <2>2, <2>6, <2>7 DEF Point
<1> QED
  BY <1>1, <1>2, <1>3, Zenon DEF Governed

(* The innermost activation l turns from a loop to come to one in progress, or *)
(* from there to one left.                                                   *)
Turning(K, J, l, from, to) ==
  /\ DOMAIN J = DOMAIN K /\ l \in DOMAIN K /\ \A i \in DOMAIN K : i <= l
  /\ \A i \in DOMAIN K : i # l => J[i] = K[i]
  /\ J[l].id = K[l].id /\ J[l].home = K[l].home /\ K[l].loop = from /\ J[l].loop = to

LEMMA ElsewhereGoverned ==
  ASSUME NEW r, NEW n \in Nat, NEW K, IsSeated(K, n), NEW J, NEW l, NEW from, NEW to,
         Turning(K, J, l, from, to), <<from, to>> \in {<<"none", "in">>, <<"in", "over">>},
         NEW f, f # K[l].home, Governed(K, n, f, r)
  PROVE  Governed(J, n, f, r)
<1>1. \A i : Open(J, f, i) <=> Open(K, f, i)
  BY DEF Turning, Open
<1>2. \A i : Open(K, f, i) => J[i].id = K[i].id /\ J[i].start = K[i].start
  BY DEF Turning, Open
<1>3. ASSUME NEW i \in DOMAIN J
      PROVE  /\ i \in DOMAIN K /\ K[i].id = J[i].id
             /\ K[i].loop = "over" => J[i].loop = "over"
             /\ K[i].loop # "none" => J[i].loop # "none"
  BY DEF Turning
<1>4. SameLoops(K, J, n, f)
  BY <1>1, <1>2, <1>3 DEF SameLoops
<1> QED
  BY <1>4, SeatsGoverned

LEMMA EnterGoverned ==
  ASSUME NEW r \in KijiFrame, NEW n \in Nat, NEW K, IsSeated(K, n), NEW J, NEW l,
         Turning(K, J, l, "none", "in"), J[l].start = r.bytecode_size - 1,
         NEW f, Governed(K, n, f, r)
  PROVE  Governed(J, n, f, r)
<1>1. /\ r.bytecode_size \in Nat /\ \A k \in DOMAIN r.code : r.code[k].at \in Nat
  <2>1. \A k \in DOMAIN r.code : r.code[k] \in Instruction
    BY FrameFields
  <2> QED
    BY <2>1, FrameFields DEF Instruction
<1>2. ASSUME NEW k \in DOMAIN r.handlers
      PROVE  Ended(J, n, r, r.handlers[k])
  <2>1. Ended(K, n, r, r.handlers[k])
    BY DEF Governed
  <2> QED
    BY <2>1 DEF Ended, Turning
<1>3. ASSUME NEW i, Open(J, f, i)
      PROVE  i = l \/ (Open(K, f, i) /\ J[i] = K[i])
  BY <1>3 DEF Turning, Open
<1>4. \A i : Open(J, f, i) => J[i].start < r.bytecode_size
  BY <1>1, <1>3 DEF Governed
<1>5. ASSUME NEW i, Open(K, f, i)
      PROVE  Open(J, f, i) /\ J[i] = K[i]
  BY <1>5 DEF Turning, Open
<1>6. ASSUME NEW k \in DOMAIN r.code, IsThrow(r.code[k].op)
      PROVE  Point(J, n, f, r, r.code[k])
  <2>1. PICK in, hs, op, pc, by : /\ in = r.code[k] /\ hs = r.handlers /\ op = in.op
                                  /\ pc = in.at + 2 /\ by = in.by
    OBVIOUS
  <2>2. Point(K, n, f, r, in)
    BY <1>6, <2>1 DEF Governed
  <2>3. Settles(K, f, hs, op, pc, by)
    BY <2>1, <2>2 DEF Point
  <2>4. J[l].start > pc
    BY <1>1, <2>1, <2>2 DEF Point
  <2>5. Awaited(K, f, op, pc, by) => Awaited(J, f, op, pc, by)
    BY <1>3, <1>5, <2>4, Zenon DEF Awaited
  <2>6. Outside(K, f, hs, op, pc, by) => Outside(J, f, hs, op, pc, by)
    <3> SUFFICES ASSUME Outside(K, f, hs, op, pc, by)
                 PROVE  Outside(J, f, hs, op, pc, by)
      OBVIOUS
    <3>1. J[l].id # by
      BY Zenon DEF Outside, Turning
    <3>2. \A i : Open(J, f, i) => J[i].start > pc /\ J[i].id # by
      BY <1>3, <2>4, <3>1, Zenon DEF Outside
    <3>3. \A i \in DOMAIN J : J[i].id = by => J[i].loop # "none"
      BY DEF Outside, Turning
    <3> QED
      BY <3>2, <3>3, Zenon DEF Outside
  <2>7. Settles(J, f, hs, op, pc, by)
    BY <2>3, <2>5, <2>6, Zenon DEF Settles
  <2> QED
    BY <2>1, <2>2, <2>7 DEF Point
<1> QED
  BY <1>2, <1>4, <1>6, Zenon DEF Governed

(* The handlers of a loop are pushed: one for each category.                  *)
Closing(hs, gs, start, end, by) ==
  /\ Len(hs) \in Nat /\ DOMAIN hs = 1..Len(hs) /\ Len(gs) \in Nat /\ DOMAIN gs = 1..Len(gs)
  /\ Len(hs) <= Len(gs) /\ \A k \in DOMAIN hs : gs[k] = hs[k]
  /\ \A k \in DOMAIN gs : k \notin DOMAIN hs =>
       gs[k].start_offset = start /\ gs[k].end_offset = end /\ gs[k].by = by
  /\ \A op : IsThrow(op) => \E k \in DOMAIN gs :
       /\ k \notin DOMAIN hs /\ gs[k].category = op
       /\ \A j \in DOMAIN gs : j \notin DOMAIN hs /\ gs[j].category = op => k <= j

LEMMA ClosingTakes ==
  ASSUME NEW hs, NEW gs, NEW start, NEW end, NEW by, Closing(hs, gs, start, end, by),
         NEW op, IsThrow(op), NEW pc
  PROVE  /\ \A b : Taken(hs, op, pc, b) => Taken(gs, op, pc, b)
         /\ Uncaught(hs, op, pc) /\ start <= pc /\ pc <= end => Taken(gs, op, pc, by)
         /\ Uncaught(hs, op, pc) /\ ~ (start <= pc) => Uncaught(gs, op, pc)
<1>1. /\ DOMAIN hs \subseteq DOMAIN gs /\ DOMAIN gs \subseteq Nat
      /\ \A k \in DOMAIN hs : gs[k] = hs[k] /\ \A j \in DOMAIN gs : j \notin DOMAIN hs => k <= j
  BY DEF Closing
<1>2. ASSUME NEW b, Taken(hs, op, pc, b)
      PROVE  Taken(gs, op, pc, b)
  <2>1. PICK m : First(hs, op, pc, m) /\ hs[m].by = b
    BY <1>2 DEF Taken
  <2>2. First(gs, op, pc, m) /\ gs[m].by = b
    BY <1>1, <2>1, Zenon DEF First
  <2> QED
    BY <2>2 DEF Taken
<1>3. ASSUME Uncaught(hs, op, pc), start <= pc, pc <= end
      PROVE  Taken(gs, op, pc, by)
  <2>1. PICK k \in DOMAIN gs : /\ k \notin DOMAIN hs /\ gs[k].category = op
                               /\ \A j \in DOMAIN gs : j \notin DOMAIN hs /\ gs[j].category = op => k <= j
    BY DEF Closing
  <2>2. Handles(gs[k], op, pc) /\ gs[k].by = by
    BY <1>3, <2>1 DEF Closing, Handles
  <2>3. \A j \in DOMAIN gs : Handles(gs[j], op, pc) => k <= j
    BY <1>1, <1>3, <2>1 DEF Uncaught, Handles
  <2> QED
    BY <2>1, <2>2, <2>3 DEF Taken, First
<1>4. ASSUME Uncaught(hs, op, pc), ~ (start <= pc)
      PROVE  Uncaught(gs, op, pc)
  BY <1>1, <1>4 DEF Uncaught, Handles, Closing
<1> QED
  BY <1>2, <1>3, <1>4, Zenon

LEMMA LeaveGoverned ==
  ASSUME NEW r \in KijiFrame, NEW s \in KijiFrame, s.code = r.code, s.bytecode_size = r.bytecode_size,
         NEW n \in Nat, NEW K, IsSeated(K, n), NEW J, NEW l, Turning(K, J, l, "in", "over"),
         NEW f, f = K[l].home, Governed(K, n, f, r),
         Closing(r.handlers, s.handlers, K[l].start, r.bytecode_size - 1, K[l].id)
  PROVE  Governed(J, n, f, s)
<1>1. /\ r.bytecode_size \in Nat /\ \A k \in DOMAIN r.code : r.code[k].at \in Nat
  <2>1. \A k \in DOMAIN r.code : r.code[k] \in Instruction
    BY FrameFields
  <2> QED
    BY <2>1, FrameFields DEF Instruction
<1>2. /\ Open(K, f, l) /\ K[l].id \in 1..n /\ K[l].start \in Int /\ K[l].start < r.bytecode_size
  BY DEF Turning, IsSeated, Open, Governed
<1>3. ASSUME NEW i, Open(J, f, i)
      PROVE  i # l /\ Open(K, f, i) /\ J[i] = K[i]
  BY <1>3 DEF Turning, Open
<1>4. ASSUME NEW i, Open(K, f, i), i # l
      PROVE  Open(J, f, i) /\ J[i] = K[i] /\ l > i
  BY <1>4 DEF Turning, Open, IsSeated
<1>5. ASSUME NEW k \in DOMAIN s.handlers
      PROVE  Ended(J, n, s, s.handlers[k])
  <2>1. CASE k \in DOMAIN r.handlers
    <3>1. Ended(K, n, r, r.handlers[k]) /\ s.handlers[k] = r.handlers[k]
      BY <2>1 DEF Governed, Closing
    <3> QED
      BY <3>1 DEF Ended, Turning
  <2>2. CASE k \notin DOMAIN r.handlers
    <3>1. s.handlers[k].by = K[l].id /\ s.handlers[k].end_offset = r.bytecode_size - 1
      BY <2>2 DEF Closing
    <3>2. \A i \in DOMAIN J : J[i].id = K[l].id => i = l /\ J[i].loop = "over"
      BY DEF Turning, IsSeated
    <3> QED
      BY <1>1, <1>2, <3>1, <3>2 DEF Ended
  <2> QED
    BY <2>1, <2>2
<1>6. \A i : Open(J, f, i) => J[i].start < s.bytecode_size
  BY <1>3 DEF Governed
<1>7. ASSUME NEW k \in DOMAIN s.code, IsThrow(s.code[k].op)
      PROVE  Point(J, n, f, s, s.code[k])
  <2>1. PICK in, hs, gs, op, pc, by :
          /\ in = r.code[k] /\ hs = r.handlers /\ gs = s.handlers /\ op = in.op
          /\ pc = in.at + 2 /\ by = in.by
    OBVIOUS
  <2>2. Point(K, n, f, r, in) /\ IsThrow(op)
    BY <1>7, <2>1 DEF Governed
  <2>3. Settles(K, f, hs, op, pc, by)
    BY <2>1, <2>2 DEF Point
  <2>4. pc \in Nat /\ pc <= r.bytecode_size - 1
    BY <1>1, <1>7, <2>1, <2>2 DEF Point
  <2>5. /\ \A b : Taken(hs, op, pc, b) => Taken(gs, op, pc, b)
        /\ Uncaught(hs, op, pc) /\ K[l].start <= pc => Taken(gs, op, pc, K[l].id)
        /\ Uncaught(hs, op, pc) /\ ~ (K[l].start <= pc) => Uncaught(gs, op, pc)
    BY <2>1, <2>2, <2>4, ClosingTakes
  <2>6. ASSUME Uncaught(hs, op, pc), Awaited(K, f, op, pc, by)
        PROVE  Settles(J, f, gs, op, pc, by)
    <3>1. PICK i : /\ Open(K, f, i) /\ K[i].id = by /\ K[i].start <= pc
                   /\ \A j : Open(K, f, j) /\ j > i => K[j].start > pc
      BY <2>6 DEF Awaited
    <3>2. CASE i = l
      BY <2>5, <2>6, <3>1, <3>2 DEF Settles
    <3>3. CASE i # l
      <4>1. Open(J, f, i) /\ J[i] = K[i] /\ K[l].start > pc
        BY <1>2, <1>4, <3>1, <3>3
      <4>2. Uncaught(gs, op, pc)
        BY <1>2, <2>4, <2>5, <2>6, <4>1
      <4>3. Awaited(J, f, op, pc, by)
        BY <1>3, <3>1, <4>1, Zenon DEF Awaited
      <4> QED
        BY <4>2, <4>3 DEF Settles
    <3> QED
      BY <3>2, <3>3
  <2>7. ASSUME Uncaught(hs, op, pc), Outside(K, f, hs, op, pc, by)
        PROVE  Settles(J, f, gs, op, pc, by)
    <3>1. K[l].start > pc /\ K[l].id # by
      BY <1>2, <2>7 DEF Outside
    <3>2. Uncaught(gs, op, pc)
      BY <1>2, <2>4, <2>5, <2>7, <3>1
    <3>3. \A j \in DOMAIN gs : gs[j].by # by
      BY <2>1, <2>7, <3>1 DEF Outside, Closing
    <3>4. \A i : Open(J, f, i) => J[i].start > pc /\ J[i].id # by
      BY <1>3, <2>7, Zenon DEF Outside
    <3>5. \A i \in DOMAIN J : J[i].id = by => J[i].loop # "none"
      BY <2>7 DEF Outside, Turning
    <3> QED
      BY <3>2, <3>3, <3>4, <3>5, Zenon DEF Settles, Outside
  <2>8. Settles(J, f, gs, op, pc, by)
    BY <2>3, <2>5, <2>6, <2>7, Zenon DEF Settles
  <2> QED
    BY <2>1, <2>2, <2>8 DEF Point
<1> QED
  BY <1>5, <1>6, <1>7, Zenon DEF Governed

(* A throw is emitted: by is the innermost loop in progress, 0 for none, and    *)
(* it is the innermost of the frame if there is one in the frame.             *)
Innermost(K, f, by) ==
  \/ \E i : Open(K, f, i) /\ K[i].id = by /\ \A j : Open(K, f, j) => j <= i
  \/ /\ \A i : ~ Open(K, f, i)
     /\ \A i \in DOMAIN K : K[i].id = by => K[i].loop \notin {"none", "over"}
     /\ by = 0 \/ \E i \in DOMAIN K : K[i].id = by

LEMMA ThrowGoverned ==
  ASSUME NEW r \in KijiFrame, NEW s \in KijiFrame, s.handlers = r.handlers,
         NEW in, Appends(r, s, in), in.at = r.bytecode_size, in.at + 3 < s.bytecode_size,
         NEW n \in Nat, NEW K, IsSeated(K, n), NEW f, Governed(K, n, f, r),
         Innermost(K, f, in.by)
  PROVE  Governed(K, n, f, s)
<1>1. /\ r.bytecode_size \in Nat /\ s.bytecode_size \in Nat /\ r.bytecode_size < s.bytecode_size
      /\ \A k \in DOMAIN r.code : r.code[k].at \in Nat
      /\ \A k \in DOMAIN r.handlers : r.handlers[k].end_offset \in Nat
      /\ DOMAIN r.code = 1..Len(r.code) /\ DOMAIN s.code = 1..Len(s.code) /\ Len(r.code) \in Nat
  <2>1. /\ \A k \in DOMAIN r.code : r.code[k] \in Instruction
        /\ \A k \in DOMAIN r.handlers : r.handlers[k] \in FrameHandler
    BY FrameFields
  <2> QED
    BY <2>1, FrameFields DEF Instruction, FrameHandler
<1>2. ASSUME NEW k \in DOMAIN s.handlers
      PROVE  Ended(K, n, s, s.handlers[k])
  BY <1>1 DEF Governed, Ended
<1>3. ASSUME NEW i, Open(K, f, i)
      PROVE  /\ K[i].start \in Int /\ K[i].start < r.bytecode_size /\ K[i].start < s.bytecode_size
             /\ i \in Nat /\ K[i].id \in 0..n
  BY <1>1, <1>3 DEF Governed, IsSeated, Open
<1>4. PICK hs, op, pc, by : hs = r.handlers /\ op = in.op /\ pc = in.at + 2 /\ by = in.by
  OBVIOUS
<1>5. Uncaught(hs, op, pc)
  <2> SUFFICES ASSUME NEW k \in DOMAIN hs
               PROVE  ~ Handles(hs[k], op, pc)
    BY DEF Uncaught
  <2>1. hs[k].end_offset < r.bytecode_size /\ hs[k].end_offset \in Nat
    BY <1>1, <1>4 DEF Governed, Ended
  <2>2. ~ (pc <= hs[k].end_offset)
    BY <1>1, <1>4, <2>1
  <2> QED
    BY <2>2 DEF Handles
<1>6. Settles(K, f, hs, op, pc, by) /\ by \in 0..n
  <2>1. CASE \E i : Open(K, f, i) /\ K[i].id = by /\ \A j : Open(K, f, j) => j <= i
    <3>1. PICK i : Open(K, f, i) /\ K[i].id = by /\ \A j : Open(K, f, j) => j <= i
      BY <2>1
    <3>2. K[i].start <= pc
      BY <1>1, <1>3, <1>4, <3>1
    <3>3. ASSUME NEW j, Open(K, f, j), j > i
          PROVE  FALSE
      BY <1>3, <3>1, <3>3
    <3> QED
      BY <1>3, <1>5, <3>1, <3>2, <3>3 DEF Settles, Awaited
  <2>2. CASE /\ \A i : ~ Open(K, f, i)
             /\ \A i \in DOMAIN K : K[i].id = by => K[i].loop \notin {"none", "over"}
             /\ by = 0 \/ \E i \in DOMAIN K : K[i].id = by
    <3>1. by \in 0..n
      BY <2>2 DEF IsSeated
    <3>2. ASSUME NEW k \in DOMAIN hs, hs[k].by = by
          PROVE  FALSE
      <4>1. by \in 1..n /\ \A i \in DOMAIN K : K[i].id = by => K[i].loop = "over"
        BY <1>4, <3>2 DEF Governed, Ended
      <4> QED
        BY <2>2, <4>1
    <3>3. \A i \in DOMAIN K : K[i].id = by => K[i].loop # "none"
      BY <2>2
    <3> QED
      BY <1>5, <2>2, <3>1, <3>2, <3>3, Zenon DEF Settles, Outside
  <2> QED
    BY <1>4, <2>1, <2>2 DEF Innermost
<1>7. ASSUME NEW k \in DOMAIN s.code, IsThrow(s.code[k].op)
      PROVE  Point(K, n, f, s, s.code[k])
  <2>1. CASE k \in DOMAIN r.code
    <3>1. s.code[k] = r.code[k]
      BY <2>1 DEF Appends
    <3>2. Point(K, n, f, r, r.code[k])
      BY <1>7, <2>1, <3>1 DEF Governed
    <3>3. r.bytecode_size <= s.bytecode_size /\ r.bytecode_size \in Nat /\ s.bytecode_size \in Nat
      BY <1>1, FrameFields DEF Appends
    <3>4. PICK a : a = r.code[k]
      OBVIOUS
    <3>5. /\ a.at + 3 < r.bytecode_size /\ a.by \in 0..n
          /\ Settles(K, f, s.handlers, a.op, a.at + 2, a.by)
      BY <3>2, <3>4, Zenon DEF Point
    <3>6. a.at \in Nat
      BY <2>1, <3>4, FrameFields, InstructionFields
    <3>7. a.at + 3 < s.bytecode_size
      BY <3>3, <3>5, <3>6
    <3> QED
      BY <3>1, <3>4, <3>5, <3>7, Zenon DEF Point
  <2>2. CASE k \notin DOMAIN r.code
    <3>1. s.code[k] = in
      BY <1>1, <2>2 DEF Appends
    <3> QED
      BY <1>4, <1>6, <3>1 DEF Point
  <2> QED
    BY <2>1, <2>2
<1> QED
  BY <1>2, <1>3, <1>7, Zenon DEF Governed
-----------------------------------------------------------------------------
(* The invariant, of the frames fr, the stack fs of their numbers, the        *)
(* activations ac and the number n of handlers called.  Activation i has the   *)
(* seat K[i] and works on the node W[i]; the frame it was called in is at Q[i]  *)
(* on the stack, and its top is D[i] frames above that.                       *)

Seated(K, Q, D, fs, ac) ==
  /\ DOMAIN K = DOMAIN ac /\ DOMAIN Q = DOMAIN ac /\ DOMAIN D = DOMAIN ac
  /\ \A i \in DOMAIN ac : D[i] \in Nat /\ Q[i] \in DOMAIN fs /\ K[i].home = fs[Q[i]]
  /\ ac # <<>> => Q[Len(ac)] + D[Len(ac)] = Len(fs)
  /\ \A i, j \in DOMAIN ac : i < j => Q[i] + D[i] <= Q[j]
  /\ \A i, j \in DOMAIN ac : j = i + 1 => Q[j] = Q[i] + D[i]

Guided(K, D, W, ac) ==
  \A i \in DOMAIN ac : W[i] \in DOMAIN Turns /\ <<ac[i].todo, Turn(D[i], K[i].loop)>> \in Turns[W[i]]

(* The C local start_offset is that of the loop; nothing is called after it.   *)
HasStart(a)    == "start_offset" \in DOMAIN a.loc
StartIs(a, k)  == /\ HasStart(a) <=> k.loop \in {"in", "over"}
                  /\ k.loop = "in" => k.start = a.loc["start_offset"]
Recorded(K, ac, n) ==
  /\ n \in Nat /\ IsSeated(K, n)
  /\ \A i \in DOMAIN ac : /\ K[i].id = ac[i].id /\ StartIs(ac[i], K[i])
                          /\ K[i].loop = "over" => i = Len(ac)

GovernedAll(K, fr, n) == \A f \in DOMAIN fr : Governed(K, n, f, fr[f])

Looped(K, Q, D, W, fr, fs, ac, n) ==
  Seated(K, Q, D, fs, ac) /\ Guided(K, D, W, ac) /\ Recorded(K, ac, n) /\ GovernedAll(K, fr, n)

(* The facts about the activation that runs.                                  *)
Topmost(l, top, K, Q, D, W, fr, fs, ac) ==
  /\ l \in Nat /\ l >= 1 /\ DOMAIN ac = 1..l /\ l \in DOMAIN ac /\ IsAct(ac[l])
  /\ Len(fs) \in Nat /\ DOMAIN fs = 1..Len(fs)
  /\ D[l] \in Nat /\ Q[l] \in 1..Len(fs) /\ Q[l] + D[l] = Len(fs) /\ K[l].home = fs[Q[l]]
  /\ top \in DOMAIN fr /\ fr[top] \in KijiFrame
  /\ W[l] \in DOMAIN Turns /\ <<ac[l].todo, Turn(D[l], K[l].loop)>> \in Turns[W[l]]

LEMMA TopFacts ==
  ASSUME NEW fr, NEW fs, NEW ac, NEW n, Machine(fr, fs, ac), ac # <<>>,
         NEW K, NEW Q, NEW D, NEW W, Looped(K, Q, D, W, fr, fs, ac, n),
         NEW l, NEW top, l = Len(ac), top = fs[Len(fs)]
  PROVE  Topmost(l, top, K, Q, D, W, fr, fs, ac)
<1>1. IsSeq(ac) /\ Len(fs) \in Nat /\ DOMAIN fs = 1..Len(fs)
  BY DEF Machine
<1>2. l \in Nat /\ DOMAIN ac = 1..l
  BY <1>1, SeqFields
<1>3. l # 0
  BY <1>1, EmptySeq DEF IsSeq
<1>4. l \in DOMAIN ac /\ l >= 1
  BY <1>2, <1>3
<1>5. D[l] \in Nat /\ Q[l] \in DOMAIN fs /\ K[l].home = fs[Q[l]] /\ Q[l] + D[l] = Len(fs)
  BY <1>4 DEF Looped, Seated
<1>6. W[l] \in DOMAIN Turns /\ <<ac[l].todo, Turn(D[l], K[l].loop)>> \in Turns[W[l]]
  BY <1>4, Zenon DEF Looped, Guided
<1>7. Len(fs) \in DOMAIN fs
  BY <1>1, <1>5
<1>8. top \in DOMAIN fr /\ fr[top] \in KijiFrame /\ IsAct(ac[l])
  BY <1>4, <1>7 DEF Machine
<1> QED
  BY <1>1, <1>2, <1>4, <1>5, <1>6, <1>8 DEF Topmost

(* Activation a of seat k goes on as e of seat j.                             *)
Goes(w, d, k, a, j, e) ==
  /\ e.id = a.id /\ j.id = k.id /\ j.home = k.home /\ StartIs(e, j)
  /\ j.loop = "never" <=> k.loop = "never"
  /\ j.loop = "in" => j.start \in Int
  /\ <<e.todo, Turn(d, j.loop)>> \in Turns[w]

LEMMA TopGoesOn ==
  ASSUME NEW fr, NEW fs, NEW ac, NEW n, Machine(fr, fs, ac), ac # <<>>,
         NEW K, NEW Q, NEW D, NEW W, Looped(K, Q, D, W, fr, fs, ac, n),
         NEW l, NEW top, l = Len(ac), top = fs[Len(fs)],
         NEW J, DOMAIN J = DOMAIN K, \A i \in DOMAIN K : i # l => J[i] = K[i],
         NEW a, Goes(W[l], D[l], K[l], ac[l], J[l], a), NEW r, Governed(J, n, top, r),
         \A f \in DOMAIN fr : f # top => Governed(J, n, f, fr[f])
  PROVE  Looped(J, Q, D, W, [fr EXCEPT ![top] = r], fs, [ac EXCEPT ![l] = a], n)
<1>1. PICK fr2, ac2 : fr2 = [fr EXCEPT ![top] = r] /\ ac2 = [ac EXCEPT ![l] = a]
  OBVIOUS
<1>2. Topmost(l, top, K, Q, D, W, fr, fs, ac)
  BY TopFacts
<1>3. /\ l \in Nat /\ l >= 1 /\ DOMAIN ac = 1..l /\ l \in DOMAIN ac /\ top \in DOMAIN fr
      /\ W[l] \in DOMAIN Turns
  BY <1>2, Zenon DEF Topmost
<1>4. /\ Len(ac2) = Len(ac) /\ DOMAIN ac2 = DOMAIN ac /\ ac2[l] = a
      /\ \A i \in DOMAIN ac : i # l => ac2[i] = ac[i]
      /\ DOMAIN fr2 = DOMAIN fr /\ fr2[top] = r
      /\ \A f \in DOMAIN fr : f # top => fr2[f] = fr[f]
  BY <1>1, <1>3, ExceptIsSeq DEF Machine
<1>5. /\ J[l].id = K[l].id /\ J[l].home = K[l].home /\ (J[l].loop = "never" <=> K[l].loop = "never")
      /\ J[l].loop = "in" => J[l].start \in Int
      /\ a.id = ac[l].id /\ StartIs(a, J[l]) /\ <<a.todo, Turn(D[l], J[l].loop)>> \in Turns[W[l]]
  BY DEF Goes
<1>6. DOMAIN K = DOMAIN ac
  BY Zenon DEF Looped, Seated
<1>7. \A i \in DOMAIN K : /\ J[i].id = K[i].id /\ J[i].home = K[i].home
                          /\ J[i].loop = "never" <=> K[i].loop = "never"
  BY <1>5
<1>8. Seated(J, Q, D, fs, ac2)
  BY <1>4, <1>6, <1>7, Zenon DEF Looped, Seated
<1>9. Guided(J, D, W, ac2)
  <2> SUFFICES ASSUME NEW i \in DOMAIN ac
               PROVE  W[i] \in DOMAIN Turns /\ <<ac2[i].todo, Turn(D[i], J[i].loop)>> \in Turns[W[i]]
    BY <1>4, Zenon DEF Guided
  <2>1. CASE i = l
    BY <1>3, <1>4, <1>5, <2>1
  <2>2. CASE i # l
    BY <1>4, <1>6, <2>2 DEF Looped, Guided
  <2> QED
    BY <2>1, <2>2
<1>10. Recorded(J, ac2, n)
  <2>1. n \in Nat /\ IsSeated(K, n)
    BY Zenon DEF Looped, Recorded
  <2>2. ASSUME NEW i \in DOMAIN J
        PROVE  /\ i \in Nat /\ J[i].id \in 0..n /\ (J[i].id = 0 <=> J[i].loop = "never")
               /\ J[i].loop = "in" => J[i].start \in Int
    <3>1. /\ i \in Nat /\ K[i].id \in 0..n /\ (K[i].id = 0 <=> K[i].loop = "never")
          /\ K[i].loop = "in" => K[i].start \in Int
      BY <2>1 DEF IsSeated
    <3> QED
      BY <1>5, <3>1
  <2>3. \A i, j \in DOMAIN J : J[i].id = J[j].id => i = j
    BY <1>7, <2>1, Zenon DEF IsSeated
  <2>4. IsSeated(J, n)
    BY <2>2, <2>3 DEF IsSeated
  <2>5. ASSUME NEW i \in DOMAIN ac2
        PROVE  J[i].id = ac2[i].id /\ StartIs(ac2[i], J[i]) /\ (J[i].loop = "over" => i = Len(ac2))
    <3>1. K[i].id = ac[i].id /\ StartIs(ac[i], K[i]) /\ (K[i].loop = "over" => i = Len(ac))
      BY <1>4, Zenon DEF Looped, Recorded
    <3>2. CASE i = l
      BY <1>4, <1>5, <3>1, <3>2
    <3>3. CASE i # l
      BY <1>4, <1>6, <3>1, <3>3
    <3> QED
      BY <3>2, <3>3
  <2> QED
    BY <2>1, <2>4, <2>5, Zenon DEF Recorded
<1>11. GovernedAll(J, fr2, n)
  BY <1>4 DEF GovernedAll
<1> QED
  BY <1>1, <1>8, <1>9, <1>10, <1>11 DEF Looped
-----------------------------------------------------------------------------
(* The same of the state of Codegen.                                         *)

LoopsInv ==
  \E K, Q, D, W, fr, fs, ac, n :
    /\ fr = frame /\ fs = frames /\ ac = acts /\ n = calls
    /\ Looped(K, Q, D, W, fr, fs, ac, n)

(* What the discipline says of the operation in progress.                     *)
LEMMA Judges ==
  ASSUME NEW w \in DOMAIN Turns, NEW todo, todo # <<>>, NEW c, <<todo, c>> \in Turns[w]
  PROVE  /\ Allowed(todo[1], c)
         /\ \A t \in Ways(todo) : <<t, Turned(todo[1], c)>> \in Turns[w]
         /\ todo[1].op = "child" => /\ todo[1].node \in DOMAIN Turns
                                    /\ <<Script(todo[1].node), Turn(0, "none")>> \in Turns[todo[1].node]
<1>1. Nests(Turns)
  BY NestingAssumption DEF Nesting
<1>2. PICK p : p = <<todo, c>>
  OBVIOUS
<1>3. p[1] = todo /\ p[2] = c /\ p \in Turns[w]
  BY <1>2
<1> QED
  BY <1>1, <1>3 DEF Nests

(* Wherever todo is left to do, t may be left in the same turn.               *)
Stays(todo, t) == \A w \in DOMAIN Turns : \A c : <<todo, c>> \in Turns[w] => <<t, c>> \in Turns[w]

(* An operation but for these leaves the turn as it is.                       *)
IsCalm(op) == op.op \notin {"enter", "leave", "pushframe", "popframe"}

LEMMA CalmWays ==
  ASSUME NEW todo, todo # <<>>, IsCalm(todo[1]), NEW t \in Ways(todo)
  PROVE  Stays(todo, t)
<1> SUFFICES ASSUME NEW w \in DOMAIN Turns, NEW c, <<todo, c>> \in Turns[w]
             PROVE  <<t, c>> \in Turns[w]
  BY DEF Stays
<1>1. <<t, Turned(todo[1], c)>> \in Turns[w]
  BY Judges
<1>2. PICK op : op = todo[1]
  OBVIOUS
<1>3. Turned(op, c) = c
  BY <1>2 DEF Turned, IsCalm
<1> QED
  BY <1>1, <1>2, <1>3

LEMMA TheRest ==
  ASSUME NEW todo, todo[1].op \notin {"return", "die", "switch", "ifunknown", "find"}
  PROVE  Tail(todo) \in Ways(todo)
<1>1. PICK op : op = todo[1]
  OBVIOUS
<1>2. Ways(todo) = {Tail(todo)}
  BY <1>1 DEF Ways
<1> QED
  BY <1>2

(* The start of the loop is kept.                                            *)
KeepsStart(lc) ==
  /\ "start_offset" \in DOMAIN lc <=> "start_offset" \in DOMAIN loc
  /\ "start_offset" \in DOMAIN loc => lc["start_offset"] = loc["start_offset"]

LEMMA AssignKeepsStart ==
  ASSUME NEW v, v # "start_offset", NEW x
  PROVE  KeepsStart(Assign(loc, v, x))
BY DEF KeepsStart, Assign

(* The state as values, and what is known of the activation that runs.        *)
InProgress(l, top, K, Q, D, W, fr, fs, ac, n) ==
  /\ fr = frame /\ fs = frames /\ ac = acts /\ n = calls
  /\ Looped(K, Q, D, W, fr, fs, ac, n) /\ Machine(fr, fs, ac) /\ ac # <<>>
  /\ l = Len(ac) /\ top = fs[Len(fs)] /\ Topmost(l, top, K, Q, D, W, fr, fs, ac)
  /\ Act = ac[l] /\ loc = ac[l].loc /\ Top = top /\ frame[Top] = fr[top]
  /\ n \in Nat /\ IsSeated(K, n) /\ l \in DOMAIN K /\ K[l].id = ac[l].id /\ StartIs(ac[l], K[l])
  /\ \A f \in DOMAIN fr : Governed(K, n, f, fr[f])

LEMMA LoopsNow ==
  ASSUME NEW C, NEW B, NEW V, IInv(C, B, V), status = "compiling", LoopsInv
  PROVE  \E l, top, K, Q, D, W, fr, fs, ac, n : InProgress(l, top, K, Q, D, W, fr, fs, ac, n)
<1>1. PICK K, Q, D, W, fr, fs, ac, n :
        /\ fr = frame /\ fs = frames /\ ac = acts /\ n = calls
        /\ Looped(K, Q, D, W, fr, fs, ac, n)
  BY Zenon DEF LoopsInv
<1>2. Machine(fr, fs, ac) /\ ac # <<>>
  BY <1>1, MachineNow, ActsSome
<1>3. PICK l, top : l = Len(ac) /\ top = fs[Len(fs)]
  OBVIOUS
<1>4. Topmost(l, top, K, Q, D, W, fr, fs, ac)
  BY <1>1, <1>2, <1>3, TopFacts
<1>5. l \in DOMAIN ac
  BY <1>4, Zenon DEF Topmost
<1>6. DOMAIN K = DOMAIN ac
  BY <1>1, Zenon DEF Looped, Seated
<1>7. n \in Nat /\ IsSeated(K, n) /\ K[l].id = ac[l].id /\ StartIs(ac[l], K[l])
  BY <1>1, <1>5, Zenon DEF Looped, Recorded
<1>8. \A f \in DOMAIN fr : Governed(K, n, f, fr[f])
  BY <1>1, Zenon DEF Looped, GovernedAll
<1>9. Act = ac[l] /\ loc = ac[l].loc /\ Top = top /\ frame[Top] = fr[top]
  BY <1>1, <1>3 DEF Act, loc, Top
<1> QED
  BY <1>1, <1>2, <1>3, <1>4, <1>5, <1>6, <1>7, <1>8, <1>9, Zenon DEF InProgress

LEMMA QuietGoesOn ==
  ASSUME NEW C, NEW B, NEW V, IInv(C, B, V), status = "compiling", LoopsInv,
         NEW t, NEW lc, NEW lb, NEW r \in KijiFrame,
         Resume(t, lc, lb), SetTop(r), frames' = frames, calls' = calls,
         Quietly(frame[Top], r), Stays(Act.todo, t), KeepsStart(lc)
  PROVE  LoopsInv'
<1>1. PICK l, top, K, Q, D, W, fr, fs, ac, n : InProgress(l, top, K, Q, D, W, fr, fs, ac, n)
  BY LoopsNow
<1>2. /\ fr = frame /\ fs = frames /\ ac = acts /\ n = calls
      /\ Looped(K, Q, D, W, fr, fs, ac, n) /\ Machine(fr, fs, ac) /\ ac # <<>>
      /\ l = Len(ac) /\ top = fs[Len(fs)] /\ Topmost(l, top, K, Q, D, W, fr, fs, ac)
      /\ Act = ac[l] /\ loc = ac[l].loc /\ Top = top /\ frame[Top] = fr[top]
      /\ n \in Nat /\ IsSeated(K, n) /\ l \in DOMAIN K /\ K[l].id = ac[l].id /\ StartIs(ac[l], K[l])
      /\ \A f \in DOMAIN fr : Governed(K, n, f, fr[f])
  BY <1>1, Zenon DEF InProgress
<1>3. /\ IsAct(ac[l]) /\ W[l] \in DOMAIN Turns /\ <<ac[l].todo, Turn(D[l], K[l].loop)>> \in Turns[W[l]]
      /\ top \in DOMAIN fr /\ fr[top] \in KijiFrame
  BY <1>2, Zenon DEF Topmost
<1>4. PICK a : a = Resumed(ac[l], t, lc, lb)
  OBVIOUS
<1>5. a.todo = t /\ a.loc = lc /\ a.id = ac[l].id
  BY <1>3, <1>4, ActFields
<1>6. <<t, Turn(D[l], K[l].loop)>> \in Turns[W[l]]
  BY <1>2, <1>3, Zenon DEF Stays
<1>7. StartIs(a, K[l])
  BY <1>2, <1>5 DEF StartIs, HasStart, KeepsStart
<1>8. K[l].loop = "in" => K[l].start \in Int
  BY <1>2 DEF IsSeated
<1>9. Goes(W[l], D[l], K[l], ac[l], K[l], a)
  BY <1>2, <1>5, <1>6, <1>7, <1>8, Zenon DEF Goes
<1>10. Governed(K, n, top, r)
  <2>1. Governed(K, n, top, fr[top]) /\ Quietly(fr[top], r)
    BY <1>2, <1>3
  <2> QED
    BY <1>2, <1>3, <2>1, QuietlyGoverned
<1>11. Looped(K, Q, D, W, [fr EXCEPT ![top] = r], fs, [ac EXCEPT ![l] = a], n)
  BY <1>2, <1>9, <1>10, TopGoesOn
<1>12. /\ frame' = [fr EXCEPT ![top] = r] /\ frames' = fs
       /\ acts' = [ac EXCEPT ![l] = a] /\ calls' = n
  BY <1>2, <1>4 DEF SetTop, Resume, Resumed
<1> QED
  BY <1>11, <1>12 DEF LoopsInv

(* The frame on top gets neither a throw nor a handler.                       *)
FillsQuietly == \E r \in KijiFrame : SetTop(r) /\ Quietly(frame[Top], r)

LEMMA QuietlySame ==
  ASSUME NEW r \in KijiFrame, NEW s, s.handlers = r.handlers, s.bytecode_size = r.bytecode_size,
         s.code = r.code
  PROVE  Quietly(r, s)
BY FrameFields DEF Quietly

LEMMA FrameStays ==
  ASSUME NEW C, NEW B, NEW V, IInv(C, B, V), status = "compiling", frame' = frame
  PROVE  FillsQuietly
<1>1. frame[Top] \in KijiFrame /\ Top \in DOMAIN frame /\ IsSeq(frame)
  BY ActsSome, Zenon DEF IInv, Filled
<1>2. [frame EXCEPT ![Top] = frame[Top]] = frame
  BY <1>1 DEF IsSeq
<1>3. SetTop(frame[Top])
  BY <1>2 DEF SetTop
<1>4. Quietly(frame[Top], frame[Top])
  BY <1>1, QuietlySame
<1> QED
  BY <1>1, <1>3, <1>4 DEF FillsQuietly

(* Operations that leave but one thing to do, the rest, in the same turn.      *)
IsSteady(op) == IsCalm(op) /\ op.op \notin {"return", "die", "switch", "ifunknown", "find"}

LEMMA SteadyStays ==
  ASSUME Act.todo # <<>>, IsSteady(Op)
  PROVE  Stays(Act.todo, Tail(Act.todo))
<1>1. PICK todo : todo = Act.todo /\ todo[1] = Op
  BY DEF Op
<1>2. Tail(todo) \in Ways(todo)
  BY <1>1, TheRest DEF IsSteady
<1> QED
  BY <1>1, <1>2, CalmWays DEF IsSteady

LEMMA SetTurnsOn ==
  ASSUME NEW C, NEW B, NEW V, IInv(C, B, V), status = "compiling", LoopsInv,
         Act.todo # <<>>, IsSteady(Op), NEW v, v # "start_offset", NEW x,
         ContinueSet(v, x), FillsQuietly, frames' = frames, calls' = calls
  PROVE  LoopsInv'
<1>1. PICK r \in KijiFrame : SetTop(r) /\ Quietly(frame[Top], r)
  BY Zenon DEF FillsQuietly
<1>2. PICK t, lc : t = Tail(Act.todo) /\ lc = Assign(loc, v, x)
  OBVIOUS
<1>3. Stays(Act.todo, t) /\ KeepsStart(lc) /\ Resume(t, lc, lab)
  BY <1>2, SteadyStays, AssignKeepsStart DEF ContinueSet
<1> QED
  BY <1>1, <1>3, QuietGoesOn

LEMMA LabelTurnsOn ==
  ASSUME NEW C, NEW B, NEW V, IInv(C, B, V), status = "compiling", LoopsInv,
         Act.todo # <<>>, IsSteady(Op), NEW lb,
         Resume(Tail(Act.todo), loc, lb), FillsQuietly, frames' = frames, calls' = calls
  PROVE  LoopsInv'
<1>1. PICK r \in KijiFrame : SetTop(r) /\ Quietly(frame[Top], r)
  BY Zenon DEF FillsQuietly
<1>2. PICK t : t = Tail(Act.todo)
  OBVIOUS
<1>3. Stays(Act.todo, t) /\ KeepsStart(loc) /\ Resume(t, loc, lb)
  BY <1>2, SteadyStays DEF KeepsStart
<1> QED
  BY <1>1, <1>3, QuietGoesOn

LEMMA RestTurnsOn ==
  ASSUME NEW C, NEW B, NEW V, IInv(C, B, V), status = "compiling", LoopsInv,
         Act.todo # <<>>, IsSteady(Op), Continue, FillsQuietly, frames' = frames, calls' = calls
  PROVE  LoopsInv'
BY LabelTurnsOn DEF Continue

(* A choice of what to do next.                                              *)
LEMMA WayTurnsOn ==
  ASSUME NEW C, NEW B, NEW V, IInv(C, B, V), status = "compiling", LoopsInv,
         Act.todo # <<>>, IsCalm(Op), NEW t \in Ways(Act.todo), NEW lc, KeepsStart(lc),
         Resume(t, lc, lab), frame' = frame, frames' = frames, calls' = calls
  PROVE  LoopsInv'
<1>1. PICK r \in KijiFrame : SetTop(r) /\ Quietly(frame[Top], r)
  BY FrameStays, Zenon DEF FillsQuietly
<1>2. PICK todo : todo = Act.todo /\ todo[1] = Op
  BY DEF Op
<1>3. Stays(todo, t)
  BY <1>2, CalmWays
<1> QED
  BY <1>1, <1>2, <1>3, QuietGoesOn
-----------------------------------------------------------------------------
(* The actions, one by one: first those that leave the turns and the loops.    *)

LEMMA FreeVariable ==
  ASSUME NEW C, NEW B, NEW V, IInv(C, B, V), status = "compiling",
         Op.op \in {"child", "set", "narrow", "reg", "lexical", "pushframe", "mark"}
  PROVE  Op.dst # "start_offset"
<1>1. Constrained(Op, C[N])
  BY Discipline
<1> QED
  BY <1>1 DEF Constrained, IsFreeVariable

LEMMA StoppedTurns ==
  ASSUME LoopsInv, UNCHANGED <<frame, frames, acts, calls>>
  PROVE  LoopsInv'
BY DEF LoopsInv

LEMMA SetTurns ==
  ASSUME NEW C, NEW B, NEW V, IInv(C, B, V), LoopsInv, Set
  PROVE  LoopsInv'
<1>1. /\ status = "compiling" /\ Act.todo # <<>> /\ Op.op = "set" /\ ContinueSet(Op.dst, loc[Op.src])
      /\ frame' = frame /\ frames' = frames /\ calls' = calls
  BY DEF Set, Does, Proceed
<1>2. IsSteady(Op) /\ Op.dst # "start_offset"
  BY <1>1, FreeVariable DEF IsSteady, IsCalm
<1> QED
  BY <1>1, <1>2, FrameStays, SetTurnsOn

LEMMA NarrowTurns ==
  ASSUME NEW C, NEW B, NEW V, IInv(C, B, V), LoopsInv, Narrow
  PROVE  LoopsInv'
<1>1. /\ status = "compiling" /\ Act.todo # <<>> /\ Op.op = "narrow"
      /\ ContinueSet(Op.dst, U16(loc[Op.dst]))
      /\ frame' = frame /\ frames' = frames /\ calls' = calls
  BY DEF Narrow, Does, Proceed
<1>2. IsSteady(Op) /\ Op.dst # "start_offset"
  BY <1>1, FreeVariable DEF IsSteady, IsCalm
<1> QED
  BY <1>1, <1>2, FrameStays, SetTurnsOn

LEMMA SwitchTurns ==
  ASSUME NEW C, NEW B, NEW V, IInv(C, B, V), LoopsInv, Switch
  PROVE  LoopsInv'
<1>1. status = "compiling" /\ Act.todo # <<>> /\ Op.op = "switch"
  BY DEF Switch, Does
<1>2. CASE Stop("assert")
  BY <1>2, StoppedTurns DEF Stop
<1>3. CASE ~ Stop("assert")
  <2>1. PICK t : t = Op.cases[TypeOf(loc[Op.on])] \o Tail(Act.todo)
    OBVIOUS
  <2>2. /\ IsRegister(loc[Op.on]) /\ Resume(t, loc, lab)
        /\ frame' = frame /\ frames' = frames /\ calls' = calls
    BY <1>3, <2>1 DEF Switch, Proceed
  <2>3. TypeOf(loc[Op.on]) \in RegTypes
    <3>1. Known(C[N], Op.on)
      BY <1>1, Discipline DEF Constrained
    <3> QED
      BY <1>1, <2>2, <3>1, LocalType
  <2>4. t \in Ways(Act.todo)
    BY <1>1, <2>1, <2>3 DEF Ways, Op
  <2>5. IsCalm(Op)
    BY <1>1 DEF IsCalm
  <2>6. KeepsStart(loc)
    BY DEF KeepsStart
  <2> QED
    BY <1>1, <2>2, <2>4, <2>5, <2>6, WayTurnsOn
<1> QED
  BY <1>2, <1>3

LEMMA IfUnknownTurns ==
  ASSUME NEW C, NEW B, NEW V, IInv(C, B, V), LoopsInv, IfUnknown
  PROVE  LoopsInv'
<1>1. /\ status = "compiling" /\ Act.todo # <<>> /\ Op.op = "ifunknown"
      /\ frame' = frame /\ frames' = frames /\ calls' = calls
  BY DEF IfUnknown, Does, Proceed
<1>2. PICK t : t = (IF loc[Op.on] = UNKNOWN_REG THEN Op.yes ELSE Op.no) \o Tail(Act.todo)
  OBVIOUS
<1>3. Resume(t, loc, lab)
  BY <1>2 DEF IfUnknown
<1>4. t \in Ways(Act.todo)
  BY <1>1, <1>2 DEF Ways, Op
<1>5. IsCalm(Op) /\ KeepsStart(loc)
  BY <1>1 DEF IsCalm, KeepsStart
<1> QED
  BY <1>1, <1>3, <1>4, <1>5, WayTurnsOn

LEMMA AssertTypeTurns ==
  ASSUME NEW C, NEW B, NEW V, IInv(C, B, V), LoopsInv, AssertType
  PROVE  LoopsInv'
<1>1. status = "compiling" /\ Act.todo # <<>> /\ Op.op = "assert"
  BY DEF AssertType, Does
<1>2. CASE Stop("assert")
  BY <1>2, StoppedTurns DEF Stop
<1>3. CASE ~ Stop("assert")
  <2>1. Continue /\ frame' = frame /\ frames' = frames /\ calls' = calls
    BY <1>3 DEF AssertType, Proceed
  <2>2. IsSteady(Op)
    BY <1>1 DEF IsSteady, IsCalm
  <2> QED
    BY <1>1, <2>1, <2>2, FrameStays, RestTurnsOn
<1> QED
  BY <1>2, <1>3

LEMMA LoopMarkTurns ==
  ASSUME NEW C, NEW B, NEW V, IInv(C, B, V), LoopsInv, LoopMark
  PROVE  LoopsInv'
<1>1. /\ status = "compiling" /\ Act.todo # <<>> /\ Op.op = "mark" /\ ContinueSet(Op.dst, Size)
      /\ frame' = frame /\ frames' = frames /\ calls' = calls
  BY DEF LoopMark, Does, Proceed
<1>2. IsSteady(Op) /\ Op.dst # "start_offset"
  BY <1>1, FreeVariable DEF IsSteady, IsCalm
<1> QED
  BY <1>1, <1>2, FrameStays, SetTurnsOn

LEMMA OpenClassTurns ==
  ASSUME NEW C, NEW B, NEW V, IInv(C, B, V), LoopsInv, OpenClass
  PROVE  LoopsInv'
<1>1. /\ status = "compiling" /\ Act.todo # <<>> /\ Op.op = "class"
      /\ ContinueSet("wval1", Len(cu.scs)) /\ frame' = frame /\ frames' = frames /\ calls' = calls
  BY DEF OpenClass, Does
<1>2. IsSteady(Op)
  BY <1>1 DEF IsSteady, IsCalm
<1> QED
  BY <1>1, <1>2, FrameStays, SetTurnsOn

LEMMA CloseClassTurns ==
  ASSUME NEW C, NEW B, NEW V, IInv(C, B, V), LoopsInv, CloseClass
  PROVE  LoopsInv'
<1>1. /\ status = "compiling" /\ Act.todo # <<>> /\ Op.op = "endclass"
      /\ Continue /\ frame' = frame /\ frames' = frames /\ calls' = calls
  BY DEF CloseClass, Does
<1>2. IsSteady(Op)
  BY <1>1 DEF IsSteady, IsCalm
<1> QED
  BY <1>1, <1>2, FrameStays, RestTurnsOn

LEMMA BindMethodTurns ==
  ASSUME NEW C, NEW B, NEW V, IInv(C, B, V), LoopsInv, BindMethod
  PROVE  LoopsInv'
<1>1. status = "compiling" /\ Act.todo # <<>> /\ Op.op = "bindmethod"
  BY DEF BindMethod, Does
<1>2. CASE Stop("panic")
  BY <1>2, StoppedTurns DEF Stop
<1>3. CASE ~ Stop("panic")
  <2>1. Continue /\ frame' = frame /\ frames' = frames /\ calls' = calls
    BY <1>3 DEF BindMethod
  <2>2. IsSteady(Op)
    BY <1>1 DEF IsSteady, IsCalm
  <2> QED
    BY <1>1, <2>1, <2>2, FrameStays, RestTurnsOn
<1> QED
  BY <1>2, <1>3

LEMMA FinalizeTurns ==
  ASSUME NEW C, NEW B, NEW V, IInv(C, B, V), LoopsInv, Finalize
  PROVE  LoopsInv'
<1>1. /\ status = "compiling" /\ Act.todo # <<>> /\ Op.op = "finalize"
      /\ Continue /\ frame' = frame /\ frames' = frames /\ calls' = calls
  BY DEF Finalize, Does
<1>2. IsSteady(Op)
  BY <1>1 DEF IsSteady, IsCalm
<1> QED
  BY <1>1, <1>2, FrameStays, RestTurnsOn

LEMMA FindNameTurns ==
  ASSUME NEW C, NEW B, NEW V, IInv(C, B, V), LoopsInv, FindName
  PROVE  LoopsInv'
<1>1. /\ status = "compiling" /\ Act.todo # <<>> /\ Op.op = "find"
      /\ frame' = frame /\ frames' = frames /\ calls' = calls
  BY DEF FindName, Does, Proceed
<1>2. IsCalm(Op) /\ KeepsStart(loc)
  BY <1>1 DEF IsCalm, KeepsStart
<1>3. Len(frame) \in Nat /\ DOMAIN frame = 1..Len(frame) /\ Top \in DOMAIN frame
  BY <1>1, Now
<1>4. \A f \in DOMAIN frame : frame[f].outer \in 0..(f - 1)
  BY Zenon DEF IInv, Filled
<1>5. PICK f, outer : f = Climb[Top][2] /\ outer = Climb[Top][1]
  OBVIOUS
<1>6. f # 0 => Has(f)
  <2>1. \A g \in 1..Len(frame) : frame[g].outer \in 0..(g - 1)
    BY <1>3, <1>4
  <2>2. \A g \in 0..Len(frame) : Climb[g][2] # 0 => Has(Climb[g][2])
    BY <1>3, <2>1, ClimbEnds
  <2>3. Top \in 0..Len(frame)
    BY <1>3
  <2> QED
    BY <1>5, <2>2, <2>3
<1>7. /\ Op.found \o Tail(Act.todo) \in Ways(Act.todo)
      /\ Op.package # <<>> => Op.package \o Tail(Act.todo) \in Ways(Act.todo)
      /\ Op.missing \o Tail(Act.todo) \in Ways(Act.todo)
  BY <1>1 DEF Ways, Op
<1>8. CASE f = 0 /\ Resume(Op.missing \o Tail(Act.todo), loc, lab)
  BY <1>1, <1>2, <1>7, <1>8, WayTurnsOn
<1>9. CASE f # 0 /\ Lexicals(f) = {} /\ Resume(Op.package \o Tail(Act.todo), loc, lab)
  <2>1. Op.package # <<>>
    BY <1>6, <1>9 DEF Has, IsPackageVariable
  <2> QED
    BY <1>1, <1>2, <1>7, <1>9, <2>1, WayTurnsOn
<1>10. CASE Resume(Op.found \o Tail(Act.todo),
                   Assign(Assign(loc, "lex_no", SetMax(Lexicals(f)) - 1), "outer", outer), lab)
  <2>1. PICK x, lc : /\ x = SetMax(Lexicals(f)) - 1
                     /\ lc = Assign(Assign(loc, "lex_no", x), "outer", outer)
    OBVIOUS
  <2>2. KeepsStart(lc)
    BY <2>1 DEF Assign, KeepsStart
  <2>3. Resume(Op.found \o Tail(Act.todo), lc, lab)
    BY <1>10, <2>1
  <2> QED
    BY <1>1, <1>2, <1>7, <2>2, <2>3, WayTurnsOn
<1>11. \/ f = 0 /\ Resume(Op.missing \o Tail(Act.todo), loc, lab)
       \/ f # 0 /\ Lexicals(f) = {} /\ Resume(Op.package \o Tail(Act.todo), loc, lab)
       \/ Resume(Op.found \o Tail(Act.todo),
                 Assign(Assign(loc, "lex_no", SetMax(Lexicals(f)) - 1), "outer", outer), lab)
  BY <1>5 DEF FindName
<1> QED
  BY <1>8, <1>9, <1>10, <1>11
-----------------------------------------------------------------------------
(* The actions that fill the frame on top without a throw or a handler.        *)

SameBytes(r, s) == s.code = r.code /\ s.handlers = r.handlers /\ s.bytecode_size = r.bytecode_size

LEMMA FrameQuietly ==
  ASSUME NEW C, NEW B, NEW V, IInv(C, B, V), status = "compiling", Inv', NEW r, SetTop(r),
         SameBytes(frame[Top], r)
  PROVE  FillsQuietly
<1>1. r \in KijiFrame /\ frame[Top] \in KijiFrame
  BY TopThen
<1>2. Quietly(frame[Top], r)
  BY <1>1, QuietlySame DEF SameBytes
<1> QED
  BY <1>1, <1>2 DEF FillsQuietly

(* A place is patched.                                                       *)
LEMMA PatchesQuietly ==
  ASSUME NEW C, NEW B, NEW V, IInv(C, B, V), status = "compiling", Inv', NEW slots, NEW val,
         SetTop([frame[Top] EXCEPT !.code = Patch(@, slots, val)])
  PROVE  FillsQuietly
<1>1. PICK r, s : r = frame[Top] /\ s = [r EXCEPT !.code = Patch(@, slots, val)]
  OBVIOUS
<1>2. s \in KijiFrame /\ r \in KijiFrame /\ SetTop(s)
  BY <1>1, TopThen
<1>3. /\ s.code = Patch(r.code, slots, val) /\ s.handlers = r.handlers
      /\ s.bytecode_size = r.bytecode_size /\ r.bytecode_size \in Nat
      /\ \A i \in DOMAIN r.code : r.code[i] \in Instruction
  BY <1>1, <1>2, FrameFields DEF KijiFrame
<1>4. DOMAIN s.code = DOMAIN r.code
  BY <1>3 DEF Patch
<1>5. ASSUME NEW k \in DOMAIN r.code
      PROVE  s.code[k].op = r.code[k].op /\ s.code[k].at = r.code[k].at /\ s.code[k].by = r.code[k].by
  <2>1. \/ s.code[k] = [r.code[k] EXCEPT !.target = val]
        \/ s.code[k] = r.code[k]
    BY <1>3 DEF Patch
  <2> QED
    BY <1>3, <2>1 DEF Instruction
<1>6. Quietly(r, s)
  BY <1>3, <1>4, <1>5 DEF Quietly
<1> QED
  BY <1>1, <1>2, <1>6 DEF FillsQuietly

(* An instruction is emitted.                                                *)
LEMMA TopFormed ==
  ASSUME NEW C, NEW B, NEW V, IInv(C, B, V), status = "compiling", Inv', NEW r, SetTop(r)
  PROVE  WellFormed(r)
<1>1. PICK E, F, G : IInv(E, F, G)'
  BY Zenon DEF Inv
<1>2. Filled(E, F)'
  BY <1>1, Zenon DEF IInv
<1>3. \A f \in DOMAIN frame' : WellFormed(frame'[f])
  BY <1>2, Zenon DEF Filled
<1>4. Top \in DOMAIN frame
  BY ActsSome
<1>5. Top \in DOMAIN frame' /\ frame'[Top] = r
  BY <1>4 DEF SetTop
<1> QED
  BY <1>3, <1>5

Unthrown(in) == in.at = Size /\ ~ IsThrow(in.op)

LEMMA EmitsQuietly ==
  ASSUME NEW C, NEW B, NEW V, IInv(C, B, V), status = "compiling", Inv',
         NEW in, Unthrown(in), NEW imm, SetTop(Asm(frame[Top], in, imm))
  PROVE  FillsQuietly
<1>1. PICK r, s : r = frame[Top] /\ s = Asm(r, in, imm)
  OBVIOUS
<1>2. s \in KijiFrame /\ r \in KijiFrame /\ SetTop(s) /\ WellFormed(s)
  BY <1>1, TopThen, TopFormed
<1>3. Appends(r, s, in)
  BY <1>1, <1>2, AsmAppends
<1>4. /\ DOMAIN r.code = 1..Len(r.code) /\ Len(r.code) \in Nat /\ DOMAIN s.code = 1..Len(s.code)
      /\ r.bytecode_size \in Nat /\ s.bytecode_size \in Nat
  BY <1>2, FrameFields
<1>5. Len(s.code) \in DOMAIN s.code /\ DOMAIN r.code \subseteq DOMAIN s.code
      /\ \A k \in DOMAIN s.code : k \notin DOMAIN r.code => k = Len(s.code)
  BY <1>3, <1>4 DEF Appends
<1>6. in.at < s.bytecode_size
  BY <1>2, <1>3, <1>5 DEF Appends, WellFormed, Ordered, Within
<1>7. r.bytecode_size <= s.bytecode_size
  BY <1>1, <1>4, <1>6 DEF Unthrown, Size
<1>8. Quietly(r, s)
  BY <1>3, <1>5, <1>7 DEF Quietly, Appends, Unthrown
<1> QED
  BY <1>1, <1>2, <1>8 DEF FillsQuietly

LEMMA NoThrow ==
  ASSUME NEW op, op \in {"getlex", "bindlex", "getcode", "goto", "param_op_o", "wval", "prepargs"}
                 \/ IsBranch(op)
  PROVE  ~ IsThrow(op)
BY DEF IsBranch, IsThrow

LEMMA PushLocalTurns ==
  ASSUME NEW C, NEW B, NEW V, IInv(C, B, V), LoopsInv, Inv', PushLocal
  PROVE  LoopsInv'
<1>1. status = "compiling" /\ Act.todo # <<>> /\ Op.op = "reg"
  BY DEF PushLocal, Does
<1>2. CASE Stop("abort")
  BY <1>2, StoppedTurns DEF Stop
<1>3. CASE ~ Stop("abort")
  <2>1. PICK x, r : /\ x = Len(frame[Top].locals)
                    /\ r = [frame[Top] EXCEPT !.locals = Append(@, Op.type)]
    OBVIOUS
  <2>2. /\ SetTop(r) /\ ContinueSet(Op.dst, x)
        /\ frames' = frames /\ calls' = calls
    BY <1>3, <2>1 DEF PushLocal, Proceed
  <2>3. frame[Top] \in KijiFrame
    BY <1>1, ActsSome
  <2>4. SameBytes(frame[Top], r)
    BY <2>1, <2>3 DEF KijiFrame, SameBytes
  <2>5. FillsQuietly
    BY <1>1, <2>2, <2>4, FrameQuietly
  <2>6. IsSteady(Op) /\ Op.dst # "start_offset"
    BY <1>1, FreeVariable DEF IsSteady, IsCalm
  <2> QED
    BY <1>1, <2>2, <2>5, <2>6, SetTurnsOn
<1> QED
  BY <1>2, <1>3

LEMMA PushLexicalTurns ==
  ASSUME NEW C, NEW B, NEW V, IInv(C, B, V), LoopsInv, Inv', PushLexical
  PROVE  LoopsInv'
<1>1. PICK x, r : /\ x = Len(frame[Top].lexicals)
                  /\ r = [frame[Top] EXCEPT !.lexicals = Append(@, Op.name)]
  OBVIOUS
<1>2. /\ status = "compiling" /\ Act.todo # <<>> /\ Op.op = "lexical"
      /\ SetTop(r) /\ ContinueSet(Op.dst, x)
      /\ frames' = frames /\ calls' = calls
  BY <1>1 DEF PushLexical, Does, Proceed
<1>3. frame[Top] \in KijiFrame
  BY <1>2, ActsSome
<1>4. SameBytes(frame[Top], r)
  BY <1>1, <1>3 DEF KijiFrame, SameBytes
<1>5. FillsQuietly
  BY <1>2, <1>4, FrameQuietly
<1>6. IsSteady(Op) /\ Op.dst # "start_offset"
  BY <1>2, FreeVariable DEF IsSteady, IsCalm
<1> QED
  BY <1>2, <1>5, <1>6, SetTurnsOn

LEMMA PushPackageVariableTurns ==
  ASSUME NEW C, NEW B, NEW V, IInv(C, B, V), LoopsInv, Inv', PushPackageVariable
  PROVE  LoopsInv'
<1>1. PICK r : r = [frame[Top] EXCEPT !.package_variables = @ \cup {Op.name}]
  OBVIOUS
<1>2. /\ status = "compiling" /\ Act.todo # <<>> /\ Op.op = "pkgvar"
      /\ SetTop(r) /\ Continue /\ frames' = frames /\ calls' = calls
  BY <1>1 DEF PushPackageVariable, Does, Proceed
<1>3. frame[Top] \in KijiFrame
  BY <1>2, ActsSome
<1>4. SameBytes(frame[Top], r)
  BY <1>1, <1>3 DEF KijiFrame, SameBytes
<1>5. FillsQuietly
  BY <1>2, <1>4, FrameQuietly
<1>6. IsSteady(Op)
  BY <1>2 DEF IsSteady, IsCalm
<1> QED
  BY <1>2, <1>5, <1>6, RestTurnsOn

LEMMA PatchCodeTurns ==
  ASSUME NEW C, NEW B, NEW V, IInv(C, B, V), LoopsInv, Inv', PatchCode
  PROVE  LoopsInv'
<1>1. PICK slots, val : slots = {loc["func_pos"]} /\ val = FrameOperand(loc[Op.frame])
  OBVIOUS
<1>2. /\ status = "compiling" /\ Act.todo # <<>> /\ Op.op = "patchcode"
      /\ Continue /\ frames' = frames /\ calls' = calls
      /\ SetTop([frame[Top] EXCEPT !.code = Patch(@, slots, val)])
  BY <1>1 DEF PatchCode, Does, Proceed
<1>3. FillsQuietly
  BY <1>2, PatchesQuietly
<1>4. IsSteady(Op)
  BY <1>2 DEF IsSteady, IsCalm
<1> QED
  BY <1>2, <1>3, <1>4, RestTurnsOn

LEMMA PutLabelTurns ==
  ASSUME NEW C, NEW B, NEW V, IInv(C, B, V), LoopsInv, Inv', PutLabel
  PROVE  LoopsInv'
<1>1. status = "compiling" /\ Act.todo # <<>> /\ Op.op = "put"
  BY DEF PutLabel, Does
<1>2. CASE Stop("assert")
  BY <1>2, StoppedTurns DEF Stop
<1>3. CASE ~ Stop("assert")
  <2>1. PICK slots, lb : /\ slots = Label(Op.label).reserved
                         /\ lb = Assign(lab, Op.label, [address |-> Size, reserved |-> {}])
    OBVIOUS
  <2>2. /\ SetTop([frame[Top] EXCEPT !.code = Patch(@, slots, Size)])
        /\ Resume(Tail(Act.todo), loc, lb)
        /\ frames' = frames /\ calls' = calls
    BY <1>3, <2>1 DEF PutLabel, Proceed
  <2>3. FillsQuietly
    BY <1>1, <2>2, PatchesQuietly
  <2>4. IsSteady(Op)
    BY <1>1 DEF IsSteady, IsCalm
  <2> QED
    BY <1>1, <2>2, <2>3, <2>4, LabelTurnsOn
<1> QED
  BY <1>2, <1>3

LEMMA AccessLexicalTurns ==
  ASSUME NEW C, NEW B, NEW V, IInv(C, B, V), LoopsInv, Inv', AccessLexical
  PROVE  LoopsInv'
<1>1. PICK op, rs, target, extra :
        /\ op = Op.instr /\ rs = Registers(<<Op.reg>>) /\ target = U16(loc[Op.lex])
        /\ extra = U16(loc[Op.outer])
  OBVIOUS
<1>2. PICK in : in = [Emitted(op, rs) EXCEPT !.target = target, !.extra = extra]
  OBVIOUS
<1>3. /\ status = "compiling" /\ Act.todo # <<>> /\ Op.op = "access" /\ Continue
      /\ SetTop(Asm(frame[Top], in, 4)) /\ frames' = frames /\ calls' = calls
  BY <1>1, <1>2 DEF AccessLexical, Does, Proceed
<1>4. op \in {"getlex", "bindlex"}
  BY <1>1, <1>3, Discipline, Zenon DEF Constrained
<1>5. in = Made(op, rs, 0, target, extra, NoName, Act.id)
  BY <1>2, EmittedOperands, Zenon
<1>6. Unthrown(in)
  BY <1>4, <1>5, NoThrow DEF Made, Unthrown
<1>7. IsSteady(Op)
  BY <1>3 DEF IsSteady, IsCalm
<1>8. FillsQuietly
  BY <1>3, <1>6, EmitsQuietly
<1> QED
  BY <1>3, <1>7, <1>8, RestTurnsOn

LEMMA GetCodeTurns ==
  ASSUME NEW C, NEW B, NEW V, IInv(C, B, V), LoopsInv, Inv', GetCode
  PROVE  LoopsInv'
<1>1. PICK rs, slot, target :
        /\ rs = Registers(<<Op.dst>>) /\ slot = Size + 4
        /\ target = FrameOperand(IF Op.frame = "0" THEN 1 ELSE loc[Op.frame])
  OBVIOUS
<1>2. PICK in : in = [Emitted("getcode", rs) EXCEPT !.slot = slot, !.target = target]
  OBVIOUS
<1>3. /\ status = "compiling" /\ Act.todo # <<>> /\ Op.op = "getcode"
      /\ ContinueSet("func_pos", Size + 2 + 2)
      /\ SetTop(Asm(frame[Top], in, 2)) /\ frames' = frames /\ calls' = calls
  BY <1>1, <1>2 DEF GetCode, Does, Proceed
<1>4. in = Made("getcode", rs, slot, target, 0, NoName, Act.id)
  BY <1>2, EmittedJump, Zenon
<1>5. Unthrown(in)
  BY <1>4, NoThrow DEF Made, Unthrown
<1>6. IsSteady(Op)
  BY <1>3 DEF IsSteady, IsCalm
<1>7. FillsQuietly
  BY <1>3, <1>5, EmitsQuietly
<1> QED
  BY <1>3, <1>6, <1>7, SetTurnsOn

LEMMA GotoTurns ==
  ASSUME NEW C, NEW B, NEW V, IInv(C, B, V), LoopsInv, Inv', Goto
  PROVE  LoopsInv'
<1>1. PICK slot, target, lb : /\ slot = Size + 2 /\ target = Label(Op.label).address
                              /\ lb = Reserve(Op.label, slot)
  OBVIOUS
<1>2. PICK in : in = [Emitted("goto", <<>>) EXCEPT !.slot = slot, !.target = target]
  OBVIOUS
<1>3. /\ status = "compiling" /\ Act.todo # <<>> /\ Op.op = "goto" /\ Resume(Tail(Act.todo), loc, lb)
      /\ SetTop(Asm(frame[Top], in, 4)) /\ frames' = frames /\ calls' = calls
  BY <1>1, <1>2 DEF Goto, Does, Proceed
<1>4. in = Made("goto", <<>>, slot, target, 0, NoName, Act.id)
  BY <1>2, EmittedJump, Zenon
<1>5. Unthrown(in)
  BY <1>4, NoThrow DEF Made, Unthrown
<1>6. IsSteady(Op)
  BY <1>3 DEF IsSteady, IsCalm
<1>7. FillsQuietly
  BY <1>3, <1>5, EmitsQuietly
<1> QED
  BY <1>3, <1>6, <1>7, LabelTurnsOn

LEMMA BranchTurns ==
  ASSUME NEW C, NEW B, NEW V, IInv(C, B, V), LoopsInv, Inv', Branch
  PROVE  LoopsInv'
<1>1. PICK op, rs, slot, target, lb :
        /\ op = Op.name /\ rs = Registers(<<Op.on>>) /\ slot = Size + 2 + 2
        /\ target = U16(Label(Op.label).address) /\ lb = Reserve(Op.label, slot)
  OBVIOUS
<1>2. PICK in : in = [Emitted(op, rs) EXCEPT !.slot = slot, !.target = target]
  OBVIOUS
<1>3. status = "compiling" /\ Act.todo # <<>> /\ Op.op = "branch"
  BY DEF Branch, Does
<1>4. CASE Stop("assert")
  BY <1>4, StoppedTurns DEF Stop
<1>5. CASE ~ Stop("assert")
  <2>1. /\ Resume(Tail(Act.todo), loc, lb) /\ SetTop(Asm(frame[Top], in, 4))
        /\ frames' = frames /\ calls' = calls
    BY <1>1, <1>2, <1>5 DEF Branch, Proceed
  <2>2. in = Made(op, rs, slot, target, 0, NoName, Act.id)
    BY <1>2, EmittedJump, Zenon
  <2>3. IsBranch(op)
    BY <1>1, <1>3, Discipline, Zenon DEF Constrained
  <2>4. Unthrown(in)
    BY <2>2, <2>3, NoThrow DEF Made, Unthrown
  <2>5. IsSteady(Op)
    BY <1>3 DEF IsSteady, IsCalm
  <2>6. FillsQuietly
    BY <1>3, <2>1, <2>4, EmitsQuietly
  <2> QED
    BY <1>3, <2>1, <2>5, <2>6, LabelTurnsOn
<1> QED
  BY <1>4, <1>5

LEMMA ParamOptionalTurns ==
  ASSUME NEW C, NEW B, NEW V, IInv(C, B, V), LoopsInv, Inv', ParamOptional
  PROVE  LoopsInv'
<1>1. PICK rs, slot, extra, lb :
        /\ rs = Registers(<<Op.on>>) /\ slot = Size + 1 + 1 + 2 + 2
        /\ extra = Op.index /\ lb = Reserve(Op.label, slot)
  OBVIOUS
<1>2. PICK in : in = [Emitted("param_op_o", rs) EXCEPT !.slot = slot, !.extra = extra]
  OBVIOUS
<1>3. /\ status = "compiling" /\ Act.todo # <<>> /\ Op.op = "paramop"
      /\ Resume(Tail(Act.todo), loc, lb)
      /\ SetTop(Asm(frame[Top], in, 6)) /\ frames' = frames /\ calls' = calls
  BY <1>1, <1>2 DEF ParamOptional, Does, Proceed
<1>4. in = Made("param_op_o", rs, slot, 0, extra, NoName, Act.id)
  BY <1>2, EmittedParam, Zenon
<1>5. Unthrown(in)
  BY <1>4, NoThrow DEF Made, Unthrown
<1>6. IsSteady(Op)
  BY <1>3 DEF IsSteady, IsCalm
<1>7. FillsQuietly
  BY <1>3, <1>5, EmitsQuietly
<1> QED
  BY <1>3, <1>6, <1>7, LabelTurnsOn

LEMMA WvalTurns ==
  ASSUME NEW C, NEW B, NEW V, IInv(C, B, V), LoopsInv, Inv', Wval
  PROVE  LoopsInv'
<1>1. PICK rs, target : rs = Registers(<<Op.dst>>) /\ target = loc[Op.sc]
  OBVIOUS
<1>2. PICK in : in = [Emitted("wval", rs) EXCEPT !.target = target]
  OBVIOUS
<1>3. /\ status = "compiling" /\ Act.todo # <<>> /\ Op.op = "wval" /\ Continue
      /\ SetTop(Asm(frame[Top], in, 4)) /\ frames' = frames /\ calls' = calls
  BY <1>1, <1>2 DEF Wval, Does, Proceed
<1>4. in = Made("wval", rs, 0, target, 0, NoName, Act.id)
  BY <1>2, EmittedTarget, Zenon
<1>5. Unthrown(in)
  BY <1>4, NoThrow DEF Made, Unthrown
<1>6. IsSteady(Op)
  BY <1>3 DEF IsSteady, IsCalm
<1>7. FillsQuietly
  BY <1>3, <1>5, EmitsQuietly
<1> QED
  BY <1>3, <1>6, <1>7, RestTurnsOn

(* What the discipline says of the turn of the activation that runs.           *)
LEMMA TurnNow ==
  ASSUME NEW C, NEW B, NEW V, IInv(C, B, V), status = "compiling", LoopsInv, Act.todo # <<>>
  PROVE  \E c : Allowed(Op, c)
<1>1. PICK l, top, K, Q, D, W, fr, fs, ac, n : InProgress(l, top, K, Q, D, W, fr, fs, ac, n)
  BY LoopsNow
<1>2. /\ W[l] \in DOMAIN Turns /\ <<ac[l].todo, Turn(D[l], K[l].loop)>> \in Turns[W[l]]
      /\ ac[l].todo = Act.todo
  BY <1>1 DEF InProgress, Topmost
<1>3. Allowed(ac[l].todo[1], Turn(D[l], K[l].loop))
  BY <1>2, Judges
<1> QED
  BY <1>2, <1>3 DEF Op

LEMMA PrepArgsTurns ==
  ASSUME NEW C, NEW B, NEW V, IInv(C, B, V), LoopsInv, Inv', PrepArgs
  PROVE  LoopsInv'
<1>1. PICK target : target = U16(LET flags == Flags(Op.args)
                                     fresh == SameCallsite(flags) = {}
                                 IN IF fresh THEN Len(cu.callsites)
                                    ELSE SetMin(SameCallsite(flags)) - 1)
  OBVIOUS
<1>2. PICK in : in = [Emitted("prepargs", <<>>) EXCEPT !.target = target]
  OBVIOUS
<1>3. /\ status = "compiling" /\ Act.todo # <<>> /\ Op.op = "prepargs" /\ Continue
      /\ SetTop(Asm(frame[Top], in, 2)) /\ frames' = frames /\ calls' = calls
  BY <1>1, <1>2 DEF PrepArgs, Does
<1>4. in = Made("prepargs", <<>>, 0, target, 0, NoName, Act.id)
  BY <1>2, EmittedTarget, Zenon
<1>5. Unthrown(in)
  BY <1>4, NoThrow DEF Made, Unthrown
<1>6. IsSteady(Op)
  BY <1>3 DEF IsSteady, IsCalm
<1>7. FillsQuietly
  BY <1>3, <1>5, EmitsQuietly
<1> QED
  BY <1>3, <1>6, <1>7, RestTurnsOn

LEMMA EmitTurns ==
  ASSUME NEW C, NEW B, NEW V, IInv(C, B, V), LoopsInv, Inv', Emit
  PROVE  LoopsInv'
<1>1. PICK op, rs, target, extra, str, imm :
        /\ op = Op.name /\ rs = Registers(Op.args) /\ target = Op.val /\ extra = Op.extra
        /\ str = Op.str /\ imm = Op.imm
  OBVIOUS
<1>2. PICK in : in = [Emitted(op, rs) EXCEPT !.target = target, !.extra = extra, !.str = str]
  OBVIOUS
<1>3. /\ status = "compiling" /\ Act.todo # <<>> /\ Op.op = "emit" /\ Continue
      /\ SetTop(Asm(frame[Top], in, imm)) /\ frames' = frames /\ calls' = calls
  BY <1>1, <1>2 DEF Emit, Does, Proceed
<1>4. in = Made(op, rs, 0, target, extra, str, Act.id)
  BY <1>2, EmittedValues, Zenon
<1>5. ~ IsThrow(op)
  <2>1. PICK c : Allowed(Op, c)
    BY <1>3, TurnNow
  <2> QED
    BY <1>1, <1>3, <2>1 DEF Allowed
<1>6. Unthrown(in)
  BY <1>4, <1>5 DEF Made, Unthrown
<1>7. IsSteady(Op)
  BY <1>3 DEF IsSteady, IsCalm
<1>8. FillsQuietly
  BY <1>3, <1>6, EmitsQuietly
<1> QED
  BY <1>3, <1>7, <1>8, RestTurnsOn
-----------------------------------------------------------------------------
(* The actions that enter a loop, leave it, or throw.                          *)

LEMMA FromProgress ==
  ASSUME NEW l, NEW top, NEW K, NEW Q, NEW D, NEW W, NEW fr, NEW fs, NEW ac, NEW n,
         InProgress(l, top, K, Q, D, W, fr, fs, ac, n)
  PROVE  /\ fr = frame /\ fs = frames /\ ac = acts /\ n = calls
         /\ Looped(K, Q, D, W, fr, fs, ac, n) /\ Machine(fr, fs, ac) /\ ac # <<>>
         /\ l = Len(ac) /\ top = fs[Len(fs)] /\ Top = top /\ frame[Top] = fr[top]
         /\ Act = ac[l] /\ loc = ac[l].loc /\ IsAct(ac[l])
         /\ l \in Nat /\ DOMAIN ac = 1..l /\ l \in DOMAIN ac /\ DOMAIN K = DOMAIN ac
         /\ n \in Nat /\ IsSeated(K, n) /\ K[l].id = ac[l].id /\ StartIs(ac[l], K[l])
         /\ Len(fs) \in Nat /\ DOMAIN fs = 1..Len(fs) /\ D[l] \in Nat /\ Q[l] \in 1..Len(fs)
         /\ Q[l] + D[l] = Len(fs) /\ K[l].home = fs[Q[l]]
         /\ top \in DOMAIN fr /\ fr[top] \in KijiFrame
         /\ W[l] \in DOMAIN Turns /\ <<ac[l].todo, Turn(D[l], K[l].loop)>> \in Turns[W[l]]
         /\ \A f \in DOMAIN fr : Governed(K, n, f, fr[f])
<1>1. Looped(K, Q, D, W, fr, fs, ac, n) /\ Topmost(l, top, K, Q, D, W, fr, fs, ac)
  BY Zenon DEF InProgress
<1>2. DOMAIN K = DOMAIN ac
  BY <1>1, Zenon DEF Looped, Seated
<1> QED
  BY <1>1, <1>2, Zenon DEF InProgress, Topmost

LEMMA TurnAllows ==
  ASSUME NEW l, NEW top, NEW K, NEW Q, NEW D, NEW W, NEW fr, NEW fs, NEW ac, NEW n,
         InProgress(l, top, K, Q, D, W, fr, fs, ac, n), Act.todo # <<>>
  PROVE  /\ Allowed(Op, Turn(D[l], K[l].loop))
         /\ \A t \in Ways(Act.todo) : <<t, Turned(Op, Turn(D[l], K[l].loop))>> \in Turns[W[l]]
         /\ Op.op = "child" => /\ Op.node \in DOMAIN Turns
                               /\ <<Script(Op.node), Turn(0, "none")>> \in Turns[Op.node]
<1>1. PICK c, todo : c = Turn(D[l], K[l].loop) /\ todo = Act.todo
  OBVIOUS
<1>2. W[l] \in DOMAIN Turns /\ <<todo, c>> \in Turns[W[l]]
  BY <1>1, FromProgress
<1> QED
  BY <1>1, <1>2, Judges DEF Op

LEMMA HomeIsTop ==
  ASSUME NEW l, NEW top, NEW K, NEW Q, NEW D, NEW W, NEW fr, NEW fs, NEW ac, NEW n,
         InProgress(l, top, K, Q, D, W, fr, fs, ac, n), D[l] = 0
  PROVE  K[l].home = top
<1>1. /\ Q[l] + D[l] = Len(fs) /\ Q[l] \in 1..Len(fs) /\ Len(fs) \in Nat
      /\ top = fs[Len(fs)] /\ K[l].home = fs[Q[l]]
  BY DEF InProgress, Topmost
<1>2. Q[l] = Len(fs)
  BY <1>1
<1> QED
  BY <1>1, <1>2

LEMMA LoopEnterTurns ==
  ASSUME NEW C, NEW B, NEW V, IInv(C, B, V), LoopsInv, LoopEnter
  PROVE  LoopsInv'
<1>1. PICK t, x, lc : t = Tail(Act.todo) /\ x = Size - 1 /\ lc = Assign(loc, "start_offset", x)
  OBVIOUS
<1>2. /\ status = "compiling" /\ Act.todo # <<>> /\ Op.op = "enter" /\ Resume(t, lc, lab)
      /\ frame' = frame /\ frames' = frames /\ calls' = calls
  BY <1>1 DEF LoopEnter, Does, Proceed, ContinueSet
<1>3. PICK l, top, K, Q, D, W, fr, fs, ac, n : InProgress(l, top, K, Q, D, W, fr, fs, ac, n)
  BY <1>2, LoopsNow
<1>4. /\ fr = frame /\ fs = frames /\ ac = acts /\ n = calls
      /\ Looped(K, Q, D, W, fr, fs, ac, n) /\ Machine(fr, fs, ac) /\ ac # <<>>
      /\ l = Len(ac) /\ top = fs[Len(fs)] /\ Top = top /\ frame[Top] = fr[top]
      /\ Act = ac[l] /\ loc = ac[l].loc /\ IsAct(ac[l])
      /\ l \in Nat /\ DOMAIN ac = 1..l /\ l \in DOMAIN ac /\ DOMAIN K = DOMAIN ac
      /\ n \in Nat /\ IsSeated(K, n) /\ K[l].id = ac[l].id
      /\ top \in DOMAIN fr /\ fr[top] \in KijiFrame /\ W[l] \in DOMAIN Turns
      /\ \A f \in DOMAIN fr : Governed(K, n, f, fr[f])
  BY <1>3, FromProgress, ZenonT(30)
<1>5. D[l] = 0 /\ K[l].loop = "none"
  <2>1. Allowed(Op, Turn(D[l], K[l].loop))
    BY <1>2, <1>3, TurnAllows
  <2> QED
    BY <1>2, <2>1 DEF Allowed, Turn
<1>6. K[l].home = top
  BY <1>3, <1>5, HomeIsTop
<1>7. <<t, Turn(0, "in")>> \in Turns[W[l]]
  <2>1. t \in Ways(Act.todo)
    <3>1. PICK todo : todo = Act.todo /\ todo[1] = Op
      BY DEF Op
    <3> QED
      BY <1>1, <1>2, <3>1, TheRest
  <2>2. <<t, Turned(Op, Turn(0, "none"))>> \in Turns[W[l]]
    BY <1>2, <1>3, <1>5, <2>1, TurnAllows
  <2>3. Turned(Op, Turn(0, "none")) = Turn(0, "in")
    BY <1>2 DEF Turned, Turn
  <2> QED
    BY <2>2, <2>3
<1>8. PICK J : J = [K EXCEPT ![l] = Seat(K[l].id, top, "in", x)]
  OBVIOUS
<1>9. /\ DOMAIN J = DOMAIN K /\ \A i \in DOMAIN K : i # l => J[i] = K[i]
      /\ J[l].id = K[l].id /\ J[l].home = K[l].home /\ J[l].loop = "in" /\ J[l].start = x
  BY <1>4, <1>6, <1>8 DEF Seat
<1>10. Turning(K, J, l, "none", "in")
  BY <1>4, <1>5, <1>9 DEF Turning
<1>11. x = fr[top].bytecode_size - 1 /\ x \in Int
  BY <1>1, <1>4, FrameFields DEF Size
<1>12. Governed(J, n, top, fr[top])
  BY <1>4, <1>9, <1>10, <1>11, EnterGoverned
<1>13. ASSUME NEW f \in DOMAIN fr, f # top
       PROVE  Governed(J, n, f, fr[f])
  <2>1. Governed(K, n, f, fr[f]) /\ f # K[l].home
    BY <1>4, <1>6, <1>13
  <2> QED
    BY <1>4, <1>10, <2>1, ElsewhereGoverned
<1>14. PICK a : a = Resumed(ac[l], t, lc, lab)
  OBVIOUS
<1>15. a.todo = t /\ a.loc = lc /\ a.id = ac[l].id
  BY <1>4, <1>14, ActFields
<1>16. StartIs(a, J[l])
  BY <1>1, <1>9, <1>15 DEF StartIs, HasStart, Assign
<1>17. Goes(W[l], D[l], K[l], ac[l], J[l], a)
  BY <1>5, <1>7, <1>9, <1>11, <1>15, <1>16 DEF Goes
<1>18. Looped(J, Q, D, W, [fr EXCEPT ![top] = fr[top]], fs, [ac EXCEPT ![l] = a], n)
  <2>1. Machine(fr, fs, ac) /\ ac # <<>> /\ Looped(K, Q, D, W, fr, fs, ac, n)
    BY <1>4, Zenon
  <2>2. l = Len(ac) /\ top = fs[Len(fs)] /\ DOMAIN J = DOMAIN K
        /\ \A i \in DOMAIN K : i # l => J[i] = K[i]
    BY <1>4, <1>9, Zenon
  <2> QED
    BY <1>12, <1>13, <1>17, <2>1, <2>2, TopGoesOn
<1>19. [fr EXCEPT ![top] = fr[top]] = fr
  BY <1>4 DEF Machine, IsSeq
<1>20. /\ frame' = fr /\ frames' = fs /\ acts' = [ac EXCEPT ![l] = a] /\ calls' = n
  BY <1>2, <1>4, <1>14 DEF Resume, Resumed
<1> QED
  BY <1>18, <1>19, <1>20 DEF LoopsInv

(* Frame s is r with the three handlers of a loop.                            *)
LEMMA ThreeClose ==
  ASSUME NEW r \in KijiFrame, NEW a, NEW b, NEW c, NEW s, s = WithHandlers(r, a, b, c),
         NEW start, NEW end, NEW by,
         a.category = "last" /\ b.category = "next" /\ c.category = "redo",
         \A h \in {a, b, c} : h.start_offset = start /\ h.end_offset = end /\ h.by = by
  PROVE  /\ s.code = r.code /\ s.bytecode_size = r.bytecode_size
         /\ Closing(r.handlers, s.handlers, start, end, by)
<1>1. PICK hs, gs, m : hs = r.handlers /\ gs = hs \o <<a, b, c>> /\ m = Len(hs)
  OBVIOUS
<1>2. s.code = r.code /\ s.bytecode_size = r.bytecode_size /\ s.handlers = gs
  BY <1>1 DEF WithHandlers, KijiFrame
<1>3. m \in Nat /\ DOMAIN hs = 1..m /\ hs \in Seq(FrameHandler)
  BY <1>1, FrameFields
<1>4. /\ Len(gs) = m + 3 /\ DOMAIN gs = 1..(m + 3) /\ \A k \in 1..m : gs[k] = hs[k]
      /\ gs[m + 1] = a /\ gs[m + 2] = b /\ gs[m + 3] = c
  <2>1. hs \in Seq(FrameHandler \cup {a, b, c}) /\ <<a, b, c>> \in Seq(FrameHandler \cup {a, b, c})
    BY <1>3
  <2>2. Len(<<a, b, c>>) = 3
    OBVIOUS
  <2>3. /\ gs \in Seq(FrameHandler \cup {a, b, c}) /\ Len(gs) = m + 3
        /\ \A k \in 1..m : gs[k] = hs[k]
        /\ \A k \in (m + 1)..(m + 3) : gs[k] = <<a, b, c>>[k - m]
    BY <1>1, <2>1, <2>2, ConcatProperties
  <2>4. DOMAIN gs = 1..(m + 3)
    BY <2>3, LenProperties
  <2>5. gs[m + 1] = <<a, b, c>>[1] /\ gs[m + 2] = <<a, b, c>>[2] /\ gs[m + 3] = <<a, b, c>>[3]
    <3>1. m + 1 \in (m + 1)..(m + 3) /\ m + 2 \in (m + 1)..(m + 3) /\ m + 3 \in (m + 1)..(m + 3)
      BY <1>3
    <3>2. (m + 1) - m = 1 /\ (m + 2) - m = 2 /\ (m + 3) - m = 3
      BY <1>3
    <3> QED
      BY <2>3, <3>1, <3>2, Zenon
  <2> QED
    BY <2>3, <2>4, <2>5
<1>5. ASSUME NEW k \in DOMAIN gs, k \notin DOMAIN hs
      PROVE  k \in {m + 1, m + 2, m + 3} /\ gs[k] \in {a, b, c}
  BY <1>3, <1>4, <1>5
<1>6. ASSUME NEW op, IsThrow(op)
      PROVE  \E k \in DOMAIN gs : /\ k \notin DOMAIN hs /\ gs[k].category = op
                                  /\ \A j \in DOMAIN gs : j \notin DOMAIN hs /\ gs[j].category = op => k <= j
  <2>1. PICK k \in {m + 1, m + 2, m + 3} : gs[k].category = op
    BY <1>4, <1>6 DEF IsThrow
  <2>2. k \in DOMAIN gs /\ k \notin DOMAIN hs
    BY <1>3, <1>4
  <2>3. ASSUME NEW j \in {m + 1, m + 2, m + 3}, gs[j].category = op
        PROVE  j = k
    BY <1>4, <2>1, <2>3
  <2>4. \A j \in DOMAIN gs : j \notin DOMAIN hs /\ gs[j].category = op => k <= j
    BY <1>3, <1>5, <2>3
  <2> QED
    BY <2>1, <2>2, <2>4
<1>7. \A k \in DOMAIN gs : k \notin DOMAIN hs =>
        gs[k].start_offset = start /\ gs[k].end_offset = end /\ gs[k].by = by
  BY <1>5
<1>8. /\ Len(hs) \in Nat /\ DOMAIN hs = 1..Len(hs) /\ Len(gs) \in Nat /\ DOMAIN gs = 1..Len(gs)
      /\ Len(hs) <= Len(gs) /\ \A k \in DOMAIN hs : gs[k] = hs[k]
  BY <1>1, <1>3, <1>4
<1>9. Closing(hs, gs, start, end, by)
  BY <1>6, <1>7, <1>8, Zenon DEF Closing
<1> QED
  BY <1>1, <1>2, <1>9

LEMMA LoopLeaveTurns ==
  ASSUME NEW C, NEW B, NEW V, IInv(C, B, V), LoopsInv, Inv', LoopLeave
  PROVE  LoopsInv'
<1>1. PICK t, start, id : t = Tail(Act.todo) /\ start = loc["start_offset"] /\ id = Act.id
  OBVIOUS
<1>2. /\ status = "compiling" /\ Act.todo # <<>> /\ Op.op = "leave" /\ Resume(t, loc, lab)
      /\ frames' = frames /\ calls' = calls
  BY <1>1 DEF LoopLeave, Does, Proceed, Continue
<1>3. PICK l, top, K, Q, D, W, fr, fs, ac, n : InProgress(l, top, K, Q, D, W, fr, fs, ac, n)
  BY <1>2, LoopsNow
<1>4. /\ fr = frame /\ fs = frames /\ ac = acts /\ n = calls
      /\ Looped(K, Q, D, W, fr, fs, ac, n) /\ Machine(fr, fs, ac) /\ ac # <<>>
      /\ l = Len(ac) /\ top = fs[Len(fs)] /\ Top = top /\ frame[Top] = fr[top]
      /\ Act = ac[l] /\ loc = ac[l].loc /\ IsAct(ac[l])
      /\ l \in Nat /\ DOMAIN ac = 1..l /\ l \in DOMAIN ac /\ DOMAIN K = DOMAIN ac
      /\ n \in Nat /\ IsSeated(K, n) /\ K[l].id = ac[l].id /\ StartIs(ac[l], K[l])
      /\ top \in DOMAIN fr /\ fr[top] \in KijiFrame /\ W[l] \in DOMAIN Turns
      /\ \A f \in DOMAIN fr : Governed(K, n, f, fr[f])
  BY <1>3, FromProgress
<1>5. D[l] = 0 /\ K[l].loop = "in"
  <2>1. Allowed(Op, Turn(D[l], K[l].loop))
    BY <1>2, <1>3, TurnAllows
  <2> QED
    BY <1>2, <2>1 DEF Allowed, Turn
<1>6. K[l].home = top /\ K[l].start = start
  BY <1>1, <1>3, <1>4, <1>5, HomeIsTop DEF StartIs
<1>7. <<t, Turn(0, "over")>> \in Turns[W[l]]
  <2>1. t \in Ways(Act.todo)
    <3>1. PICK todo : todo = Act.todo /\ todo[1] = Op
      BY DEF Op
    <3> QED
      BY <1>1, <1>2, <3>1, TheRest
  <2>2. <<t, Turned(Op, Turn(0, "in"))>> \in Turns[W[l]]
    BY <1>2, <1>3, <1>5, <2>1, TurnAllows
  <2>3. Turned(Op, Turn(0, "in")) = Turn(0, "over")
    BY <1>2 DEF Turned, Turn
  <2> QED
    BY <2>2, <2>3
<1>8. PICK J : J = [K EXCEPT ![l] = Seat(K[l].id, top, "over", start)]
  OBVIOUS
<1>9. /\ DOMAIN J = DOMAIN K /\ \A i \in DOMAIN K : i # l => J[i] = K[i]
      /\ J[l].id = K[l].id /\ J[l].home = K[l].home /\ J[l].loop = "over"
  BY <1>4, <1>6, <1>8 DEF Seat
<1>10. Turning(K, J, l, "in", "over")
  BY <1>4, <1>5, <1>9 DEF Turning
<1>11. PICK last, next, end : /\ last = loc["last_offset"] /\ next = loc["next_offset"]
                              /\ end = Size - 1
  OBVIOUS
<1>12. PICK redo : SetTop([frame[Top] EXCEPT !.handlers =
                     @ \o <<Handler("last", last), Handler("next", next), Handler("redo", redo)>>])
  BY <1>11 DEF LoopLeave
<1>13. PICK a, b, e : /\ a = Handler("last", last) /\ b = Handler("next", next)
                      /\ e = Handler("redo", redo)
  OBVIOUS
<1>14. /\ a.category = "last" /\ b.category = "next" /\ e.category = "redo"
       /\ \A h \in {a, b, e} : h.start_offset = start /\ h.end_offset = end /\ h.by = id
  BY <1>1, <1>11, <1>13 DEF Handler
<1>15. PICK r, s : r = frame[Top] /\ s = WithHandlers(r, a, b, e)
  OBVIOUS
<1>16. SetTop(s)
  BY <1>12, <1>13, <1>15 DEF WithHandlers
<1>17. r \in KijiFrame /\ s \in KijiFrame
  BY <1>2, <1>15, <1>16, TopThen
<1>18. /\ s.code = r.code /\ s.bytecode_size = r.bytecode_size
       /\ Closing(r.handlers, s.handlers, start, end, id)
  BY <1>14, <1>15, <1>17, ThreeClose
<1>19. end = r.bytecode_size - 1 /\ id = K[l].id
  BY <1>1, <1>4, <1>11, <1>15 DEF Size
<1>20. Governed(J, n, top, s)
  <2>1. Governed(K, n, top, r) /\ Closing(r.handlers, s.handlers, K[l].start, r.bytecode_size - 1, K[l].id)
    BY <1>4, <1>6, <1>15, <1>18, <1>19
  <2> QED
    BY <1>4, <1>6, <1>10, <1>17, <1>18, <2>1, LeaveGoverned
<1>21. ASSUME NEW f \in DOMAIN fr, f # top
       PROVE  Governed(J, n, f, fr[f])
  <2>1. Governed(K, n, f, fr[f]) /\ f # K[l].home
    BY <1>4, <1>6, <1>21
  <2> QED
    BY <1>4, <1>10, <2>1, ElsewhereGoverned
<1>22. PICK g : g = Resumed(ac[l], t, loc, lab)
  OBVIOUS
<1>23. g.todo = t /\ g.loc = loc /\ g.id = ac[l].id
  BY <1>4, <1>22, ActFields
<1>24. StartIs(g, J[l])
  BY <1>4, <1>5, <1>9, <1>23 DEF StartIs, HasStart
<1>25. Goes(W[l], D[l], K[l], ac[l], J[l], g)
  BY <1>5, <1>7, <1>9, <1>23, <1>24 DEF Goes
<1>26. Looped(J, Q, D, W, [fr EXCEPT ![top] = s], fs, [ac EXCEPT ![l] = g], n)
  <2>1. Machine(fr, fs, ac) /\ ac # <<>> /\ Looped(K, Q, D, W, fr, fs, ac, n)
    BY <1>4, Zenon
  <2>2. l = Len(ac) /\ top = fs[Len(fs)] /\ DOMAIN J = DOMAIN K
        /\ \A i \in DOMAIN K : i # l => J[i] = K[i]
    BY <1>4, <1>9, Zenon
  <2> QED
    BY <1>20, <1>21, <1>25, <2>1, <2>2, TopGoesOn
<1>27. /\ frame' = [fr EXCEPT ![top] = s] /\ frames' = fs
       /\ acts' = [ac EXCEPT ![l] = g] /\ calls' = n
  BY <1>2, <1>4, <1>16, <1>22 DEF Resume, Resumed, SetTop
<1> QED
  BY <1>26, <1>27 DEF LoopsInv

(* No handler that has left its loop is above one that throws: the handlers   *)
(* in a loop are those that have entered one.                               *)
LEMMA InnermostNow ==
  ASSUME NEW l, NEW top, NEW K, NEW Q, NEW D, NEW W, NEW fr, NEW fs, NEW ac, NEW n,
         InProgress(l, top, K, Q, D, W, fr, fs, ac, n), K[l].loop # "over"
  PROVE  Innermost(K, top, InnermostLoop)
<1>1. /\ fs = frames /\ ac = acts /\ Looped(K, Q, D, W, fr, fs, ac, n) /\ Machine(fr, fs, ac)
      /\ l = Len(ac) /\ top = fs[Len(fs)] /\ l \in Nat /\ DOMAIN ac = 1..l /\ IsSeated(K, n)
      /\ Len(fs) \in Nat /\ DOMAIN fs = 1..Len(fs)
  BY Zenon DEF InProgress, Topmost
<1>2. /\ DOMAIN K = DOMAIN ac
      /\ \A i \in DOMAIN ac : D[i] \in Nat /\ Q[i] \in DOMAIN fs /\ K[i].home = fs[Q[i]]
      /\ \A i, j \in DOMAIN ac : i < j => Q[i] + D[i] <= Q[j]
  BY <1>1, Zenon DEF Looped, Seated
<1>3. \A i \in DOMAIN ac : /\ K[i].id = ac[i].id /\ StartIs(ac[i], K[i])
                           /\ K[i].loop = "over" => i = l
  BY <1>1, Zenon DEF Looped, Recorded
<1>4. PICK inside : inside = {i \in DOMAIN ac : HasStart(ac[i])}
  OBVIOUS
<1>5. \A i : i \in inside <=> i \in DOMAIN K /\ K[i].loop = "in"
  BY <1>2, <1>3, <1>4 DEF StartIs
<1>6. InnermostLoop = IF inside = {} THEN 0
                      ELSE ac[CHOOSE i \in inside : \A j \in inside : j <= i].id
  BY <1>1, <1>4 DEF InnermostLoop, HasStart
<1>7. CASE inside = {}
  <2>1. \A i : ~ Open(K, top, i)
    BY <1>5, <1>7 DEF Open
  <2>2. \A i \in DOMAIN K : K[i].id = 0 => K[i].loop \notin {"none", "over"}
    BY <1>1 DEF IsSeated
  <2> QED
    BY <1>6, <1>7, <2>1, <2>2 DEF Innermost
<1>8. CASE inside # {}
  <2>1. inside \subseteq Nat /\ \A i \in inside : i <= l
    BY <1>1, <1>4
  <2>2. \E i \in inside : \A j \in inside : j <= i
    BY <1>1, <1>8, <2>1, MaxNat
  <2>3. PICK m : m = CHOOSE i \in inside : \A j \in inside : j <= i
    OBVIOUS
  <2>4. m \in inside /\ \A j \in inside : j <= m
    BY <2>2, <2>3
  <2>5. InnermostLoop = K[m].id /\ m \in DOMAIN K /\ K[m].loop = "in"
    BY <1>2, <1>3, <1>5, <1>6, <1>8, <2>3, <2>4
  <2>6. CASE K[m].home = top
    <3>1. Open(K, top, m) /\ \A j : Open(K, top, j) => j <= m
      BY <1>5, <2>4, <2>5, <2>6 DEF Open
    <3> QED
      BY <2>5, <3>1 DEF Innermost
  <2>7. CASE K[m].home # top
    <3>1. ASSUME NEW i, Open(K, top, i)
          PROVE  FALSE
      <4>1. i \in inside /\ i # m /\ i <= m /\ fs[Q[i]] = top
        BY <1>2, <1>5, <2>4, <2>7, <3>1 DEF Open
      <4>2. i \in DOMAIN ac /\ m \in DOMAIN ac /\ i < m
        BY <1>1, <1>2, <1>4, <2>5, <4>1
      <4>3. Q[i] = Len(fs)
        <5>1. Q[i] \in 1..Len(fs) /\ Len(fs) \in DOMAIN fs
          BY <1>1, <1>2, <4>2
        <5>2. Q[i] < Len(fs) => fs[Q[i]] < fs[Len(fs)] /\ fs[Q[i]] \in Nat
          BY <1>1, <5>1 DEF Machine
        <5> QED
          BY <1>1, <4>1, <5>1, <5>2
      <4>4. Q[i] + D[i] <= Q[m] /\ D[i] \in Nat /\ Q[m] \in 1..Len(fs)
        BY <1>1, <1>2, <4>2
      <4>5. Q[m] = Len(fs)
        BY <1>1, <4>3, <4>4
      <4> QED
        BY <1>1, <1>2, <2>7, <4>2, <4>5
    <3>2. \A i \in DOMAIN K : K[i].id = K[m].id => K[i].loop \notin {"none", "over"}
      BY <1>1, <2>5 DEF IsSeated
    <3> QED
      BY <2>5, <3>1, <3>2 DEF Innermost
  <2> QED
    BY <2>6, <2>7
<1> QED
  BY <1>7, <1>8

LEMMA ThrowTurns ==
  ASSUME NEW C, NEW B, NEW V, IInv(C, B, V), LoopsInv, Inv', Throw
  PROVE  LoopsInv'
<1>1. PICK t, op, rs, by : /\ t = Tail(Act.todo) /\ op = Op.category
                           /\ rs = Registers(<<Op.dst>>) /\ by = InnermostLoop
  OBVIOUS
<1>2. PICK in : in = [Emitted(op, rs) EXCEPT !.by = by]
  OBVIOUS
<1>3. /\ status = "compiling" /\ Act.todo # <<>> /\ Op.op = "throw" /\ Resume(t, loc, lab)
      /\ SetTop(Asm(frame[Top], in, 8)) /\ frames' = frames /\ calls' = calls
  BY <1>1, <1>2 DEF Throw, Does, Proceed, Continue
<1>4. in = Made(op, rs, 0, 0, 0, NoName, by)
  BY <1>2, EmittedBy, Zenon
<1>5. in.at = Size /\ in.args = rs /\ in.by = by
  BY <1>4 DEF Made
<1>6. Len(rs) \in Nat
  <2>1. PICK args : args = <<Op.dst>>
    OBVIOUS
  <2>2. IsThrow(op) /\ Holds(C[N], Op.dst, "obj")
    BY <1>1, <1>3, Discipline, Zenon DEF Constrained
  <2>3. IsRegisterOf(C[N], Op.dst) /\ C[N].kinds[Op.dst].type = "obj"
    BY <2>2, HeldRegister
  <2>4. AreRegisters(C[N], args) /\ TypesOf(C[N], args) = <<"obj">>
    BY <2>1, <2>3, OneRegister
  <2>5. <<"obj">> \in Operands(op)
    BY <2>2, TheirOperands DEF IsThrow
  <2>6. TypesOf(C[N], args) \in Operands(op)
    BY <2>4, <2>5
  <2>7. Len(Registers(args)) = Len(args) /\ Len(args) \in Nat
    BY <1>3, <2>4, <2>6, RegistersFit
  <2> QED
    BY <1>1, <2>1, <2>7
<1>7. PICK l, top, K, Q, D, W, fr, fs, ac, n : InProgress(l, top, K, Q, D, W, fr, fs, ac, n)
  BY <1>3, LoopsNow
<1>8. /\ fr = frame /\ fs = frames /\ ac = acts /\ n = calls
      /\ Looped(K, Q, D, W, fr, fs, ac, n) /\ Machine(fr, fs, ac) /\ ac # <<>>
      /\ l = Len(ac) /\ top = fs[Len(fs)] /\ Top = top /\ frame[Top] = fr[top]
      /\ Act = ac[l] /\ loc = ac[l].loc /\ IsAct(ac[l])
      /\ n \in Nat /\ IsSeated(K, n) /\ K[l].id = ac[l].id /\ StartIs(ac[l], K[l]) /\ l \in DOMAIN K
      /\ top \in DOMAIN fr /\ W[l] \in DOMAIN Turns
      /\ <<ac[l].todo, Turn(D[l], K[l].loop)>> \in Turns[W[l]]
      /\ \A f \in DOMAIN fr : Governed(K, n, f, fr[f])
  BY <1>7, Zenon DEF InProgress, Topmost
<1>9. K[l].loop # "over"
  <2>1. Allowed(Op, Turn(D[l], K[l].loop))
    BY <1>3, <1>7, TurnAllows
  <2> QED
    BY <1>3, <2>1 DEF Allowed, Turn
<1>10. Innermost(K, top, in.by)
  BY <1>1, <1>5, <1>7, <1>9, InnermostNow
<1>11. PICK r, s : r = frame[Top] /\ s = Asm(r, in, 8)
  OBVIOUS
<1>12. r \in KijiFrame /\ s \in KijiFrame /\ SetTop(s)
  BY <1>3, <1>11, TopThen
<1>13. Appends(r, s, in) /\ s.handlers = r.handlers
  BY <1>11, <1>12, AsmAppends DEF Appends
<1>14. in.at = r.bytecode_size /\ in.at + 3 < s.bytecode_size
  <2>1. s.bytecode_size = r.bytecode_size + 2 + 2 * Len(rs) + 8
    BY <1>5, <1>11, <1>12 DEF Asm, KijiFrame
  <2>2. r.bytecode_size \in Nat
    BY <1>12, FrameFields
  <2>3. in.at = r.bytecode_size
    BY <1>5, <1>11 DEF Size
  <2> QED
    BY <1>6, <2>1, <2>2, <2>3
<1>15. Governed(K, n, top, s)
  <2>1. Governed(K, n, top, r)
    BY <1>8, <1>11
  <2> QED
    BY <1>8, <1>10, <1>12, <1>13, <1>14, <2>1, ThrowGoverned
<1>16. <<t, Turn(D[l], K[l].loop)>> \in Turns[W[l]]
  <2>1. IsSteady(Op)
    BY <1>3 DEF IsSteady, IsCalm
  <2>2. Stays(Act.todo, t)
    BY <1>1, <1>3, <2>1, SteadyStays
  <2> QED
    BY <1>8, <2>2 DEF Stays
<1>17. PICK a : a = Resumed(ac[l], t, loc, lab)
  OBVIOUS
<1>18. a.todo = t /\ a.loc = loc /\ a.id = ac[l].id
  BY <1>8, <1>17, ActFields
<1>19. StartIs(a, K[l])
  BY <1>8, <1>18 DEF StartIs, HasStart
<1>20. K[l].loop = "in" => K[l].start \in Int
  BY <1>8 DEF IsSeated
<1>21. Goes(W[l], D[l], K[l], ac[l], K[l], a)
  BY <1>8, <1>16, <1>18, <1>19, <1>20, Zenon DEF Goes
<1>22. Looped(K, Q, D, W, [fr EXCEPT ![top] = s], fs, [ac EXCEPT ![l] = a], n)
  BY <1>8, <1>15, <1>21, TopGoesOn
<1>23. /\ frame' = [fr EXCEPT ![top] = s] /\ frames' = fs
       /\ acts' = [ac EXCEPT ![l] = a] /\ calls' = n
  BY <1>3, <1>8, <1>12, <1>17 DEF Resume, Resumed, SetTop
<1> QED
  BY <1>22, <1>23 DEF LoopsInv
-----------------------------------------------------------------------------
(* The actions that call a handler, return from one, push or pop a frame.       *)

Called(l, node, n, K, D, W, ac, bc) ==
  /\ K[l].loop # "over" /\ node \in DOMAIN Turns
  /\ Len(bc) = l + 1 /\ DOMAIN bc = 1..(l + 1) /\ \A i \in 1..(l - 1) : bc[i] = ac[i]
  /\ bc[l].id = ac[l].id /\ bc[l].loc = ac[l].loc
  /\ <<bc[l].todo, Turn(D[l], K[l].loop)>> \in Turns[W[l]]
  /\ bc[l + 1].id = n + 1 /\ <<bc[l + 1].todo, Turn(0, "none")>> \in Turns[node]
  /\ ~ HasStart(bc[l + 1])

LEMMA CallSeats ==
  ASSUME NEW fr, NEW fs, NEW ac, NEW n, Machine(fr, fs, ac), ac # <<>>,
         NEW K, NEW Q, NEW D, NEW W, Looped(K, Q, D, W, fr, fs, ac, n),
         NEW l, l = Len(ac), NEW node, NEW bc, Called(l, node, n, K, D, W, ac, bc)
  PROVE  \E J, P, E, X : Looped(J, P, E, X, fr, fs, bc, n + 1)
<1>0. /\ K[l].loop # "over" /\ node \in DOMAIN Turns
      /\ Len(bc) = l + 1 /\ DOMAIN bc = 1..(l + 1) /\ \A i \in 1..(l - 1) : bc[i] = ac[i]
      /\ bc[l].id = ac[l].id /\ bc[l].loc = ac[l].loc
      /\ <<bc[l].todo, Turn(D[l], K[l].loop)>> \in Turns[W[l]]
      /\ bc[l + 1].id = n + 1 /\ <<bc[l + 1].todo, Turn(0, "none")>> \in Turns[node]
      /\ ~ HasStart(bc[l + 1])
  BY DEF Called
<1>1. PICK top, m : top = fs[Len(fs)] /\ m = l + 1
  OBVIOUS
<1>2. /\ l \in Nat /\ l >= 1 /\ DOMAIN ac = 1..l /\ Len(fs) \in Nat /\ DOMAIN fs = 1..Len(fs)
      /\ D[l] \in Nat /\ Q[l] \in 1..Len(fs) /\ Q[l] + D[l] = Len(fs)
      /\ W[l] \in DOMAIN Turns
  <2>1. Topmost(l, top, K, Q, D, W, fr, fs, ac)
    BY <1>1, TopFacts
  <2> QED
    BY <2>1, Zenon DEF Topmost
<1>3. /\ DOMAIN K = DOMAIN ac /\ DOMAIN Q = DOMAIN ac /\ DOMAIN D = DOMAIN ac
      /\ \A i \in DOMAIN ac : D[i] \in Nat /\ Q[i] \in DOMAIN fs /\ K[i].home = fs[Q[i]]
      /\ \A i, j \in DOMAIN ac : i < j => Q[i] + D[i] <= Q[j]
      /\ \A i, j \in DOMAIN ac : j = i + 1 => Q[j] = Q[i] + D[i]
  BY Zenon DEF Looped, Seated
<1>4. n \in Nat /\ IsSeated(K, n)
  BY Zenon DEF Looped, Recorded
<1>5. \A i \in DOMAIN ac : K[i].id = ac[i].id /\ StartIs(ac[i], K[i]) /\ K[i].loop # "over"
  BY <1>0, Zenon DEF Looped, Recorded
<1>6. PICK seat : seat = Seat(n + 1, top, "none", 0)
  OBVIOUS
<1>7. seat.id = n + 1 /\ seat.home = top /\ seat.loop = "none"
  BY <1>6 DEF Seat
<1>8. PICK J, P, E, X : /\ J = [i \in 1..m |-> IF i = m THEN seat ELSE K[i]]
                        /\ P = [i \in 1..m |-> IF i = m THEN Len(fs) ELSE Q[i]]
                        /\ E = [i \in 1..m |-> IF i = m THEN 0 ELSE D[i]]
                        /\ X = [i \in 1..m |-> IF i = m THEN node ELSE W[i]]
  OBVIOUS
<1>9. /\ m \in Nat /\ m \in 1..m /\ m \notin 1..l /\ \A i : i \in 1..m <=> i \in 1..l \/ i = m
      /\ Len(fs) \in DOMAIN fs
  BY <1>1, <1>2
<1>10. /\ DOMAIN J = 1..m /\ DOMAIN P = 1..m /\ DOMAIN E = 1..m /\ DOMAIN X = 1..m
       /\ J[m] = seat /\ P[m] = Len(fs) /\ E[m] = 0 /\ X[m] = node
       /\ \A i \in 1..l : J[i] = K[i] /\ P[i] = Q[i] /\ E[i] = D[i] /\ X[i] = W[i]
  BY <1>8, <1>9
<1>11. /\ bc[l].id = ac[l].id /\ bc[l].loc = ac[l].loc /\ \A i \in 1..l : i # l => bc[i] = ac[i]
  BY <1>0, <1>2
<1>12. Seated(J, P, E, fs, bc)
  <2>1. ASSUME NEW i \in 1..m
        PROVE  E[i] \in Nat /\ P[i] \in DOMAIN fs /\ J[i].home = fs[P[i]]
    <3>1. CASE i = m
      BY <1>1, <1>7, <1>9, <1>10, <3>1
    <3>2. CASE i \in 1..l
      <4>1. i \in DOMAIN ac /\ J[i] = K[i] /\ P[i] = Q[i] /\ E[i] = D[i]
        BY <1>2, <1>10, <3>2, Zenon
      <4> QED
        BY <1>3, <4>1, Zenon
    <3> QED
      BY <1>9, <3>1, <3>2
  <2>2. P[Len(bc)] + E[Len(bc)] = Len(fs)
    BY <1>0, <1>1, <1>2, <1>10
  <2>3. ASSUME NEW i \in 1..m, NEW j \in 1..m, i < j
        PROVE  P[i] + E[i] <= P[j] /\ (j = i + 1 => P[j] = P[i] + E[i])
    <3>1. i \in 1..l
      BY <1>1, <1>2, <2>3
    <3>2. CASE j = m
      <4>1. i = l \/ Q[i] + D[i] <= Q[l]
        <5>1. i \in DOMAIN ac /\ l \in DOMAIN ac /\ (i = l \/ i < l)
          BY <1>2, <3>1
        <5> QED
          BY <1>3, <5>1, Zenon
      <4>2. D[i] \in Nat /\ Q[i] \in 1..Len(fs)
        BY <1>2, <1>3, <3>1
      <4>3. Q[i] + D[i] <= Len(fs)
        BY <1>2, <4>1, <4>2
      <4>4. j = i + 1 => i = l
        BY <1>1, <1>2, <3>2
      <4> QED
        BY <1>2, <1>10, <3>1, <3>2, <4>3, <4>4
    <3>3. CASE j # m
      <4>1. j \in 1..l /\ i \in DOMAIN ac /\ j \in DOMAIN ac
        BY <1>2, <1>9, <3>1, <3>3
      <4>2. Q[i] + D[i] <= Q[j] /\ (j = i + 1 => Q[j] = Q[i] + D[i])
        BY <1>3, <2>3, <4>1
      <4>3. P[i] = Q[i] /\ E[i] = D[i] /\ P[j] = Q[j]
        BY <1>10, <3>1, <4>1
      <4> QED
        BY <4>2, <4>3
    <3> QED
      BY <3>2, <3>3
  <2>4. \A i, j \in 1..m : j = i + 1 => i < j
    BY <1>9
  <2>5. DOMAIN bc = 1..m
    BY <1>0, <1>1
  <2> QED
    BY <1>10, <2>1, <2>2, <2>3, <2>4, <2>5 DEF Seated
<1>13. Guided(J, E, X, bc)
  <2> SUFFICES ASSUME NEW i \in 1..m
               PROVE  X[i] \in DOMAIN Turns /\ <<bc[i].todo, Turn(E[i], J[i].loop)>> \in Turns[X[i]]
    BY <1>0, <1>1 DEF Guided
  <2>1. CASE i = m
    BY <1>0, <1>1, <1>7, <1>10, <2>1
  <2>2. CASE i = l
    BY <1>0, <1>2, <1>9, <1>10, <2>2
  <2>3. CASE i # m /\ i # l
    <3>1. i \in 1..l /\ bc[i] = ac[i]
      BY <1>9, <1>11, <2>3
    <3>2. W[i] \in DOMAIN Turns /\ <<ac[i].todo, Turn(D[i], K[i].loop)>> \in Turns[W[i]]
      BY <1>2, <3>1 DEF Looped, Guided
    <3> QED
      BY <1>10, <3>1, <3>2
  <2> QED
    BY <2>1, <2>2, <2>3
<1>14. Recorded(J, bc, n + 1)
  <2>1. ASSUME NEW i \in 1..m
        PROVE  /\ i \in Nat /\ J[i].id \in 0..(n + 1) /\ (J[i].id = 0 <=> J[i].loop = "never")
               /\ J[i].loop = "in" => J[i].start \in Int
    <3>1. CASE i = m
      BY <1>4, <1>7, <1>9, <1>10, <3>1
    <3>2. CASE i # m
      <4>1. i \in 1..l
        BY <1>9, <3>2
      <4>2. /\ i \in Nat /\ K[i].id \in 0..n /\ (K[i].id = 0 <=> K[i].loop = "never")
            /\ K[i].loop = "in" => K[i].start \in Int
        BY <1>2, <1>3, <1>4, <4>1 DEF IsSeated
      <4> QED
        BY <1>4, <1>10, <4>1, <4>2
    <3> QED
      BY <3>1, <3>2
  <2>2. ASSUME NEW i \in 1..m, NEW j \in 1..m, J[i].id = J[j].id
        PROVE  i = j
    <3>1. \A k \in 1..l : K[k].id \in 0..n /\ J[k] = K[k]
      BY <1>2, <1>3, <1>4, <1>10 DEF IsSeated
    <3>2. \A k \in 1..l : J[k].id # J[m].id
      <4>1. J[m].id = n + 1
        BY <1>7, <1>10
      <4> QED
        BY <1>4, <3>1, <4>1
    <3>3. CASE i \in 1..l /\ j \in 1..l
      BY <1>2, <1>3, <1>4, <2>2, <3>1, <3>3 DEF IsSeated
    <3>4. (i \in 1..l \/ i = m) /\ (j \in 1..l \/ j = m)
      BY <1>9
    <3>5. ASSUME i \in 1..l, j = m
          PROVE  FALSE
      BY <2>2, <3>2, <3>5
    <3>6. ASSUME i = m, j \in 1..l
          PROVE  FALSE
      BY <2>2, <3>2, <3>6
    <3> QED
      BY <3>3, <3>4, <3>5, <3>6, Zenon
  <2>3. IsSeated(J, n + 1)
    BY <1>10, <2>1, <2>2 DEF IsSeated
  <2>4. ASSUME NEW i \in 1..m
        PROVE  J[i].id = bc[i].id /\ StartIs(bc[i], J[i]) /\ J[i].loop # "over"
    <3>1. CASE i = m
      BY <1>0, <1>1, <1>7, <1>10, <3>1 DEF StartIs
    <3>2. CASE i # m
      <4>1. i \in 1..l
        BY <1>9, <3>2
      <4>2. K[i].id = ac[i].id /\ StartIs(ac[i], K[i]) /\ K[i].loop # "over"
        BY <1>2, <1>5, <4>1
      <4>3. bc[i].id = ac[i].id /\ bc[i].loc = ac[i].loc
        BY <1>11, <4>1
      <4> QED
        BY <1>10, <4>1, <4>2, <4>3 DEF StartIs, HasStart
    <3> QED
      BY <3>1, <3>2
  <2>5. n + 1 \in Nat /\ DOMAIN bc = 1..m
    BY <1>0, <1>1, <1>4
  <2> QED
    BY <2>3, <2>4, <2>5, Zenon DEF Recorded
<1>15. GovernedAll(J, fr, n + 1)
  <2> SUFFICES ASSUME NEW f \in DOMAIN fr
               PROVE  Governed(J, n + 1, f, fr[f])
    BY DEF GovernedAll
  <2>1. Governed(K, n, f, fr[f])
    BY DEF Looped, GovernedAll
  <2>2. \A i : i \in DOMAIN J <=> i \in DOMAIN K \/ i = m
    BY <1>2, <1>3, <1>9, <1>10
  <2>3. \A i \in DOMAIN K : J[i] = K[i]
    BY <1>2, <1>3, <1>10
  <2>4. J[m].loop = "none" /\ ~ (J[m].id <= n)
    BY <1>4, <1>7, <1>10
  <2>5. SameLoops(K, J, n, f)
    BY <2>2, <2>3, <2>4 DEF SameLoops, Open
  <2>6. n + 1 \in Nat /\ n <= n + 1
    BY <1>4
  <2> QED
    BY <1>4, <2>1, <2>5, <2>6, SeatsGoverned
<1>16. Looped(J, P, E, X, fr, fs, bc, n + 1)
  BY <1>12, <1>13, <1>14, <1>15 DEF Looped
<1> QED
  BY <1>16

Left(l, m, K, D, ac, bc) ==
  /\ D[l] = 0 /\ K[l].loop # "in" /\ l # 1 /\ m = l - 1
  /\ Len(bc) = m /\ DOMAIN bc = 1..m /\ \A i \in 1..m : i # m => bc[i] = ac[i]
  /\ bc[m].id = ac[m].id /\ bc[m].todo = ac[m].todo /\ (HasStart(bc[m]) <=> HasStart(ac[m]))
  /\ HasStart(ac[m]) => bc[m].loc["start_offset"] = ac[m].loc["start_offset"]

LEMMA ReturnSeats ==
  ASSUME NEW fr, NEW fs, NEW ac, NEW n, Machine(fr, fs, ac), ac # <<>>,
         NEW K, NEW Q, NEW D, NEW W, Looped(K, Q, D, W, fr, fs, ac, n),
         NEW l, l = Len(ac), NEW m, NEW bc, Left(l, m, K, D, ac, bc)
  PROVE  \E J, P, E, X : Looped(J, P, E, X, fr, fs, bc, n)
<1>0. /\ D[l] = 0 /\ K[l].loop # "in" /\ l # 1 /\ m = l - 1
      /\ Len(bc) = m /\ DOMAIN bc = 1..m /\ \A i \in 1..m : i # m => bc[i] = ac[i]
      /\ bc[m].id = ac[m].id /\ bc[m].todo = ac[m].todo /\ (HasStart(bc[m]) <=> HasStart(ac[m]))
      /\ HasStart(ac[m]) => bc[m].loc["start_offset"] = ac[m].loc["start_offset"]
  BY DEF Left
<1>1. PICK top : top = fs[Len(fs)]
  OBVIOUS
<1>2. /\ l \in Nat /\ l >= 1 /\ DOMAIN ac = 1..l /\ Len(fs) \in Nat /\ DOMAIN fs = 1..Len(fs)
      /\ Q[l] \in 1..Len(fs) /\ Q[l] + D[l] = Len(fs)
  <2>1. Topmost(l, top, K, Q, D, W, fr, fs, ac)
    BY <1>1, TopFacts
  <2> QED
    BY <2>1, Zenon DEF Topmost
<1>3. /\ DOMAIN K = DOMAIN ac /\ DOMAIN Q = DOMAIN ac /\ DOMAIN D = DOMAIN ac
      /\ \A i \in DOMAIN ac : D[i] \in Nat /\ Q[i] \in DOMAIN fs /\ K[i].home = fs[Q[i]]
      /\ \A i, j \in DOMAIN ac : i < j => Q[i] + D[i] <= Q[j]
      /\ \A i, j \in DOMAIN ac : j = i + 1 => Q[j] = Q[i] + D[i]
  BY Zenon DEF Looped, Seated
<1>4. n \in Nat /\ IsSeated(K, n)
  BY Zenon DEF Looped, Recorded
<1>5. \A i \in DOMAIN ac : K[i].id = ac[i].id /\ StartIs(ac[i], K[i]) /\ (K[i].loop = "over" => i = l)
  BY Zenon DEF Looped, Recorded
<1>6. PICK J, P, E, X : /\ J = [i \in 1..m |-> K[i]] /\ P = [i \in 1..m |-> Q[i]]
                        /\ E = [i \in 1..m |-> D[i]] /\ X = [i \in 1..m |-> W[i]]
  OBVIOUS
<1>7. /\ DOMAIN J = 1..m /\ DOMAIN P = 1..m /\ DOMAIN E = 1..m /\ DOMAIN X = 1..m
      /\ \A i \in 1..m : J[i] = K[i] /\ P[i] = Q[i] /\ E[i] = D[i] /\ X[i] = W[i]
  BY <1>6
<1>8. /\ m \in Nat /\ m \in 1..m /\ l \notin 1..m /\ \A i : i \in 1..l <=> i \in 1..m \/ i = l
  BY <1>0, <1>2
<1>9. Seated(J, P, E, fs, bc)
  <2>1. ASSUME NEW i \in 1..m
        PROVE  E[i] \in Nat /\ P[i] \in DOMAIN fs /\ J[i].home = fs[P[i]]
    <3>1. i \in DOMAIN ac
      BY <1>2, <1>8
    <3>2. D[i] \in Nat /\ Q[i] \in DOMAIN fs /\ K[i].home = fs[Q[i]]
      BY <1>3, <3>1, Zenon
    <3> QED
      BY <1>7, <3>2
  <2>2. P[m] + E[m] = Len(fs)
    <3>1. m \in DOMAIN ac /\ l \in DOMAIN ac /\ l = m + 1
      BY <1>0, <1>2, <1>8
    <3>2. Q[l] = Q[m] + D[m]
      BY <1>3, <3>1
    <3>3. Q[m] + D[m] = Len(fs)
      BY <1>0, <1>2, <3>2
    <3> QED
      BY <1>7, <1>8, <3>3
  <2>3. ASSUME NEW i \in 1..m, NEW j \in 1..m
        PROVE  (i < j => P[i] + E[i] <= P[j]) /\ (j = i + 1 => P[j] = P[i] + E[i])
    <3>1. i \in DOMAIN ac /\ j \in DOMAIN ac
      BY <1>2, <1>8
    <3>2. (i < j => Q[i] + D[i] <= Q[j]) /\ (j = i + 1 => Q[j] = Q[i] + D[i])
      BY <1>3, <3>1, Zenon
    <3>3. P[i] = Q[i] /\ E[i] = D[i] /\ P[j] = Q[j]
      BY <1>7
    <3> QED
      BY <3>2, <3>3
  <2>4. /\ \A i, j \in DOMAIN bc : i < j => P[i] + E[i] <= P[j]
        /\ \A i, j \in DOMAIN bc : j = i + 1 => P[j] = P[i] + E[i]
    BY <1>0, <2>3, Zenon
  <2>5. \A i \in DOMAIN bc : E[i] \in Nat /\ P[i] \in DOMAIN fs /\ J[i].home = fs[P[i]]
    BY <1>0, <2>1, Zenon
  <2>6. P[Len(bc)] + E[Len(bc)] = Len(fs)
    BY <1>0, <2>2
  <2>7. DOMAIN J = DOMAIN bc /\ DOMAIN P = DOMAIN bc /\ DOMAIN E = DOMAIN bc
    BY <1>0, <1>7
  <2> QED
    BY <2>4, <2>5, <2>6, <2>7, Zenon DEF Seated
<1>10. Guided(J, E, X, bc)
  <2> SUFFICES ASSUME NEW i \in 1..m
               PROVE  X[i] \in DOMAIN Turns /\ <<bc[i].todo, Turn(E[i], J[i].loop)>> \in Turns[X[i]]
    BY <1>0 DEF Guided
  <2>1. i \in DOMAIN ac /\ bc[i].todo = ac[i].todo
    BY <1>0, <1>2, <1>8
  <2>2. W[i] \in DOMAIN Turns /\ <<ac[i].todo, Turn(D[i], K[i].loop)>> \in Turns[W[i]]
    BY <2>1 DEF Looped, Guided
  <2> QED
    BY <1>7, <2>1, <2>2
<1>11. Recorded(J, bc, n)
  <2>1. IsSeated(J, n)
    <3>1. \A i \in DOMAIN J : i \in DOMAIN K /\ J[i] = K[i]
      BY <1>2, <1>3, <1>7, <1>8
    <3>2. \A i \in DOMAIN J : /\ i \in Nat /\ J[i].id \in 0..n /\ (J[i].id = 0 <=> J[i].loop = "never")
                              /\ J[i].loop = "in" => J[i].start \in Int
      BY <1>4, <3>1 DEF IsSeated
    <3>3. \A i, j \in DOMAIN J : J[i].id = J[j].id => i = j
      BY <1>4, <3>1, Zenon DEF IsSeated
    <3> QED
      BY <3>2, <3>3 DEF IsSeated
  <2>2. ASSUME NEW i \in 1..m
        PROVE  J[i].id = bc[i].id /\ StartIs(bc[i], J[i]) /\ J[i].loop # "over"
    <3>1. i \in DOMAIN ac /\ i # l
      BY <1>2, <1>8
    <3>2. K[i].id = ac[i].id /\ StartIs(ac[i], K[i]) /\ K[i].loop # "over"
      BY <1>5, <3>1
    <3>3. CASE i = m
      BY <1>0, <1>7, <3>2, <3>3 DEF StartIs
    <3>4. CASE i # m
      BY <1>0, <1>7, <3>2, <3>4
    <3> QED
      BY <3>3, <3>4
  <2> QED
    BY <1>0, <1>4, <2>1, <2>2, Zenon DEF Recorded
<1>12. GovernedAll(J, fr, n)
  <2> SUFFICES ASSUME NEW f \in DOMAIN fr
               PROVE  Governed(J, n, f, fr[f])
    BY DEF GovernedAll
  <2>1. Governed(K, n, f, fr[f])
    BY DEF Looped, GovernedAll
  <2>2. \A i \in DOMAIN J : i \in DOMAIN K /\ J[i] = K[i]
    BY <1>2, <1>3, <1>7, <1>8
  <2>3. \A i \in DOMAIN K : i \in DOMAIN J \/ i = l
    BY <1>2, <1>3, <1>7, <1>8
  <2>4. SameLoops(K, J, n, f)
    BY <1>0, <2>2, <2>3 DEF SameLoops, Open
  <2>5. n <= n
    BY <1>4
  <2> QED
    BY <1>4, <2>1, <2>4, <2>5, SeatsGoverned
<1>13. Looped(J, P, E, X, fr, fs, bc, n)
  BY <1>9, <1>10, <1>11, <1>12 DEF Looped
<1> QED
  BY <1>13

LEMMA ChildTurns ==
  ASSUME NEW C, NEW B, NEW V, IInv(C, B, V), LoopsInv, Child
  PROVE  LoopsInv'
<1>1. /\ status = "compiling" /\ Act.todo # <<>> /\ Op.op = "child"
      /\ acts' = Append([acts EXCEPT ![Len(acts)].todo = Tail(@)],
                        Activation(Script(Op.node), Op.dst, calls + 1))
      /\ frame' = frame /\ frames' = frames /\ calls' = calls + 1
  BY DEF Child, Does
<1>2. PICK l, top, K, Q, D, W, fr, fs, ac, n : InProgress(l, top, K, Q, D, W, fr, fs, ac, n)
  BY <1>1, LoopsNow
<1>3. /\ fr = frame /\ fs = frames /\ ac = acts /\ n = calls
      /\ Looped(K, Q, D, W, fr, fs, ac, n) /\ Machine(fr, fs, ac) /\ ac # <<>>
      /\ l = Len(ac) /\ Act = ac[l] /\ IsAct(ac[l])
      /\ l \in Nat /\ DOMAIN ac = 1..l /\ l \in DOMAIN ac /\ n \in Nat
  BY <1>2, Zenon DEF InProgress, Topmost
<1>4. PICK node, id, todo, t, c :
        /\ node = Op.node /\ id = calls + 1 /\ todo = ac[l].todo /\ t = Tail(Act.todo)
        /\ c = Turn(D[l], K[l].loop)
  OBVIOUS
<1>5. /\ Allowed(Op, c) /\ \A s \in Ways(Act.todo) : <<s, Turned(Op, c)>> \in Turns[W[l]]
      /\ node \in DOMAIN Turns /\ <<Script(node), Turn(0, "none")>> \in Turns[node]
  BY <1>1, <1>2, <1>4, TurnAllows
<1>6. K[l].loop # "over"
  BY <1>1, <1>4, <1>5 DEF Allowed, Turn
<1>7. <<t, c>> \in Turns[W[l]]
  <2>1. t \in Ways(Act.todo)
    <3>1. PICK s : s = Act.todo /\ s[1] = Op
      BY DEF Op
    <3> QED
      BY <1>1, <1>4, <3>1, TheRest
  <2>2. Turned(Op, c) = c
    BY <1>1 DEF Turned
  <2> QED
    BY <1>5, <2>1, <2>2
<1>8. PICK a, b : a = Activation(Script(node), Op.dst, id) /\ b = [ac[l] EXCEPT !.todo = t]
  OBVIOUS
<1>9. a.todo = Script(node) /\ a.id = n + 1 /\ ~ HasStart(a)
  <2>1. id \in Nat /\ id = n + 1
    BY <1>3, <1>4
  <2>2. a.todo = Script(node) /\ a.id = id /\ a.loc = [UNKNOWN_REG |-> UNKNOWN_REG, zero |-> 0]
    BY <1>8, <2>1, NewActivation
  <2> QED
    BY <2>1, <2>2 DEF HasStart
<1>10. b.todo = t /\ b.loc = ac[l].loc /\ b.id = ac[l].id
  BY <1>3, <1>8 DEF IsAct
<1>11. PICK waiting, bc : waiting = [ac EXCEPT ![l] = b] /\ bc = Append(waiting, a)
  OBVIOUS
<1>12. acts' = bc
  BY <1>1, <1>3, <1>4, <1>8, <1>11
<1>13. IsSeq(ac)
  BY <1>3, Zenon DEF Machine
<1>14. /\ IsSeq(waiting) /\ Len(waiting) = l /\ waiting[l] = b
       /\ \A i \in 1..l : i # l => waiting[i] = ac[i]
  <2>1. waiting = Put(ac, l, b)
    BY <1>11 DEF Put
  <2>2. /\ IsSeq(waiting) /\ Len(waiting) = Len(ac) /\ DOMAIN waiting = DOMAIN ac /\ waiting[l] = b
        /\ \A i \in DOMAIN ac : i # l => waiting[i] = ac[i]
    <3>1. l \in DOMAIN ac
      BY <1>3, Zenon
    <3> QED
      BY <1>13, <2>1, <3>1, Replaced
  <2>3. Len(ac) = l /\ DOMAIN ac = 1..l
    BY <1>3, Zenon
  <2> QED
    BY <2>2, <2>3, Zenon
<1>15. /\ Len(bc) = l + 1 /\ DOMAIN bc = 1..(l + 1) /\ bc[l + 1] = a
       /\ \A i \in 1..l : bc[i] = waiting[i]
  BY <1>11, <1>14, AppendSeq
<1>16. bc[l] = b /\ \A i \in 1..(l - 1) : bc[i] = ac[i]
  BY <1>3, <1>14, <1>15
<1>17. /\ bc[l].id = ac[l].id /\ bc[l].loc = ac[l].loc
       /\ <<bc[l].todo, Turn(D[l], K[l].loop)>> \in Turns[W[l]]
       /\ bc[l + 1].id = n + 1 /\ <<bc[l + 1].todo, Turn(0, "none")>> \in Turns[node]
       /\ ~ HasStart(bc[l + 1])
  BY <1>4, <1>5, <1>7, <1>9, <1>10, <1>15, <1>16
<1>18. \E J, P, E, X : Looped(J, P, E, X, fr, fs, bc, n + 1)
  <2>1. Called(l, node, n, K, D, W, ac, bc)
    BY <1>5, <1>6, <1>15, <1>16, <1>17, Zenon DEF Called
  <2> QED
    BY <1>3, <2>1, CallSeats
<1> QED
  BY <1>1, <1>3, <1>12, <1>18 DEF LoopsInv

LEMMA ReturnTurns ==
  ASSUME NEW C, NEW B, NEW V, IInv(C, B, V), LoopsInv, Return
  PROVE  LoopsInv'
<1>1. /\ status = "compiling" /\ Act.todo # <<>> /\ Op.op = "return"
      /\ frame' = frame /\ frames' = frames /\ calls' = calls
  BY DEF Return, Does
<1>2. PICK l, top, K, Q, D, W, fr, fs, ac, n : InProgress(l, top, K, Q, D, W, fr, fs, ac, n)
  BY <1>1, LoopsNow
<1>3. /\ fr = frame /\ fs = frames /\ ac = acts /\ n = calls
      /\ Looped(K, Q, D, W, fr, fs, ac, n) /\ Machine(fr, fs, ac) /\ ac # <<>>
      /\ l = Len(ac) /\ Act = ac[l] /\ IsAct(ac[l])
      /\ l \in Nat /\ l >= 1 /\ DOMAIN ac = 1..l /\ l \in DOMAIN ac /\ n \in Nat /\ D[l] \in Nat
  BY <1>2, Zenon DEF InProgress, Topmost
<1>4. PICK m, dst : m = l - 1 /\ dst = Act.dst
  OBVIOUS
<1>5. D[l] = 0 /\ K[l].loop # "in"
  <2>1. Allowed(Op, Turn(D[l], K[l].loop))
    BY <1>1, <1>2, TurnAllows
  <2> QED
    BY <1>1, <2>1 DEF Allowed, Turn
<1>6. CASE l = 1
  <2>1. acts' = <<>>
    BY <1>3, <1>6 DEF Return
  <2>2. PICK none : none = <<>>
    OBVIOUS
  <2>3. DOMAIN none = {} /\ none = <<>>
    BY <2>2
  <2>4. Seated(none, none, none, fs, none) /\ Guided(none, none, none, none)
    BY <2>3 DEF Seated, Guided
  <2>5. Recorded(none, none, n)
    BY <1>3, <2>3 DEF Recorded, IsSeated
  <2>6. GovernedAll(none, fr, n)
    <3> SUFFICES ASSUME NEW f \in DOMAIN fr
                 PROVE  Governed(none, n, f, fr[f])
      BY DEF GovernedAll
    <3>1. Governed(K, n, f, fr[f])
      BY <1>3 DEF Looped, GovernedAll
    <3>2. DOMAIN K = {1}
      BY <1>3, <1>6 DEF Looped, Seated
    <3>3. \A i : ~ Open(K, f, i) /\ ~ Open(none, f, i)
      BY <1>5, <1>6, <2>3, <3>2 DEF Open
    <3>4. SameLoops(K, none, n, f)
      BY <2>3, <3>3, Zenon DEF SameLoops
    <3>5. n <= n
      BY <1>3
    <3> QED
      BY <1>3, <3>1, <3>4, <3>5, SeatsGoverned
  <2>7. Looped(none, none, none, none, fr, fs, none, n)
    BY <2>4, <2>5, <2>6, Zenon DEF Looped
  <2> QED
    BY <1>1, <1>3, <2>1, <2>3, <2>7 DEF LoopsInv
<1>7. CASE l # 1
  <2>1. PICK x, rest :
          /\ rest = SubSeq(ac, 1, Len(ac) - 1)
          /\ acts' = [rest EXCEPT ![Len(rest)].loc = Assign(@, dst, x)]
    BY <1>3, <1>4, <1>7 DEF Return
  <2>2. IsSeq(ac)
    BY <1>3, Zenon DEF Machine
  <2>3. IsSeq(rest) /\ Len(rest) = m /\ DOMAIN rest = 1..m /\ \A i \in 1..m : rest[i] = ac[i]
    BY <1>3, <1>4, <2>1, <2>2, FrontSeq
  <2>4. m \in 1..m /\ m \in DOMAIN rest /\ m \in DOMAIN ac
    BY <1>3, <1>4, <1>7, <2>3
  <2>5. IsAct(ac[m]) /\ rest[m] = ac[m]
    BY <1>3, <2>3, <2>4 DEF Machine
  <2>6. PICK b, bc : b = [ac[m] EXCEPT !.loc = Assign(ac[m].loc, dst, x)] /\ bc = [rest EXCEPT ![m] = b]
    OBVIOUS
  <2>7. b.todo = ac[m].todo /\ b.id = ac[m].id /\ b.loc = Assign(ac[m].loc, dst, x)
    BY <2>5, <2>6 DEF IsAct
  <2>8. acts' = bc
    BY <2>1, <2>3, <2>4, <2>5, <2>6
  <2>9. /\ Len(bc) = m /\ DOMAIN bc = 1..m /\ bc[m] = b
        /\ \A i \in 1..m : i # m => bc[i] = ac[i]
    BY <2>3, <2>4, <2>6, ExceptIsSeq
  <2>10. dst # "start_offset"
    <3>1. m \in DOMAIN acts /\ l \in DOMAIN acts /\ l = m + 1
      BY <1>3, <1>4, <2>4
    <3>2. IsFreeVariable(acts[l].dst)
      BY <3>1 DEF IInv, Judged
    <3> QED
      BY <1>3, <1>4, <3>2 DEF IsFreeVariable
  <2>11. /\ HasStart(b) <=> HasStart(ac[m])
         /\ HasStart(ac[m]) => b.loc["start_offset"] = ac[m].loc["start_offset"]
    BY <2>7, <2>10 DEF HasStart, Assign
  <2>12. \E J, P, E, X : Looped(J, P, E, X, fr, fs, bc, n)
    <3>1. Left(l, m, K, D, ac, bc)
      BY <1>4, <1>5, <1>7, <2>7, <2>9, <2>11 DEF Left
    <3> QED
      BY <1>3, <3>1, ReturnSeats
  <2> QED
    BY <1>1, <1>3, <2>8, <2>12 DEF LoopsInv
<1> QED
  BY <1>6, <1>7

(* The running activation a pushes a frame or pops one of its own: d frames    *)
(* are above the one it was called in then.                                  *)
Moved(l, d, K, Q, W, fs, ac, fs2, bc) ==
  /\ d \in Nat /\ Len(fs2) \in Nat /\ DOMAIN fs2 = 1..Len(fs2) /\ Len(fs2) = Q[l] + d
  /\ \A i \in 1..Q[l] : fs2[i] = fs[i]
  /\ Len(bc) = l /\ DOMAIN bc = 1..l /\ \A i \in 1..l : i # l => bc[i] = ac[i]
  /\ bc[l].id = ac[l].id /\ StartIs(bc[l], K[l]) /\ <<bc[l].todo, Turn(d, K[l].loop)>> \in Turns[W[l]]

LEMMA MovedSeats ==
  ASSUME NEW fr, NEW fs, NEW ac, NEW n, Machine(fr, fs, ac), ac # <<>>,
         NEW K, NEW Q, NEW D, NEW W, Looped(K, Q, D, W, fr, fs, ac, n),
         NEW l, l = Len(ac), NEW d, NEW fs2, NEW bc, Moved(l, d, K, Q, W, fs, ac, fs2, bc),
         NEW fr2, GovernedAll(K, fr2, n)
  PROVE  Looped(K, Q, [D EXCEPT ![l] = d], W, fr2, fs2, bc, n)
<1>1. PICK top, E : top = fs[Len(fs)] /\ E = [D EXCEPT ![l] = d]
  OBVIOUS
<1>2. /\ l \in Nat /\ l >= 1 /\ DOMAIN ac = 1..l /\ l \in 1..l /\ Len(fs) \in Nat /\ DOMAIN fs = 1..Len(fs)
      /\ D[l] \in Nat /\ Q[l] \in 1..Len(fs) /\ W[l] \in DOMAIN Turns
  <2>1. Topmost(l, top, K, Q, D, W, fr, fs, ac)
    BY <1>1, TopFacts
  <2> QED
    BY <2>1 DEF Topmost
<1>3. /\ DOMAIN K = DOMAIN ac /\ DOMAIN Q = DOMAIN ac /\ DOMAIN D = DOMAIN ac
      /\ \A i \in DOMAIN ac : D[i] \in Nat /\ Q[i] \in DOMAIN fs /\ K[i].home = fs[Q[i]]
      /\ \A i, j \in DOMAIN ac : i < j => Q[i] + D[i] <= Q[j]
      /\ \A i, j \in DOMAIN ac : j = i + 1 => Q[j] = Q[i] + D[i]
  BY Zenon DEF Looped, Seated
<1>4. /\ d \in Nat /\ Len(fs2) \in Nat /\ DOMAIN fs2 = 1..Len(fs2) /\ Len(fs2) = Q[l] + d
      /\ \A i \in 1..Q[l] : fs2[i] = fs[i]
      /\ Len(bc) = l /\ DOMAIN bc = 1..l /\ \A i \in 1..l : i # l => bc[i] = ac[i]
      /\ bc[l].id = ac[l].id /\ StartIs(bc[l], K[l]) /\ <<bc[l].todo, Turn(d, K[l].loop)>> \in Turns[W[l]]
  BY DEF Moved
<1>5. DOMAIN E = 1..l /\ E[l] = d /\ \A i \in 1..l : i # l => E[i] = D[i]
  BY <1>1, <1>2, <1>3
<1>6. Seated(K, Q, E, fs2, bc)
  <2>1. ASSUME NEW i \in 1..l
        PROVE  E[i] \in Nat /\ Q[i] \in DOMAIN fs2 /\ K[i].home = fs2[Q[i]]
    <3>1. D[i] \in Nat /\ Q[i] \in 1..Len(fs) /\ K[i].home = fs[Q[i]]
      BY <1>2, <1>3
    <3>2. Q[i] <= Q[l]
      <4>1. i # l => i < l
        BY <1>2
      <4>2. i # l => Q[i] + D[i] <= Q[l]
        BY <1>2, <1>3, <4>1, Zenon
      <4> QED
        BY <1>2, <3>1, <4>2
    <3>3. Q[i] \in 1..Q[l] /\ Q[i] \in 1..Len(fs2)
      BY <1>2, <1>4, <3>1, <3>2
    <3>4. E[i] \in Nat
      BY <1>4, <1>5, <3>1
    <3> QED
      BY <1>4, <3>1, <3>3, <3>4
  <2>2. ASSUME NEW i \in 1..l, NEW j \in 1..l
        PROVE  (i < j => Q[i] + E[i] <= Q[j]) /\ (j = i + 1 => Q[j] = Q[i] + E[i])
    <3>1. (i < j => Q[i] + D[i] <= Q[j]) /\ (j = i + 1 => Q[j] = Q[i] + D[i])
      BY <1>2, <1>3, Zenon
    <3>2. i < j \/ j = i + 1 => E[i] = D[i]
      BY <1>2, <1>5
    <3> QED
      BY <3>1, <3>2
  <2>3. Q[Len(bc)] + E[Len(bc)] = Len(fs2)
    BY <1>4, <1>5
  <2>4. DOMAIN K = DOMAIN bc /\ DOMAIN Q = DOMAIN bc /\ DOMAIN E = DOMAIN bc
    BY <1>2, <1>3, <1>4, <1>5
  <2>5. \A i \in DOMAIN bc : E[i] \in Nat /\ Q[i] \in DOMAIN fs2 /\ K[i].home = fs2[Q[i]]
    BY <1>4, <2>1, Zenon
  <2>6. /\ \A i, j \in DOMAIN bc : i < j => Q[i] + E[i] <= Q[j]
        /\ \A i, j \in DOMAIN bc : j = i + 1 => Q[j] = Q[i] + E[i]
    BY <1>4, <2>2, Zenon
  <2> QED
    BY <2>3, <2>4, <2>5, <2>6, Zenon DEF Seated
<1>7. Guided(K, E, W, bc)
  <2> SUFFICES ASSUME NEW i \in 1..l
               PROVE  W[i] \in DOMAIN Turns /\ <<bc[i].todo, Turn(E[i], K[i].loop)>> \in Turns[W[i]]
    BY <1>4 DEF Guided
  <2>1. CASE i = l
    BY <1>2, <1>4, <1>5, <2>1
  <2>2. CASE i # l
    <3>1. W[i] \in DOMAIN Turns /\ <<ac[i].todo, Turn(D[i], K[i].loop)>> \in Turns[W[i]]
      BY <1>2 DEF Looped, Guided
    <3> QED
      BY <1>4, <1>5, <2>2, <3>1
  <2> QED
    BY <2>1, <2>2
<1>8. Recorded(K, bc, n)
  <2>1. n \in Nat /\ IsSeated(K, n)
    BY Zenon DEF Looped, Recorded
  <2>2. ASSUME NEW i \in 1..l
        PROVE  K[i].id = bc[i].id /\ StartIs(bc[i], K[i]) /\ (K[i].loop = "over" => i = Len(bc))
    <3>1. K[i].id = ac[i].id /\ StartIs(ac[i], K[i]) /\ (K[i].loop = "over" => i = Len(ac))
      BY <1>2 DEF Looped, Recorded
    <3> QED
      BY <1>4, <3>1
  <2> QED
    BY <1>4, <2>1, <2>2, Zenon DEF Recorded
<1> QED
  BY <1>1, <1>6, <1>7, <1>8 DEF Looped

(* A new frame has no throw, no handler and no loop.                          *)
LEMMA NewGoverned ==
  ASSUME NEW K, NEW n, NEW f, NEW outer, \A i \in DOMAIN K : K[i].home # f
  PROVE  Governed(K, n, f, NewFrame(outer))
<1>1. PICK r : r = NewFrame(outer)
  OBVIOUS
<1>2. r.code = <<>> /\ r.handlers = <<>>
  BY <1>1 DEF NewFrame
<1>3. \A i : ~ Open(K, f, i)
  BY DEF Open
<1>4. DOMAIN r.code = {} /\ DOMAIN r.handlers = {}
  BY <1>2
<1>5. Governed(K, n, f, r)
  BY <1>3, <1>4, Zenon DEF Governed
<1> QED
  BY <1>1, <1>5

LEMMA PushFrameTurns ==
  ASSUME NEW C, NEW B, NEW V, IInv(C, B, V), LoopsInv, PushFrame
  PROVE  LoopsInv'
<1>1. PICK q, t, lc : q = Len(frame) /\ t = Tail(Act.todo) /\ lc = Assign(loc, Op.dst, Len(frame) + 1)
  OBVIOUS
<1>2. /\ status = "compiling" /\ Act.todo # <<>> /\ Op.op = "pushframe" /\ Resume(t, lc, lab)
      /\ frame' = Append(frame, NewFrame(Top)) /\ frames' = Append(frames, Len(frame) + 1)
      /\ calls' = calls
  BY <1>1 DEF PushFrame, Does, Proceed, ContinueSet
<1>3. PICK l, top, K, Q, D, W, fr, fs, ac, n : InProgress(l, top, K, Q, D, W, fr, fs, ac, n)
  BY <1>2, LoopsNow
<1>4. /\ fr = frame /\ fs = frames /\ ac = acts /\ n = calls
      /\ Looped(K, Q, D, W, fr, fs, ac, n) /\ Machine(fr, fs, ac) /\ ac # <<>>
      /\ l = Len(ac) /\ Act = ac[l] /\ loc = ac[l].loc /\ IsAct(ac[l])
      /\ l \in Nat /\ DOMAIN ac = 1..l /\ l \in DOMAIN ac /\ StartIs(ac[l], K[l])
      /\ Len(fs) \in Nat /\ DOMAIN fs = 1..Len(fs) /\ D[l] \in Nat /\ Q[l] \in 1..Len(fs)
      /\ Q[l] + D[l] = Len(fs)
  BY <1>3, Zenon DEF InProgress, Topmost
<1>5. <<t, Turn(D[l] + 1, K[l].loop)>> \in Turns[W[l]]
  <2>1. t \in Ways(Act.todo)
    <3>1. PICK s : s = Act.todo /\ s[1] = Op
      BY DEF Op
    <3> QED
      BY <1>1, <1>2, <3>1, TheRest
  <2>2. PICK c : c = Turn(D[l], K[l].loop)
    OBVIOUS
  <2>3. <<t, Turned(Op, c)>> \in Turns[W[l]]
    BY <1>2, <1>3, <2>1, <2>2, TurnAllows
  <2>4. Turned(Op, c) = Turn(D[l] + 1, K[l].loop)
    BY <1>2, <2>2 DEF Turned, Turn
  <2> QED
    BY <2>3, <2>4
<1>6. PICK a, bc : a = Resumed(ac[l], t, lc, lab) /\ bc = Put(ac, l, a)
  OBVIOUS
<1>7. a.todo = t /\ a.loc = lc /\ a.id = ac[l].id
  BY <1>4, <1>6, ActFields
<1>8. StartIs(a, K[l])
  <2>1. KeepsStart(lc)
    BY <1>1, <1>2, FreeVariable, AssignKeepsStart
  <2> QED
    BY <1>4, <1>7, <2>1 DEF StartIs, HasStart, KeepsStart
<1>9. acts' = bc
  BY <1>2, <1>4, <1>6 DEF Resume, Put, Resumed
<1>10. IsSeq(ac) /\ IsSeq(fr)
  BY <1>4, Zenon DEF Machine
<1>11. /\ Len(bc) = l /\ DOMAIN bc = 1..l /\ bc[l] = a
       /\ \A i \in 1..l : i # l => bc[i] = ac[i]
  <2>1. /\ Len(bc) = Len(ac) /\ DOMAIN bc = DOMAIN ac /\ bc[l] = a
        /\ \A i \in DOMAIN ac : i # l => bc[i] = ac[i]
    <3>1. IsSeq(ac) /\ l \in DOMAIN ac
      BY <1>4, <1>10, Zenon
    <3> QED
      BY <1>6, <3>1, Replaced
  <2> QED
    BY <1>4, <2>1
<1>12. PICK r, fr2, fs2 : r = NewFrame(Top) /\ fr2 = Append(fr, r) /\ fs2 = Append(fs, q + 1)
  OBVIOUS
<1>13. frame' = fr2 /\ frames' = fs2
  BY <1>1, <1>2, <1>4, <1>12
<1>14. /\ q \in Nat /\ DOMAIN fr = 1..q /\ DOMAIN fr2 = 1..(q + 1) /\ fr2[q + 1] = r
       /\ \A f \in 1..q : fr2[f] = fr[f]
  BY <1>1, <1>4, <1>10, <1>12, AppendSeq
<1>15. /\ Len(fs2) = Len(fs) + 1 /\ DOMAIN fs2 = 1..(Len(fs) + 1)
       /\ \A i \in 1..Len(fs) : fs2[i] = fs[i]
  <2>1. Stacked(C, B)
    BY Zenon DEF IInv
  <2>2. IsSeq(fs)
    BY <1>4, <2>1 DEF Stacked, IsSeq
  <2> QED
    BY <1>12, <2>2, AppendSeq
<1>16. Moved(l, D[l] + 1, K, Q, W, fs, ac, fs2, bc)
  <2>1. PICK d, q1, z, z2 : d = D[l] /\ q1 = Q[l] /\ z = Len(fs) /\ z2 = Len(fs2)
    OBVIOUS
  <2>2. /\ d + 1 \in Nat /\ z2 \in Nat /\ z2 = z + 1 /\ z2 = q1 + (d + 1)
        /\ \A i \in 1..q1 : i \in 1..z /\ i \in 1..z2
    <3>1. /\ d \in Nat /\ q1 \in 1..z /\ z \in Nat /\ q1 + d = z /\ z2 = z + 1
      BY <1>4, <1>15, <2>1
    <3> QED
      BY <3>1
  <2>3. \A i \in 1..q1 : fs2[i] = fs[i]
    BY <1>15, <2>1, <2>2
  <2>4. DOMAIN fs2 = 1..z2
    BY <1>15, <2>1, <2>2
  <2> QED
    BY <1>5, <1>7, <1>8, <1>11, <2>1, <2>2, <2>3, <2>4 DEF Moved
<1>17. GovernedAll(K, fr2, n)
  <2>1. ASSUME NEW i \in DOMAIN K
        PROVE  K[i].home # q + 1
    <3>1. i \in DOMAIN ac /\ Q[i] \in DOMAIN fs /\ K[i].home = fs[Q[i]]
      BY <1>4, Zenon DEF Looped, Seated
    <3>2. K[i].home \in 1..q
      BY <1>4, <1>14, <3>1 DEF Machine
    <3> QED
      BY <1>14, <3>2
  <2>2. Governed(K, n, q + 1, fr2[q + 1])
    BY <1>12, <1>14, <2>1, NewGoverned
  <2>3. \A f \in 1..q : Governed(K, n, f, fr2[f])
    BY <1>4, <1>14 DEF Looped, GovernedAll
  <2>4. \A f \in DOMAIN fr2 : f \in 1..q \/ f = q + 1
    BY <1>14
  <2> QED
    BY <2>2, <2>3, <2>4, Zenon DEF GovernedAll
<1>18. Looped(K, Q, [D EXCEPT ![l] = D[l] + 1], W, fr2, fs2, bc, n)
  BY <1>4, <1>16, <1>17, MovedSeats
<1> QED
  BY <1>2, <1>4, <1>9, <1>13, <1>18 DEF LoopsInv

LEMMA PopFrameTurns ==
  ASSUME NEW C, NEW B, NEW V, IInv(C, B, V), LoopsInv, PopFrame
  PROVE  LoopsInv'
<1>1. PICK t : t = Tail(Act.todo)
  OBVIOUS
<1>2. /\ status = "compiling" /\ Act.todo # <<>> /\ Op.op = "popframe" /\ Resume(t, loc, lab)
      /\ frame' = frame /\ frames' = SubSeq(frames, 1, Len(frames) - 1) /\ calls' = calls
  BY <1>1 DEF PopFrame, Does, Proceed, Continue
<1>3. PICK l, top, K, Q, D, W, fr, fs, ac, n : InProgress(l, top, K, Q, D, W, fr, fs, ac, n)
  BY <1>2, LoopsNow
<1>4. /\ fr = frame /\ fs = frames /\ ac = acts /\ n = calls
      /\ Looped(K, Q, D, W, fr, fs, ac, n) /\ Machine(fr, fs, ac) /\ ac # <<>>
      /\ l = Len(ac) /\ Act = ac[l] /\ loc = ac[l].loc /\ IsAct(ac[l])
      /\ l \in Nat /\ DOMAIN ac = 1..l /\ l \in DOMAIN ac /\ StartIs(ac[l], K[l])
      /\ Len(fs) \in Nat /\ DOMAIN fs = 1..Len(fs) /\ D[l] \in Nat /\ Q[l] \in 1..Len(fs)
      /\ Q[l] + D[l] = Len(fs)
  BY <1>3, Zenon DEF InProgress, Topmost
<1>5. PICK c : c = Turn(D[l], K[l].loop)
  OBVIOUS
<1>6. D[l] > 0
  <2>1. Allowed(Op, c)
    BY <1>2, <1>3, <1>5, TurnAllows
  <2> QED
    BY <1>2, <1>5, <2>1 DEF Allowed, Turn
<1>7. <<t, Turn(D[l] - 1, K[l].loop)>> \in Turns[W[l]]
  <2>1. t \in Ways(Act.todo)
    <3>1. PICK s : s = Act.todo /\ s[1] = Op
      BY DEF Op
    <3> QED
      BY <1>1, <1>2, <3>1, TheRest
  <2>2. <<t, Turned(Op, c)>> \in Turns[W[l]]
    BY <1>2, <1>3, <1>5, <2>1, TurnAllows
  <2>3. Turned(Op, c) = Turn(D[l] - 1, K[l].loop)
    BY <1>2, <1>5 DEF Turned, Turn
  <2> QED
    BY <2>2, <2>3
<1>8. PICK a, bc : a = Resumed(ac[l], t, loc, lab) /\ bc = Put(ac, l, a)
  OBVIOUS
<1>9. a.todo = t /\ a.loc = ac[l].loc /\ a.id = ac[l].id
  BY <1>4, <1>8, ActFields
<1>10. StartIs(a, K[l])
  BY <1>4, <1>9 DEF StartIs, HasStart
<1>11. acts' = bc
  BY <1>2, <1>4, <1>8 DEF Resume, Put, Resumed
<1>12. IsSeq(ac)
  BY <1>4, Zenon DEF Machine
<1>13. /\ Len(bc) = l /\ DOMAIN bc = 1..l /\ bc[l] = a
       /\ \A i \in 1..l : i # l => bc[i] = ac[i]
  <2>1. /\ Len(bc) = Len(ac) /\ DOMAIN bc = DOMAIN ac /\ bc[l] = a
        /\ \A i \in DOMAIN ac : i # l => bc[i] = ac[i]
    <3>1. IsSeq(ac) /\ l \in DOMAIN ac
      BY <1>4, <1>12, Zenon
    <3> QED
      BY <1>8, <3>1, Replaced
  <2> QED
    BY <1>4, <2>1
<1>14. PICK fs2 : fs2 = SubSeq(fs, 1, Len(fs) - 1)
  OBVIOUS
<1>15. frames' = fs2
  BY <1>2, <1>4, <1>14
<1>16. /\ Len(fs2) = Len(fs) - 1 /\ DOMAIN fs2 = 1..(Len(fs) - 1)
       /\ \A i \in 1..(Len(fs) - 1) : fs2[i] = fs[i]
  <2>1. Stacked(C, B)
    BY Zenon DEF IInv
  <2>2. IsSeq(fs) /\ fs # <<>>
    BY <1>4, <2>1 DEF Stacked, IsSeq
  <2> QED
    BY <1>14, <2>2, FrontSeq
<1>17. Moved(l, D[l] - 1, K, Q, W, fs, ac, fs2, bc)
  <2>1. PICK d, q1, z, z2 : d = D[l] /\ q1 = Q[l] /\ z = Len(fs) /\ z2 = Len(fs2)
    OBVIOUS
  <2>2. /\ d - 1 \in Nat /\ z2 \in Nat /\ z2 = z - 1 /\ z2 = q1 + (d - 1)
        /\ \A i \in 1..q1 : i \in 1..z /\ i \in 1..z2
    <3>1. /\ d \in Nat /\ q1 \in 1..z /\ z \in Nat /\ q1 + d = z /\ z2 = z - 1 /\ d > 0
      BY <1>4, <1>6, <1>16, <2>1
    <3> QED
      BY <3>1
  <2>3. \A i \in 1..q1 : fs2[i] = fs[i]
    BY <1>16, <2>1, <2>2
  <2>4. DOMAIN fs2 = 1..z2
    BY <1>16, <2>1, <2>2
  <2> QED
    BY <1>7, <1>9, <1>10, <1>13, <2>1, <2>2, <2>3, <2>4 DEF Moved
<1>18. GovernedAll(K, fr, n)
  BY <1>4 DEF Looped
<1>19. Looped(K, Q, [D EXCEPT ![l] = D[l] - 1], W, fr, fs2, bc, n)
  BY <1>4, <1>17, <1>18, MovedSeats
<1> QED
  BY <1>2, <1>4, <1>11, <1>15, <1>19 DEF LoopsInv
-----------------------------------------------------------------------------
(* The program's own handler starts, in the first frame, with no throw yet.     *)
LEMMA InitLoops ==
  ASSUME Init
  PROVE  LoopsInv
<1>1. /\ program \in Programs /\ frame = <<NewFrame(0)>> /\ frames = <<1>> /\ calls = 0
      /\ acts = <<Activation(MainScript(program), "void", 0)>>
  BY DEF Init
<1>2. PICK p, a, r, k : /\ p = program /\ a = Activation(MainScript(program), "void", 0)
                        /\ r = NewFrame(0) /\ k = Seat(0, 1, "never", 0)
  OBVIOUS
<1>3. PICK fr, fs, ac, K, Q, D, W : /\ fr = <<r>> /\ fs = <<1>> /\ ac = <<a>>
                                    /\ K = <<k>> /\ Q = <<1>> /\ D = <<0>> /\ W = <<p>>
  OBVIOUS
<1>4. frame = fr /\ frames = fs /\ acts = ac
  BY <1>1, <1>2, <1>3
<1>5. a.todo = MainScript(p) /\ a.id = 0 /\ ~ HasStart(a)
  <2>1. a.todo = MainScript(p) /\ a.id = 0 /\ a.loc = [UNKNOWN_REG |-> UNKNOWN_REG, zero |-> 0]
    BY <1>2, NewActivation
  <2> QED
    BY <2>1 DEF HasStart
<1>6. k.id = 0 /\ k.home = 1 /\ k.loop = "never"
  BY <1>2 DEF Seat
<1>7. /\ DOMAIN fr = {1} /\ fr[1] = r /\ DOMAIN fs = {1} /\ fs[1] = 1 /\ Len(fs) = 1
      /\ DOMAIN ac = {1} /\ Len(ac) = 1 /\ ac[1] = a
  BY <1>3, Singleton
<1>8. /\ DOMAIN K = {1} /\ K[1] = k /\ DOMAIN Q = {1} /\ Q[1] = 1 /\ DOMAIN D = {1} /\ D[1] = 0
      /\ DOMAIN W = {1} /\ W[1] = p
  BY <1>3, Singleton
<1>9. Seated(K, Q, D, fs, ac)
  <2>1. \A i, j \in DOMAIN ac : ~ (i < j) /\ j # i + 1
    BY <1>7
  <2>2. /\ \A i \in DOMAIN ac : D[i] \in Nat /\ Q[i] \in DOMAIN fs /\ K[i].home = fs[Q[i]]
        /\ Q[Len(ac)] + D[Len(ac)] = Len(fs)
    BY <1>6, <1>7, <1>8
  <2>3. DOMAIN K = DOMAIN ac /\ DOMAIN Q = DOMAIN ac /\ DOMAIN D = DOMAIN ac
    BY <1>7, <1>8
  <2> QED
    BY <2>1, <2>2, <2>3, Zenon DEF Seated
<1>10. Guided(K, D, W, ac)
  <2>1. p \in DOMAIN Turns /\ <<a.todo, Turn(0, "never")>> \in Turns[p]
    BY <1>1, <1>2, <1>5, NestingAssumption DEF Nesting
  <2> QED
    BY <1>6, <1>7, <1>8, <2>1 DEF Guided
<1>11. Recorded(K, ac, 0)
  BY <1>5, <1>6, <1>7, <1>8 DEF Recorded, IsSeated, StartIs
<1>12. GovernedAll(K, fr, 0)
  <2>1. DOMAIN r.code = {} /\ DOMAIN r.handlers = {}
    BY <1>2 DEF NewFrame
  <2>2. \A i : ~ Open(K, 1, i)
    BY <1>6, <1>8 DEF Open
  <2>3. Governed(K, 0, 1, r)
    BY <2>1, <2>2, Zenon DEF Governed
  <2> QED
    BY <1>7, <2>3 DEF GovernedAll
<1>13. Looped(K, Q, D, W, fr, fs, ac, 0)
  BY <1>9, <1>10, <1>11, <1>12, Zenon DEF Looped
<1> QED
  BY <1>1, <1>4, <1>13 DEF LoopsInv

LEMMA NextLoops ==
  ASSUME Inv, LoopsInv, [Next]_vars
  PROVE  LoopsInv'
<1>1. PICK C, B, V : IInv(C, B, V)
  BY DEF Inv
<1>2. Inv'
  BY NextInv
<1>3. CASE UNCHANGED <<frame, frames, acts, calls>>
  BY <1>3, StoppedTurns
<1>4. CASE UNCHANGED vars \/ Terminated
  BY <1>3, <1>4 DEF vars, Terminated
<1>5. CASE Step
  <2>1. CASE Child
    BY <1>1, <2>1, ChildTurns
  <2>2. CASE Return
    BY <1>1, <2>2, ReturnTurns
  <2>3. CASE Set
    BY <1>1, <2>3, SetTurns
  <2>4. CASE Narrow
    BY <1>1, <2>4, NarrowTurns
  <2>5. CASE Switch
    BY <1>1, <2>5, SwitchTurns
  <2>6. CASE IfUnknown
    BY <1>1, <2>6, IfUnknownTurns
  <2>7. CASE AssertType
    BY <1>1, <2>7, AssertTypeTurns
  <2>8. CASE Die
    BY <1>3, <2>8 DEF Die, Stop
  <2>9. CASE PushLocal
    BY <1>1, <1>2, <2>9, PushLocalTurns
  <2>10. CASE PushLexical
    BY <1>1, <1>2, <2>10, PushLexicalTurns
  <2>11. CASE PushPackageVariable
    BY <1>1, <1>2, <2>11, PushPackageVariableTurns
  <2>12. CASE FindName
    BY <1>1, <2>12, FindNameTurns
  <2>13. CASE AccessLexical
    BY <1>1, <1>2, <2>13, AccessLexicalTurns
  <2>14. CASE Emit
    BY <1>1, <1>2, <2>14, EmitTurns
  <2>15. CASE GetCode
    BY <1>1, <1>2, <2>15, GetCodeTurns
  <2>16. CASE PatchCode
    BY <1>1, <1>2, <2>16, PatchCodeTurns
  <2>17. CASE PushFrame
    BY <1>1, <2>17, PushFrameTurns
  <2>18. CASE PopFrame
    BY <1>1, <2>18, PopFrameTurns
  <2>19. CASE Goto
    BY <1>1, <1>2, <2>19, GotoTurns
  <2>20. CASE Branch
    BY <1>1, <1>2, <2>20, BranchTurns
  <2>21. CASE ParamOptional
    BY <1>1, <1>2, <2>21, ParamOptionalTurns
  <2>22. CASE PutLabel
    BY <1>1, <1>2, <2>22, PutLabelTurns
  <2>23. CASE LoopEnter
    BY <1>1, <2>23, LoopEnterTurns
  <2>24. CASE LoopMark
    BY <1>1, <2>24, LoopMarkTurns
  <2>25. CASE LoopLeave
    BY <1>1, <1>2, <2>25, LoopLeaveTurns
  <2>26. CASE Throw
    BY <1>1, <1>2, <2>26, ThrowTurns
  <2>27. CASE PrepArgs
    BY <1>1, <1>2, <2>27, PrepArgsTurns
  <2>28. CASE OpenClass
    BY <1>1, <2>28, OpenClassTurns
  <2>29. CASE CloseClass
    BY <1>1, <2>29, CloseClassTurns
  <2>30. CASE BindMethod
    BY <1>1, <2>30, BindMethodTurns
  <2>31. CASE Wval
    BY <1>1, <1>2, <2>31, WvalTurns
  <2>32. CASE Finalize
    BY <1>1, <2>32, FinalizeTurns
  <2> QED
    BY <1>5, <2>1, <2>2, <2>3, <2>4, <2>5, <2>6, <2>7, <2>8, <2>9, <2>10,
       <2>11, <2>12, <2>13, <2>14, <2>15, <2>16, <2>17, <2>18, <2>19, <2>20,
       <2>21, <2>22, <2>23, <2>24, <2>25, <2>26, <2>27, <2>28, <2>29, <2>30,
       <2>31, <2>32 DEF Step
<1> QED
  BY <1>4, <1>5 DEF Next

(* Where every throw goes, or will go once its loop ends, holds in every state *)
(* of a compilation, of any programs whose handlers keep both disciplines.      *)
THEOREM LoopsInvariance == Spec => []LoopsInv
<1>1. Init => LoopsInv
  BY InitLoops
<1>2. Inv /\ LoopsInv /\ [Next]_vars => LoopsInv'
  BY NextLoops
<1> QED
  BY <1>1, <1>2, Invariance, PTL DEF Spec
-----------------------------------------------------------------------------
(* What it says of the throws of module Codegen.                              *)

LEMMA FirstIsMin ==
  ASSUME NEW S \in SUBSET Int, NEW m \in S, \A k \in S : m <= k
  PROVE  SetMin(S) = m
<1>1. \A x \in S : (\A y \in S : x <= y) => x = m
  OBVIOUS
<1>2. PICK x : x = SetMin(S)
  OBVIOUS
<1>3. x \in S /\ \A y \in S : x <= y
  BY <1>2, Zenon DEF SetMin
<1> QED
  BY <1>1, <1>2, <1>3

LEMMA TakenFirst ==
  ASSUME NEW f, NEW hs, hs = frame[f].handlers, DOMAIN hs \subseteq Int, NEW op, NEW pc
  PROVE  /\ \A by : Taken(hs, op, pc, by) => /\ Taking(f, pc, op) # {}
                                           /\ FirstLoop(f, pc, op) = by
         /\ Uncaught(hs, op, pc) => Taking(f, pc, op) = {}
<1>1. PICK S : S = Taking(f, pc, op)
  OBVIOUS
<1>2. /\ \A k : k \in S <=> k \in DOMAIN hs /\ Handles(hs[k], op, pc)
      /\ S \in SUBSET Int
  BY <1>1 DEF Taking
<1>3. ASSUME NEW by, Taken(hs, op, pc, by)
      PROVE  S # {} /\ FirstLoop(f, pc, op) = by
  <2>1. PICK m : First(hs, op, pc, m) /\ hs[m].by = by
    BY <1>3 DEF Taken
  <2>2. m \in S /\ \A k \in S : m <= k
    BY <1>2, <2>1 DEF First
  <2>3. SetMin(S) = m
    BY <1>2, <2>2, FirstIsMin
  <2> QED
    BY <1>1, <2>1, <2>2, <2>3 DEF FirstLoop
<1>4. Uncaught(hs, op, pc) => S = {}
  BY <1>2 DEF Uncaught
<1> QED
  BY <1>1, <1>3, <1>4

(* No loop is in progress in a frame that is finished: the frame an activation *)
(* was called in is still on the stack.                                      *)
LEMMA NoneOpen ==
  ASSUME NEW C, NEW B, NEW V, IInv(C, B, V), NEW f, Finished(f),
         NEW K, NEW Q, NEW D, Seated(K, Q, D, frames, acts)
  PROVE  \A i : ~ Open(K, f, i)
<1> SUFFICES ASSUME NEW i, Open(K, f, i)
             PROVE  FALSE
  OBVIOUS
<1>1. i \in DOMAIN acts /\ Q[i] \in DOMAIN frames /\ frames[Q[i]] = f
  BY DEF Open, Seated
<1>2. status # "done"
  <2>1. status = "done" => acts = <<>>
    BY Zenon DEF IInv, StatusOK
  <2> QED
    BY <1>1, <2>1
<1> QED
  BY <1>1, <1>2 DEF Finished

LEMMA LoopsHold ==
  ASSUME NEW C, NEW B, NEW V, IInv(C, B, V), LoopsInv
  PROVE  ThrowsStayInTheirLoop
<1>1. PICK K, Q, D, W, fr, fs, ac, n :
        /\ fr = frame /\ fs = frames /\ ac = acts /\ n = calls
        /\ Looped(K, Q, D, W, fr, fs, ac, n)
  BY Zenon DEF LoopsInv
<1>2. ASSUME NEW f \in DOMAIN frame, Finished(f), NEW i \in DOMAIN frame[f].code,
             IsThrow(frame[f].code[i].op)
      PROVE  LET in  == frame[f].code[i]
                 own == \E k \in DOMAIN frame[f].handlers : frame[f].handlers[k].by = in.by
                 taking == Taking(f, in.at + 2, in.op)
             IN IF own THEN taking # {} /\ FirstLoop(f, in.at + 2, in.op) = in.by
                ELSE taking = {}
  <2>1. PICK r, in, hs, op, pc, by : /\ r = frame[f] /\ in = r.code[i] /\ hs = r.handlers
                                     /\ op = in.op /\ pc = in.at + 2 /\ by = in.by
    OBVIOUS
  <2>2. Governed(K, n, f, r)
    BY <1>1, <2>1 DEF Looped, GovernedAll
  <2>3. Settles(K, f, hs, op, pc, by)
    BY <1>2, <2>1, <2>2 DEF Governed, Point
  <2>4. \A j : ~ Open(K, f, j)
    BY <1>1, <1>2, NoneOpen DEF Looped
  <2>5. \/ Taken(hs, op, pc, by)
        \/ Uncaught(hs, op, pc) /\ \A k \in DOMAIN hs : hs[k].by # by
    BY <2>3, <2>4, Zenon DEF Settles, Awaited, Outside
  <2>6. DOMAIN hs \subseteq Int
    <3>1. r \in KijiFrame
      BY <2>1, Zenon DEF IInv, Filled, WellFormed
    <3> QED
      BY <2>1, <3>1, FrameFields
  <2>7. /\ Taken(hs, op, pc, by) => Taking(f, pc, op) # {} /\ FirstLoop(f, pc, op) = by
        /\ Uncaught(hs, op, pc) => Taking(f, pc, op) = {}
    <3>1. hs = frame[f].handlers
      BY <2>1
    <3> QED
      BY <2>6, <3>1, TakenFirst
  <2>8. Taken(hs, op, pc, by) => \E k \in DOMAIN hs : hs[k].by = by
    BY DEF Taken, First
  <2> QED
    BY <2>1, <2>5, <2>7, <2>8
<1> QED
  BY <1>2, Zenon DEF ThrowsStayInTheirLoop

(* A `next', `last' or `redo' is taken, within its own frame, by the loop that *)
(* encloses it most closely and by no other, and by none if that loop is not    *)
(* in the frame (loop.h, loop.c): for any trees and programs whose handlers     *)
(* keep the disciplines, with jumps as long as one likes.                      *)
THEOREM ThrowsStay == Spec => []ThrowsStayInTheirLoop
<1>1. Inv /\ LoopsInv => ThrowsStayInTheirLoop
  BY LoopsHold DEF Inv
<1> QED
  BY <1>1, Invariance, LoopsInvariance, PTL
=============================================================================
