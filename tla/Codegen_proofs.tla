--------------------------- MODULE Codegen_proofs ---------------------------
(***************************************************************************)
(* Proofs about Codegen, for every tree, every Word and every set of        *)
(* handlers that keeps the discipline of module Typing: the types, the       *)
(* registers and the jumps of the code that is generated.  First come what    *)
(* the invariant says of one frame record and of the values and labels of one  *)
(* activation, and what the assembler's operations do to it.                  *)
(***************************************************************************)
EXTENDS Typing, NatSets_proofs, SequenceTheorems, TLAPS

-----------------------------------------------------------------------------
IsSeq(s) == \E S : s \in Seq(S)

LEMMA SeqFields == ASSUME NEW s, IsSeq(s) PROVE DOMAIN s = 1..Len(s) /\ Len(s) \in Nat
BY LenProperties DEF IsSeq

LEMMA AppendSeq ==
  ASSUME NEW s, IsSeq(s), NEW e
  PROVE  /\ IsSeq(Append(s, e)) /\ Len(Append(s, e)) = Len(s) + 1 /\ Len(s) \in Nat
         /\ DOMAIN Append(s, e) = 1..(Len(s) + 1) /\ DOMAIN s = 1..Len(s)
         /\ \A i \in 1..Len(s) : Append(s, e)[i] = s[i]
         /\ Append(s, e)[Len(s) + 1] = e
<1>1. PICK S : s \in Seq(S)
  BY DEF IsSeq
<1>2. s \in Seq(S \cup {e}) /\ e \in S \cup {e}
  BY <1>1
<1> QED
  BY <1>1, <1>2, AppendProperties, LenProperties DEF IsSeq

LEMMA ExceptIsSeq ==
  ASSUME NEW s, IsSeq(s), NEW i \in DOMAIN s, NEW e
  PROVE  /\ IsSeq([s EXCEPT ![i] = e]) /\ Len([s EXCEPT ![i] = e]) = Len(s)
         /\ DOMAIN [s EXCEPT ![i] = e] = DOMAIN s
         /\ [s EXCEPT ![i] = e][i] = e
         /\ \A j \in DOMAIN s : j # i => [s EXCEPT ![i] = e][j] = s[j]
<1>1. PICK S : s \in Seq(S)
  BY DEF IsSeq
<1>2. s \in Seq(S \cup {e}) /\ e \in S \cup {e} /\ DOMAIN s = 1..Len(s) /\ Len(s) \in Nat
  BY <1>1
<1>3. [s EXCEPT ![i] = e] \in Seq(S \cup {e}) /\ Len([s EXCEPT ![i] = e]) = Len(s)
  BY <1>2, ExceptSeq
<1> QED
  BY <1>2, <1>3 DEF IsSeq

LEMMA FrontSeq ==
  ASSUME NEW s, IsSeq(s), s # <<>>
  PROVE  /\ IsSeq(SubSeq(s, 1, Len(s) - 1)) /\ Len(SubSeq(s, 1, Len(s) - 1)) = Len(s) - 1
         /\ DOMAIN SubSeq(s, 1, Len(s) - 1) = 1..(Len(s) - 1)
         /\ Len(s) \in Nat \ {0}
         /\ \A i \in 1..(Len(s) - 1) : SubSeq(s, 1, Len(s) - 1)[i] = s[i]
<1>1. PICK S : s \in Seq(S)
  BY DEF IsSeq
<1>2. Len(s) \in Nat \ {0}
  BY <1>1, EmptySeq, LenProperties
<1>3. \A i \in 1..(Len(s) - 1) : s[i] \in S
  BY <1>1, <1>2, ElementOfSeq
<1> DEFINE n == Len(s) - 1
<1>4. n \in Nat /\ n \in Int /\ 1 \in Int /\ \A i \in 1..n : s[i] \in S
  BY <1>2, <1>3
<1>5. Len(s) - 1 = n
  OBVIOUS
<1> HIDE DEF n
<1>6. /\ SubSeq(s, 1, n) \in Seq(S) /\ Len(SubSeq(s, 1, n)) = IF 1 <= n THEN n - 1 + 1 ELSE 0
      /\ \A i \in 1..(n - 1 + 1) : SubSeq(s, 1, n)[i] = s[1 + i - 1]
  BY <1>4, SubSeqProperties
<1>7. /\ SubSeq(s, 1, n) \in Seq(S) /\ Len(SubSeq(s, 1, n)) = n
      /\ \A i \in 1..n : SubSeq(s, 1, n)[i] = s[i]
  BY <1>4, <1>6
<1> QED
  BY <1>2, <1>7, <1>5, LenProperties DEF IsSeq

LEMMA U16Small ==
  ASSUME NEW x \in 0..(Word - 1)
  PROVE  U16(x) = x
BY WordAssumption DEF U16
LEMMA U16Nat ==
  ASSUME NEW x \in Int
  PROVE  U16(x) \in 0..(Word - 1)
BY WordAssumption DEF U16
-----------------------------------------------------------------------------
(* A frame record r.                                                        *)

Starts(r, x) == \E i \in DOMAIN r.code : r.code[i].at = x
Lands(r, x)  == x = r.bytecode_size \/ Starts(r, x)

(* Instructions and their slots come in the order of their offsets.          *)
Before(a, b) == a.at < b.at /\ a.slot < b.at
Within(a, size) == a.at < size /\ a.slot < size /\ (a.slot # 0 => a.at < a.slot)
Ordered(r) ==
  \A i \in DOMAIN r.code :
    /\ Within(r.code[i], r.bytecode_size)
    /\ \A j \in DOMAIN r.code : i < j => Before(r.code[i], r.code[j])

(* The register operands of an instruction are locals of the types it takes.  *)
IsLocal(r, x) == x \in 0..(Len(r.locals) - 1)
Fits(r, in) ==
  /\ \A j \in DOMAIN in.args : IsLocal(r, in.args[j])
  /\ [j \in DOMAIN in.args |-> r.locals[in.args[j] + 1]] \in Operands(in.op)
Fitting(r) == \A i \in DOMAIN r.code : Fits(r, r.code[i])

(* `next' resumes inside its loop and `last' after it.                       *)
Inside(h) == h.start_offset < h.goto_offset /\ h.goto_offset <= h.end_offset
Loops(r, h) == h.category # "redo" => Lands(r, h.goto_offset) /\ (Inside(h) <=> h.category = "next")
Looping(r) == \A k \in DOMAIN r.handlers : Loops(r, r.handlers[k])

WellFormed(r) ==
  r \in KijiFrame /\ Len(r.locals) < Word /\ Ordered(r) /\ Fitting(r) /\ Looping(r)

(* The address a branch jumps back to is written in 16 bits: it is lost when  *)
(* the handlers have such branches and the frame outgrows a uint16_t.         *)
ForwardOnly ==
  \A n \in DOMAIN Typings : \A t \in Typings[n] :
    t[1][1].op = "branch" => ~ IsPut(t[2], t[1][1].label)
Short(r) == ForwardOnly \/ r.bytecode_size <= Word

(* Its jumps land, or wait for a patch of a slot in P.                       *)
Settled(r, P) ==
  Short(r) => \A i \in DOMAIN r.code :
                IsJump(r.code[i].op) => Lands(r, r.code[i].target) \/ r.code[i].slot \in P

(* It ends with a return that nothing jumps past.                            *)
Complete(r, P) ==
  /\ r.code # <<>> /\ IsReturn(r.code[Len(r.code)].op)
  /\ Short(r) => \A i \in DOMAIN r.code :
                   IsJump(r.code[i].op) => Starts(r, r.code[i].target) \/ r.code[i].slot \in P
  /\ \A k \in DOMAIN r.handlers :
       r.handlers[k].category # "redo" => Starts(r, r.handlers[k].goto_offset)

(* What the operations other than Asm do to frame r.                         *)
Patched(r, slots, val)  == [r EXCEPT !.code = Patch(@, slots, val)]
WithLocal(r, type)      == [r EXCEPT !.locals = Append(@, type)]
WithNames(r, ls, vs)    == [r EXCEPT !.lexicals = ls, !.package_variables = vs]
WithHandlers(r, a, b, c) == [r EXCEPT !.handlers = @ \o <<a, b, c>>]

(* Frame s is frame r, some time later.                                      *)
Grows(r, s) ==
  /\ Len(r.locals) <= Len(s.locals)
  /\ \A i \in DOMAIN r.locals : s.locals[i] = r.locals[i]
  /\ Len(r.code) <= Len(s.code)
  /\ \A i \in DOMAIN r.code : /\ s.code[i].at = r.code[i].at /\ s.code[i].slot = r.code[i].slot
                              /\ s.code[i].op = r.code[i].op /\ s.code[i].args = r.code[i].args
  /\ r.bytecode_size <= s.bytecode_size
  /\ r.bytecode_size # s.bytecode_size => Starts(s, r.bytecode_size)
-----------------------------------------------------------------------------
(* The C locals lc of an activation, whose context has the kinds ks, where    *)
(* S gives the frame at each level and n is the number of frames.             *)

IsMark(k) == k.is \in {"here", "reached", "passed"}
FitsIn(x, k, r, n) ==
  /\ x \in Int
  /\ k.is = "unknown" => x = UNKNOWN_REG
  /\ k.is = "frame" => x \in 1..n
  /\ k.is = "register" => IsLocal(r, x) /\ r.locals[x + 1] = k.type
  /\ k.is = "operand" => \E i \in DOMAIN r.code : /\ r.code[i].slot = x /\ x # 0
                                                  /\ r.code[i].op = "getcode"
  /\ k.is = "start" => x \in Nat /\ x < r.bytecode_size
  /\ k.is = "here" => x = r.bytecode_size
  /\ k.is = "reached" => Lands(r, x)
  /\ k.is = "passed" => Starts(r, x)

Values(lc, ks, S, depth, n) ==
  /\ DOMAIN lc = DOMAIN ks
  /\ \A v \in DOMAIN ks : ks[v].level \in 0..depth /\ FitsIn(lc[v], ks[v], S[ks[v].level], n)
  /\ \A v \in DOMAIN ks : IsMark(ks[v]) => /\ "start_offset" \in DOMAIN ks
                                           /\ lc["start_offset"] < lc[v]

(* The labels lb of an activation, whose context has the labels ls.           *)
IsLabel(b, t, S, depth) ==
  /\ b \in [address : Int, reserved : SUBSET Nat]
  /\ t.state # "dead" => t.level \in 0..depth
  /\ t.state = "pending" => b.address = Unsolved
  /\ t.state = "solved" => b.address \in Nat /\ Lands(S[t.level], b.address)
Labels(lb, ls, S, depth) ==
  DOMAIN lb = DOMAIN ls /\ \A l \in DOMAIN ls : IsLabel(lb[l], ls[l], S, depth)

(* The slots that wait for the labels of a level.                            *)
Pending(lb, ls, level) ==
  {s \in Nat : \E l \in DOMAIN ls : ls[l] = Target("pending", level) /\ s \in lb[l].reserved}
-----------------------------------------------------------------------------
(* Frame records.                                                           *)

LEMMA FrameFields ==
  ASSUME NEW r \in KijiFrame
  PROVE  /\ r.outer \in Nat /\ r.code \in Seq(Instruction) /\ r.bytecode_size \in Nat
         /\ r.locals \in Seq(RegTypes) /\ r.lexicals \in Seq(STRING \X STRING)
         /\ r.package_variables \in SUBSET (STRING \X STRING)
         /\ r.handlers \in Seq(FrameHandler)
         /\ DOMAIN r.code = 1..Len(r.code) /\ Len(r.code) \in Nat
         /\ \A i \in DOMAIN r.code : r.code[i] \in Instruction
         /\ DOMAIN r.locals = 1..Len(r.locals) /\ Len(r.locals) \in Nat
         /\ DOMAIN r.handlers = 1..Len(r.handlers) /\ Len(r.handlers) \in Nat
         /\ \A k \in DOMAIN r.handlers : r.handlers[k] \in FrameHandler
<1>1. /\ r.outer \in Nat /\ r.code \in Seq(Instruction) /\ r.bytecode_size \in Nat
      /\ r.locals \in Seq(RegTypes) /\ r.lexicals \in Seq(STRING \X STRING)
      /\ r.package_variables \in SUBSET (STRING \X STRING)
      /\ r.handlers \in Seq(FrameHandler)
  BY DEF KijiFrame
<1> QED
  BY <1>1, LenProperties, ElementOfSeq

LEMMA IsFrame == ASSUME NEW r, WellFormed(r) PROVE r \in KijiFrame
BY DEF WellFormed

LEMMA InstructionFields ==
  ASSUME NEW in \in Instruction
  PROVE  /\ in.at \in Nat /\ in.op \in STRING /\ in.args \in Seq(Int) /\ in.slot \in Nat
         /\ in.target \in Int /\ in.extra \in Int /\ in.str \in STRING /\ in.by \in Nat
         /\ Len(in.args) \in Nat /\ DOMAIN in.args = 1..Len(in.args)
         /\ \A j \in DOMAIN in.args : in.args[j] \in Int
<1>1. /\ in.at \in Nat /\ in.op \in STRING /\ in.args \in Seq(Int) /\ in.slot \in Nat
      /\ in.target \in Int /\ in.extra \in Int /\ in.str \in STRING /\ in.by \in Nat
  BY DEF Instruction
<1> QED
  BY <1>1, LenProperties, ElementOfSeq

(* An instruction is appended.                                              *)
LEMMA AsmFrame ==
  ASSUME NEW r \in KijiFrame, NEW in \in Instruction, NEW imm \in Nat
  PROVE  LET s == Asm(r, in, imm) IN
         /\ s \in KijiFrame
         /\ s.code = Append(r.code, in)
         /\ s.bytecode_size = r.bytecode_size + 2 + 2 * Len(in.args) + imm
         /\ s.outer = r.outer /\ s.locals = r.locals /\ s.handlers = r.handlers
         /\ Len(s.code) = Len(r.code) + 1 /\ s.code[Len(s.code)] = in
         /\ \A i \in DOMAIN r.code : s.code[i] = r.code[i]
<1>1. Len(in.args) \in Nat
  BY InstructionFields
<1>2. /\ Append(r.code, in) \in Seq(Instruction)
      /\ Len(Append(r.code, in)) = Len(r.code) + 1 /\ Append(r.code, in)[Len(r.code) + 1] = in
      /\ \A i \in 1..Len(r.code) : Append(r.code, in)[i] = r.code[i]
  BY FrameFields, AppendProperties
<1>3. r.bytecode_size + 2 + 2 * Len(in.args) + imm \in Nat
  BY <1>1, FrameFields
<1> DEFINE C == Append(r.code, in)
           N == r.bytecode_size + 2 + 2 * Len(in.args) + imm
           s == [r EXCEPT !.code = C, !.bytecode_size = N]
<1>4. Asm(r, in, imm) = s
  BY DEF Asm
<1>5. C \in Seq(Instruction) /\ N \in Nat
  BY <1>2, <1>3
<1> HIDE DEF C, N
<1>6. /\ s \in KijiFrame /\ s.code = C /\ s.bytecode_size = N
      /\ s.outer = r.outer /\ s.locals = r.locals /\ s.handlers = r.handlers
  BY <1>5 DEF KijiFrame
<1> HIDE DEF s
<1> QED
  BY <1>2, <1>4, <1>6, FrameFields DEF C, N

LEMMA LandsStarts ==
  ASSUME NEW r, NEW s, Grows(r, s), r \in KijiFrame, s \in KijiFrame, NEW x
  PROVE  /\ Starts(r, x) => Starts(s, x)
         /\ Lands(r, x) => Lands(s, x)
         /\ Lands(r, x) /\ r.bytecode_size # s.bytecode_size => Starts(s, x)
<1>1. \A i \in DOMAIN r.code : i \in DOMAIN s.code /\ s.code[i].at = r.code[i].at
  BY FrameFields DEF Grows
<1>2. Starts(r, x) => Starts(s, x)
  BY <1>1 DEF Starts
<1> QED
  BY <1>2 DEF Lands, Grows

LEMMA GrowsSame == ASSUME NEW r \in KijiFrame PROVE Grows(r, r)
BY FrameFields DEF Grows

LEMMA ShortGrows ==
  ASSUME NEW r \in KijiFrame, NEW s \in KijiFrame, Grows(r, s), Short(s)
  PROVE  Short(r)
<1>1. r.bytecode_size \in Nat /\ s.bytecode_size \in Nat /\ r.bytecode_size <= s.bytecode_size
  BY FrameFields DEF Grows
<1> QED
  BY <1>1, WordAssumption DEF Short

LEMMA AsmGrows ==
  ASSUME NEW r \in KijiFrame, NEW in \in Instruction, NEW imm \in Nat, in.at = r.bytecode_size
  PROVE  LET s == Asm(r, in, imm)
         IN Grows(r, s) /\ Starts(s, r.bytecode_size) /\ r.bytecode_size < s.bytecode_size
<1> DEFINE s == Asm(r, in, imm)
<1>1. /\ s \in KijiFrame
      /\ s.bytecode_size = r.bytecode_size + 2 + 2 * Len(in.args) + imm
      /\ s.locals = r.locals
      /\ Len(s.code) = Len(r.code) + 1 /\ s.code[Len(s.code)] = in
      /\ \A i \in DOMAIN r.code : s.code[i] = r.code[i]
  BY AsmFrame
<1> HIDE DEF s
<1>2. Len(in.args) \in Nat /\ r.bytecode_size \in Nat /\ Len(r.code) \in Nat /\ Len(r.locals) \in Nat
  BY FrameFields, InstructionFields
<1>3. r.bytecode_size < s.bytecode_size
  BY <1>1, <1>2
<1>4. Len(s.code) \in DOMAIN s.code
  BY <1>1, <1>2, FrameFields
<1>5. Starts(s, r.bytecode_size)
  BY <1>1, <1>4 DEF Starts
<1>6. Grows(r, s)
  <2>1. Len(r.locals) <= Len(s.locals) /\ \A i \in DOMAIN r.locals : s.locals[i] = r.locals[i]
    BY <1>1, <1>2
  <2>2. Len(r.code) <= Len(s.code) /\ r.bytecode_size <= s.bytecode_size
    <3>1. Len(s.code) = Len(r.code) + 1 /\ s.bytecode_size = r.bytecode_size + 2 + 2 * Len(in.args) + imm
      BY <1>1, Zenon
    <3>2. Len(r.code) <= Len(s.code)
      BY <1>2, <3>1
    <3> QED
      BY <1>2, <3>1, <3>2
  <2>3. \A i \in DOMAIN r.code : /\ s.code[i].at = r.code[i].at /\ s.code[i].slot = r.code[i].slot
                                 /\ s.code[i].op = r.code[i].op /\ s.code[i].args = r.code[i].args
    BY <1>1
  <2> QED
    BY <1>5, <2>1, <2>2, <2>3 DEF Grows
<1> QED
  BY <1>3, <1>5, <1>6 DEF s

LEMMA FitsMore ==
  ASSUME NEW r \in KijiFrame, NEW s \in KijiFrame, Grows(r, s), NEW in \in Instruction, Fits(r, in)
  PROVE  Fits(s, in)
<1>1. \A x \in 0..(Len(r.locals) - 1) :
        x \in 0..(Len(s.locals) - 1) /\ x + 1 \in DOMAIN r.locals /\ s.locals[x + 1] = r.locals[x + 1]
  BY FrameFields DEF Grows
<1>2. \A j \in DOMAIN in.args : IsLocal(s, in.args[j]) /\ s.locals[in.args[j] + 1] = r.locals[in.args[j] + 1]
  BY <1>1 DEF Fits, IsLocal
<1>3. [j \in DOMAIN in.args |-> s.locals[in.args[j] + 1]]
      = [j \in DOMAIN in.args |-> r.locals[in.args[j] + 1]]
  BY <1>2
<1> QED
  BY <1>2, <1>3 DEF Fits

LEMMA LoopsMore ==
  ASSUME NEW r \in KijiFrame, NEW s \in KijiFrame, Grows(r, s), NEW h, Loops(r, h)
  PROVE  Loops(s, h)
BY LandsStarts DEF Loops

LEMMA AsmWellFormed ==
  ASSUME NEW r, WellFormed(r), NEW in \in Instruction, NEW imm \in Nat, in.at = r.bytecode_size,
         Within(in, Asm(r, in, imm).bytecode_size), Fits(r, in)
  PROVE  WellFormed(Asm(r, in, imm))
<1> DEFINE s == Asm(r, in, imm)
<1>1. /\ r \in KijiFrame /\ Len(r.locals) < Word /\ Ordered(r) /\ Fitting(r) /\ Looping(r)
  BY DEF WellFormed
<1>2. /\ s \in KijiFrame
      /\ s.locals = r.locals /\ s.handlers = r.handlers
      /\ Len(s.code) = Len(r.code) + 1 /\ s.code[Len(s.code)] = in
      /\ \A i \in DOMAIN r.code : s.code[i] = r.code[i]
      /\ Within(in, s.bytecode_size)
  BY <1>1, AsmFrame
<1>3. Grows(r, s) /\ r.bytecode_size < s.bytecode_size
  BY <1>1, AsmGrows
<1> HIDE DEF s
<1>4. DOMAIN r.code = 1..Len(r.code) /\ Len(r.code) \in Nat /\ DOMAIN s.code = 1..(Len(r.code) + 1)
  BY <1>1, <1>2, FrameFields
<1>5. Ordered(s)
  <2>1. \A i \in DOMAIN r.code : r.code[i].at \in Nat /\ r.code[i].slot \in Nat
    BY <1>1, FrameFields, InstructionFields
  <2>2. r.bytecode_size \in Nat /\ s.bytecode_size \in Nat
    BY <1>1, <1>2, FrameFields
  <2>3. ASSUME NEW i \in DOMAIN r.code
        PROVE  Within(s.code[i], s.bytecode_size) /\ Before(s.code[i], in)
    <3>1. PICK a : a = r.code[i]
      OBVIOUS
    <3>2. s.code[i] = a /\ a.at \in Nat /\ a.slot \in Nat
      BY <1>2, <2>1, <3>1
    <3>3. Within(a, r.bytecode_size)
      BY <1>1, <3>1 DEF Ordered
    <3> QED
      BY <1>1, <1>3, <2>2, <3>2, <3>3 DEF Within, Before
  <2>4. ASSUME NEW i \in DOMAIN s.code, NEW j \in DOMAIN s.code, i < j
        PROVE  Before(s.code[i], s.code[j])
    <3>1. i \in DOMAIN r.code
      BY <1>4, <2>4
    <3>2. CASE j = Len(s.code)
      BY <1>2, <2>3, <3>1, <3>2
    <3>3. CASE j # Len(s.code)
      <4>1. j \in DOMAIN r.code
        BY <1>2, <1>4, <3>3
      <4> QED
        BY <1>1, <1>2, <2>4, <3>1, <4>1 DEF Ordered
    <3> QED
      BY <3>2, <3>3
  <2>5. \A i \in DOMAIN s.code : Within(s.code[i], s.bytecode_size)
    BY <1>2, <1>4, <2>3
  <2> QED
    BY <2>4, <2>5 DEF Ordered
<1>6. Fitting(s)
  <2>1. \A i \in DOMAIN r.code : Fits(s, s.code[i])
    BY <1>1, <1>2, <1>3, FitsMore, FrameFields DEF Fitting
  <2>2. Fits(s, in)
    BY <1>1, <1>2, <1>3, FitsMore
  <2> QED
    BY <1>2, <1>4, <2>1, <2>2 DEF Fitting
<1>7. Looping(s)
  BY <1>1, <1>2, <1>3, LoopsMore DEF Looping
<1> QED
  BY <1>1, <1>2, <1>5, <1>6, <1>7 DEF WellFormed, s

(* After it, what landed on the end of the code starts an instruction.        *)
LEMMA AsmSettled ==
  ASSUME NEW r, WellFormed(r), NEW in \in Instruction, NEW imm \in Nat, in.at = r.bytecode_size,
         NEW P, NEW Q, P \subseteq Q, Settled(r, P),
         IsJump(in.op) /\ Short(Asm(r, in, imm)) => Lands(r, in.target) \/ in.slot \in Q
  PROVE  /\ Settled(Asm(r, in, imm), Q)
         /\ IsReturn(in.op) => Complete(Asm(r, in, imm), Q)
<1> DEFINE s == Asm(r, in, imm)
<1>1. r \in KijiFrame /\ Looping(r)
  BY DEF WellFormed
<1>2. /\ s \in KijiFrame
      /\ s.handlers = r.handlers
      /\ Len(s.code) = Len(r.code) + 1 /\ s.code[Len(s.code)] = in
      /\ \A i \in DOMAIN r.code : s.code[i] = r.code[i]
      /\ IsJump(in.op) /\ Short(s) => Lands(r, in.target) \/ in.slot \in Q
  BY <1>1, AsmFrame
<1>3. Grows(r, s) /\ r.bytecode_size < s.bytecode_size
  BY <1>1, AsmGrows
<1> HIDE DEF s
<1>4. DOMAIN r.code = 1..Len(r.code) /\ Len(r.code) \in Nat /\ DOMAIN s.code = 1..(Len(r.code) + 1)
  BY <1>1, <1>2, FrameFields
<1>5. r.bytecode_size # s.bytecode_size
  BY <1>1, <1>2, <1>3, FrameFields
<1>6. \A x : Lands(r, x) => Starts(s, x)
  BY <1>1, <1>2, <1>3, <1>5, LandsStarts
<1>7. ASSUME Short(s), NEW i \in DOMAIN s.code, IsJump(s.code[i].op)
      PROVE  Starts(s, s.code[i].target) \/ s.code[i].slot \in Q
  <2>1. CASE i = Len(s.code)
    BY <1>2, <1>6, <1>7, <2>1
  <2>2. CASE i # Len(s.code)
    <3>1. i \in DOMAIN r.code
      BY <1>2, <1>4, <2>2
    <3>2. Short(r)
      BY <1>1, <1>2, <1>3, <1>7, ShortGrows
    <3> QED
      BY <1>2, <1>6, <1>7, <3>1, <3>2 DEF Settled
  <2> QED
    BY <2>1, <2>2
<1>8. \A k \in DOMAIN s.handlers :
        s.handlers[k].category # "redo" => Starts(s, s.handlers[k].goto_offset)
  BY <1>1, <1>2, <1>6 DEF Looping, Loops
<1>9. s.code # <<>>
  BY <1>2, <1>4
<1> QED
  BY <1>2, <1>7, <1>8, <1>9 DEF Settled, Complete, Lands, s

(* A frame with more names or registers and the same code.                   *)
SameCode(r, s) ==
  /\ s.code = r.code /\ s.bytecode_size = r.bytecode_size /\ s.handlers = r.handlers
  /\ Len(r.locals) <= Len(s.locals) /\ \A i \in DOMAIN r.locals : s.locals[i] = r.locals[i]

LEMMA SameCodeFrame ==
  ASSUME NEW r, WellFormed(r), NEW s \in KijiFrame, SameCode(r, s), Len(s.locals) < Word
  PROVE  /\ WellFormed(s) /\ Grows(r, s)
         /\ \A P : (Settled(r, P) => Settled(s, P)) /\ (Complete(r, P) => Complete(s, P))
<1>1. r \in KijiFrame
  BY DEF WellFormed
<1>2. Grows(r, s)
  BY <1>1, FrameFields DEF Grows, SameCode
<1>3. Fitting(s)
  BY <1>1, <1>2, FitsMore, FrameFields DEF WellFormed, Fitting, SameCode
<1>4. Looping(s)
  BY <1>1, <1>2, LoopsMore DEF WellFormed, Looping, SameCode
<1>5. Ordered(s)
  BY DEF WellFormed, Ordered, SameCode
<1>6. \A x : Starts(r, x) => Starts(s, x)
  BY <1>1, <1>2, LandsStarts
<1>7. \A x : Lands(r, x) => Lands(s, x)
  BY <1>1, <1>2, LandsStarts
<1>8. Short(s) => Short(r)
  BY <1>1, <1>2, ShortGrows
<1>9. ASSUME NEW P, Settled(r, P) PROVE Settled(s, P)
  BY <1>7, <1>8, <1>9 DEF Settled, SameCode
<1>10. ASSUME NEW P, Complete(r, P) PROVE Complete(s, P)
  BY <1>6, <1>8, <1>10 DEF Complete, SameCode
<1> QED
  BY <1>2, <1>3, <1>4, <1>5, <1>9, <1>10 DEF WellFormed

LEMMA LocalFrame ==
  ASSUME NEW r, WellFormed(r), NEW type \in RegTypes, Len(r.locals) + 1 < Word
  PROVE  LET s == WithLocal(r, type) IN
         /\ WellFormed(s) /\ SameCode(r, s) /\ Grows(r, s)
         /\ s.outer = r.outer
         /\ Len(s.locals) = Len(r.locals) + 1 /\ s.locals[Len(r.locals) + 1] = type
         /\ \A P : (Settled(r, P) => Settled(s, P)) /\ (Complete(r, P) => Complete(s, P))
<1> DEFINE L == Append(r.locals, type)
           s == [r EXCEPT !.locals = L]
<1>1. r \in KijiFrame
  BY DEF WellFormed
<1>2. /\ L \in Seq(RegTypes) /\ Len(L) = Len(r.locals) + 1 /\ L[Len(r.locals) + 1] = type
      /\ \A i \in 1..Len(r.locals) : L[i] = r.locals[i]
  BY <1>1, FrameFields, AppendProperties
<1> HIDE DEF L
<1>3. /\ s \in KijiFrame /\ s.locals = L /\ s.outer = r.outer
      /\ s.code = r.code /\ s.bytecode_size = r.bytecode_size /\ s.handlers = r.handlers
  BY <1>1, <1>2 DEF KijiFrame
<1> HIDE DEF s
<1>4. SameCode(r, s)
  <2>1. DOMAIN r.locals = 1..Len(r.locals) /\ Len(r.locals) \in Nat
    BY <1>1, FrameFields
  <2> QED
    BY <1>2, <1>3, <2>1 DEF SameCode
<1>5. Len(s.locals) < Word
  BY <1>2, <1>3
<1>6. /\ WellFormed(s) /\ Grows(r, s)
      /\ \A P : (Settled(r, P) => Settled(s, P)) /\ (Complete(r, P) => Complete(s, P))
  BY <1>3, <1>4, <1>5, SameCodeFrame
<1> QED
  BY <1>2, <1>3, <1>4, <1>6 DEF s, L, WithLocal

LEMMA NamesFrame ==
  ASSUME NEW r, WellFormed(r), NEW ls \in Seq(STRING \X STRING), NEW vs \in SUBSET (STRING \X STRING)
  PROVE  LET s == WithNames(r, ls, vs) IN
         /\ WellFormed(s) /\ SameCode(r, s) /\ Grows(r, s) /\ s.outer = r.outer
         /\ \A P : (Settled(r, P) => Settled(s, P)) /\ (Complete(r, P) => Complete(s, P))
<1> DEFINE s == [r EXCEPT !.lexicals = ls, !.package_variables = vs]
<1>1. r \in KijiFrame
  BY DEF WellFormed
<1>2. /\ s \in KijiFrame /\ s.locals = r.locals /\ s.outer = r.outer
      /\ s.code = r.code /\ s.bytecode_size = r.bytecode_size /\ s.handlers = r.handlers
  BY <1>1 DEF KijiFrame
<1> HIDE DEF s
<1>3. SameCode(r, s)
  BY <1>1, <1>2, FrameFields DEF SameCode
<1>4. Len(s.locals) < Word
  BY <1>2 DEF WellFormed
<1>5. /\ WellFormed(s) /\ Grows(r, s)
      /\ \A P : (Settled(r, P) => Settled(s, P)) /\ (Complete(r, P) => Complete(s, P))
  BY <1>2, <1>3, <1>4, SameCodeFrame
<1> QED
  BY <1>2, <1>3, <1>5 DEF s, WithNames

(* Targets are patched.                                                     *)
LEMMA PatchFrame ==
  ASSUME NEW r, WellFormed(r), NEW slots, NEW val \in Int
  PROVE  LET s == Patched(r, slots, val) IN
         /\ WellFormed(s) /\ Grows(r, s) /\ s.outer = r.outer
         /\ s.bytecode_size = r.bytecode_size /\ s.handlers = r.handlers
         /\ DOMAIN s.code = DOMAIN r.code /\ Len(s.code) = Len(r.code)
         /\ \A i \in DOMAIN r.code :
              /\ s.code[i].op = r.code[i].op /\ s.code[i].slot = r.code[i].slot
              /\ s.code[i].target = IF r.code[i].slot \in slots THEN val ELSE r.code[i].target
<1> DEFINE C == Patch(r.code, slots, val)
           s == [r EXCEPT !.code = C]
<1>1. /\ r \in KijiFrame /\ Len(r.locals) < Word /\ Ordered(r) /\ Fitting(r) /\ Looping(r)
  BY DEF WellFormed
<1>2. \A i \in DOMAIN r.code : r.code[i] \in Instruction
  BY <1>1, FrameFields
<1>3. ASSUME NEW i \in DOMAIN r.code
      PROVE  /\ C[i] \in Instruction
             /\ C[i].at = r.code[i].at /\ C[i].slot = r.code[i].slot
             /\ C[i].op = r.code[i].op /\ C[i].args = r.code[i].args
             /\ C[i].target = IF r.code[i].slot \in slots THEN val ELSE r.code[i].target
  <2>1. C[i] = IF r.code[i].slot \in slots THEN [r.code[i] EXCEPT !.target = val] ELSE r.code[i]
    BY DEF Patch
  <2>2. r.code[i] \in Instruction
    BY <1>2
  <2> QED
    BY <2>1, <2>2 DEF Instruction
<1>4. DOMAIN C = 1..Len(r.code) /\ C = [i \in 1..Len(r.code) |-> C[i]] /\ Len(r.code) \in Nat
  BY <1>1, FrameFields DEF Patch
<1> HIDE DEF C
<1>5. C \in Seq(Instruction) /\ Len(C) = Len(r.code)
  <2>1. \A i \in 1..Len(r.code) : C[i] \in Instruction
    BY <1>1, <1>3, FrameFields
  <2>2. C \in [1..Len(r.code) -> Instruction]
    BY <1>4, <2>1
  <2>3. C \in Seq(Instruction)
    BY <1>4, <2>2, SeqDef
  <2> QED
    BY <1>4, <2>3, LenProperties
<1>6. /\ s \in KijiFrame /\ s.code = C /\ s.outer = r.outer /\ s.locals = r.locals
      /\ s.bytecode_size = r.bytecode_size /\ s.handlers = r.handlers
  BY <1>1, <1>5 DEF KijiFrame
<1> HIDE DEF s
<1>7. DOMAIN s.code = DOMAIN r.code
  BY <1>1, <1>4, <1>6, FrameFields
<1>8. \A i \in DOMAIN r.code :
        /\ s.code[i].at = r.code[i].at /\ s.code[i].slot = r.code[i].slot
        /\ s.code[i].op = r.code[i].op /\ s.code[i].args = r.code[i].args
  BY <1>3, <1>6
<1>9. Grows(r, s)
  BY <1>1, <1>5, <1>6, <1>8, FrameFields DEF Grows
<1>10. Ordered(s)
  BY <1>1, <1>6, <1>7, <1>8 DEF Ordered, Within, Before
<1>11. Fitting(s)
  <2>1. ASSUME NEW i \in DOMAIN r.code PROVE Fits(s, s.code[i])
    <3>1. Fits(s, r.code[i])
      BY <1>1, <1>2, <1>6, <1>9, FitsMore DEF Fitting
    <3> QED
      BY <1>8, <3>1 DEF Fits
  <2> QED
    BY <1>7, <2>1 DEF Fitting
<1>12. Looping(s)
  BY <1>1, <1>6, <1>9, LoopsMore DEF Looping
<1>13. WellFormed(s)
  BY <1>1, <1>6, <1>10, <1>11, <1>12 DEF WellFormed
<1> QED
  BY <1>3, <1>5, <1>6, <1>7, <1>8, <1>9, <1>13 DEF s, C, Patched

(* Jumps are patched to the end of the code.                                 *)
LEMMA PatchedSettled ==
  ASSUME NEW r, WellFormed(r), NEW slots, NEW P, NEW Q, Settled(r, P),
         \A x \in P : x \in slots \/ x \in Q
  PROVE  Settled(Patched(r, slots, r.bytecode_size), Q)
<1> DEFINE s == Patched(r, slots, r.bytecode_size)
<1>1. r \in KijiFrame /\ r.bytecode_size \in Int
  BY FrameFields DEF WellFormed
<1>2. /\ WellFormed(s) /\ Grows(r, s) /\ s.bytecode_size = r.bytecode_size
      /\ DOMAIN s.code = DOMAIN r.code
      /\ \A i \in DOMAIN r.code :
           /\ s.code[i].op = r.code[i].op /\ s.code[i].slot = r.code[i].slot
           /\ s.code[i].target = IF r.code[i].slot \in slots THEN r.bytecode_size
                                                             ELSE r.code[i].target
  BY <1>1, PatchFrame
<1> HIDE DEF s
<1>3. s \in KijiFrame
  BY <1>2, IsFrame
<1>4. ASSUME Short(s), NEW i \in DOMAIN s.code, IsJump(s.code[i].op)
      PROVE  Lands(s, s.code[i].target) \/ s.code[i].slot \in Q
  <2>1. CASE r.code[i].slot \in slots
    BY <1>2, <1>4, <2>1 DEF Lands
  <2>2. CASE r.code[i].slot \notin slots
    <3>1. Short(r)
      BY <1>1, <1>2, <1>3, <1>4, ShortGrows
    <3>2. Lands(r, r.code[i].target) \/ r.code[i].slot \in P
      BY <1>2, <1>4, <3>1 DEF Settled
    <3> QED
      BY <1>1, <1>2, <1>4, <1>3, <2>2, <3>2, LandsStarts
  <2> QED
    BY <2>1, <2>2
<1> QED
  BY <1>4 DEF Settled, s

(* The offset of an operand belongs to one instruction.                       *)
LEMMA OneSlot ==
  ASSUME NEW r, WellFormed(r), NEW i \in DOMAIN r.code, NEW j \in DOMAIN r.code,
         r.code[i].slot = r.code[j].slot, r.code[i].slot # 0
  PROVE  i = j
<1>1. r \in KijiFrame /\ Ordered(r)
  BY DEF WellFormed
<1>2. i \in Nat /\ j \in Nat
  BY <1>1, FrameFields
<1>3. /\ r.code[i].at \in Nat /\ r.code[i].slot \in Nat
      /\ r.code[j].at \in Nat /\ r.code[j].slot \in Nat
  BY <1>1, FrameFields, InstructionFields
<1>4. ~ (i < j)
  BY <1>1, <1>3 DEF Ordered, Within, Before
<1>5. ~ (j < i)
  BY <1>1, <1>3 DEF Ordered, Within, Before
<1> QED
  BY <1>2, <1>4, <1>5

(* Operands of other instructions are patched.                               *)
LEMMA PatchedOther ==
  ASSUME NEW r, WellFormed(r), NEW slots, NEW val \in Int, NEW P,
         \A i \in DOMAIN r.code : r.code[i].slot \in slots => ~ IsJump(r.code[i].op)
  PROVE  LET s == Patched(r, slots, val) IN
         /\ Settled(r, P) => Settled(s, P)
         /\ Complete(r, P) => Complete(s, P)
<1> DEFINE s == Patched(r, slots, val)
<1>1. r \in KijiFrame
  BY DEF WellFormed
<1>2. /\ WellFormed(s) /\ Grows(r, s) /\ s.handlers = r.handlers
      /\ DOMAIN s.code = DOMAIN r.code /\ Len(s.code) = Len(r.code)
      /\ \A i \in DOMAIN r.code :
           /\ s.code[i].op = r.code[i].op /\ s.code[i].slot = r.code[i].slot
           /\ s.code[i].target = IF r.code[i].slot \in slots THEN val ELSE r.code[i].target
  BY PatchFrame
<1> HIDE DEF s
<1>3. s \in KijiFrame
  BY <1>2, IsFrame
<1>4. \A x : (Lands(r, x) => Lands(s, x)) /\ (Starts(r, x) => Starts(s, x))
  BY <1>1, <1>2, <1>3, LandsStarts
<1>5. Short(s) => Short(r)
  BY <1>1, <1>2, <1>3, ShortGrows
<1>6. \A i \in DOMAIN r.code : IsJump(s.code[i].op) => /\ IsJump(r.code[i].op)
                                                       /\ s.code[i].target = r.code[i].target
                                                       /\ s.code[i].slot = r.code[i].slot
  BY <1>2
<1>7. Settled(r, P) => Settled(s, P)
  BY <1>2, <1>4, <1>5, <1>6 DEF Settled
<1>8. ASSUME Complete(r, P) PROVE Complete(s, P)
  <2>1. r.code # <<>> /\ Len(r.code) \in Nat /\ DOMAIN r.code = 1..Len(r.code)
    BY <1>1, <1>8, FrameFields DEF Complete
  <2>2. Len(r.code) \in DOMAIN r.code
    BY <1>1, <2>1, FrameFields, EmptySeq
  <2>3. s.code # <<>> /\ IsReturn(s.code[Len(s.code)].op)
    BY <1>2, <1>8, <2>2 DEF Complete
  <2> QED
    BY <1>2, <1>4, <1>5, <1>6, <1>8, <2>3 DEF Complete
<1> QED
  BY <1>7, <1>8 DEF s

(* Handlers are pushed.                                                     *)
LEMMA HandlersFrame ==
  ASSUME NEW r, WellFormed(r), NEW a \in FrameHandler, NEW b \in FrameHandler, NEW c \in FrameHandler,
         Loops(r, a), Loops(r, b), Loops(r, c)
  PROVE  LET s == WithHandlers(r, a, b, c) IN
         /\ WellFormed(s) /\ Grows(r, s) /\ s.bytecode_size = r.bytecode_size /\ s.outer = r.outer
         /\ \A P : Settled(r, P) => Settled(s, P)
<1> DEFINE H == r.handlers \o <<a, b, c>>
           s == [r EXCEPT !.handlers = H]
<1>1. r \in KijiFrame
  BY DEF WellFormed
<1>2. /\ H \in Seq(FrameHandler)
      /\ \A k \in DOMAIN H : (k \in DOMAIN r.handlers /\ H[k] = r.handlers[k]) \/ H[k] \in {a, b, c}
  <2>1. r.handlers \in Seq(FrameHandler) /\ <<a, b, c>> \in Seq(FrameHandler)
    BY <1>1, FrameFields
  <2>2. Len(<<a, b, c>>) = 3
    OBVIOUS
  <2>3. /\ H \in Seq(FrameHandler) /\ Len(H) = Len(r.handlers) + 3
        /\ \A i \in 1..Len(r.handlers) : H[i] = r.handlers[i]
        /\ \A i \in (Len(r.handlers) + 1)..(Len(r.handlers) + 3) : H[i] = <<a, b, c>>[i - Len(r.handlers)]
    BY <2>1, <2>2, ConcatProperties
  <2>4. DOMAIN H = 1..(Len(r.handlers) + 3) /\ DOMAIN r.handlers = 1..Len(r.handlers) /\ Len(r.handlers) \in Nat
    BY <2>1, <2>3, LenProperties
  <2> HIDE DEF H
  <2>5. \A j \in 1..3 : <<a, b, c>>[j] \in {a, b, c}
    OBVIOUS
  <2> QED
    BY <2>3, <2>4, <2>5, SMTT(30)
<1> HIDE DEF H
<1>3. /\ s \in KijiFrame /\ s.handlers = H /\ s.outer = r.outer /\ s.locals = r.locals
      /\ s.code = r.code /\ s.bytecode_size = r.bytecode_size
  BY <1>1, <1>2 DEF KijiFrame
<1> HIDE DEF s
<1>4. Grows(r, s)
  <2>1. Len(r.locals) <= Len(s.locals) /\ Len(r.code) <= Len(s.code) /\ r.bytecode_size <= s.bytecode_size
    BY <1>1, <1>3, FrameFields
  <2> QED
    BY <1>3, <2>1 DEF Grows
<1>5. Looping(s)
  <2>1. \A h \in {a, b, c} : Loops(s, h)
    BY <1>1, <1>3, <1>4, LoopsMore
  <2>2. \A k \in DOMAIN r.handlers : Loops(s, r.handlers[k])
    BY <1>1, <1>3, <1>4, LoopsMore DEF WellFormed, Looping
  <2> QED
    BY <1>2, <1>3, <2>1, <2>2 DEF Looping
<1>6. Ordered(s) /\ Fitting(s) /\ Len(s.locals) < Word
  BY <1>3 DEF WellFormed, Ordered, Fitting, Fits, IsLocal
<1>7. \A P : Settled(r, P) => Settled(s, P)
  BY <1>3 DEF Settled, Short, Lands, Starts
<1> QED
  BY <1>3, <1>4, <1>5, <1>6, <1>7 DEF WellFormed, s, H, WithHandlers

LEMMA FreshFrame ==
  ASSUME NEW outer \in Nat
  PROVE  /\ WellFormed(NewFrame(outer)) /\ NewFrame(outer).outer = outer
         /\ \A P : Settled(NewFrame(outer), P)
<1> DEFINE s == NewFrame(outer)
<1>1. s \in KijiFrame /\ s.code = <<>> /\ s.locals = <<>> /\ s.handlers = <<>> /\ s.outer = outer
  BY DEF NewFrame, KijiFrame
<1>2. DOMAIN s.code = {} /\ DOMAIN s.handlers = {} /\ Len(s.locals) = 0
  BY <1>1
<1> HIDE DEF s
<1>3. WellFormed(s)
  BY <1>1, <1>2, WordAssumption DEF WellFormed, Ordered, Fitting, Looping
<1>4. \A P : Settled(s, P)
  BY <1>2 DEF Settled
<1> QED
  BY <1>1, <1>3, <1>4 DEF s
-----------------------------------------------------------------------------
(* Values.                                                                  *)

NoneHere(ks, level) == \A v \in DOMAIN ks : ~ (ks[v].level = level /\ ks[v].is = "here")

LEMMA FitsLater ==
  ASSUME NEW r \in KijiFrame, NEW s \in KijiFrame, Grows(r, s), NEW n \in Nat, NEW m \in Nat, n <= m,
         NEW x, NEW k, FitsIn(x, k, r, n),
         s.bytecode_size = r.bytecode_size \/ k.is # "here"
  PROVE  FitsIn(x, k, s, m)
<1>1. k.is = "register" => IsLocal(s, x) /\ s.locals[x + 1] = k.type
  <2>1. \A y \in 0..(Len(r.locals) - 1) :
          y \in 0..(Len(s.locals) - 1) /\ y + 1 \in DOMAIN r.locals /\ s.locals[y + 1] = r.locals[y + 1]
    BY FrameFields DEF Grows
  <2> QED
    BY <2>1 DEF FitsIn, IsLocal
<1>2. k.is = "operand" => \E i \in DOMAIN s.code : /\ s.code[i].slot = x /\ x # 0
                                                   /\ s.code[i].op = "getcode"
  <2>1. \A i \in DOMAIN r.code : /\ i \in DOMAIN s.code /\ s.code[i].slot = r.code[i].slot
                                 /\ s.code[i].op = r.code[i].op
    BY FrameFields DEF Grows
  <2> QED
    BY <2>1 DEF FitsIn
<1>3. k.is = "start" => x \in Nat /\ x < s.bytecode_size
  <2>1. r.bytecode_size \in Nat /\ s.bytecode_size \in Nat /\ r.bytecode_size <= s.bytecode_size
    BY FrameFields DEF Grows
  <2> QED
    BY <2>1 DEF FitsIn
<1>4. (k.is = "reached" => Lands(s, x)) /\ (k.is = "passed" => Starts(s, x))
  BY LandsStarts DEF FitsIn
<1>5. k.is = "frame" => x \in 1..m
  BY DEF FitsIn
<1> QED
  BY <1>1, <1>2, <1>3, <1>4, <1>5 DEF FitsIn

(* What ended the code starts an instruction once it goes on.                *)
LEMMA FitsPast ==
  ASSUME NEW r \in KijiFrame, NEW s \in KijiFrame, Grows(r, s), NEW n \in Nat,
         r.bytecode_size # s.bytecode_size, NEW x, NEW k, FitsIn(x, k, r, n)
  PROVE  FitsIn(x, Past(k, k.level), s, n)
<1>1. CASE k.is \in {"here", "reached"}
  <2>1. Past(k, k.level) = Mark("passed", k.level)
    BY <1>1 DEF Past
  <2>2. Lands(r, x) /\ x \in Int
    BY <1>1 DEF FitsIn, Lands
  <2>3. Starts(s, x)
    BY <2>2, LandsStarts
  <2> QED
    BY <2>1, <2>2, <2>3 DEF FitsIn, Mark, Kind
<1>2. CASE k.is \notin {"here", "reached"}
  <2>1. Past(k, k.level) = k
    BY <1>2 DEF Past
  <2> QED
    BY <1>2, <2>1, FitsLater
<1> QED
  BY <1>1, <1>2

LEMMA ValuesLater ==
  ASSUME NEW d \in Nat, NEW n \in Nat, NEW m \in Nat, n <= m,
         NEW lc, NEW ks, NEW S, NEW T, Values(lc, ks, S, d, n),
         \A l \in 0..d : /\ S[l] \in KijiFrame /\ T[l] \in KijiFrame /\ Grows(S[l], T[l])
                         /\ T[l].bytecode_size = S[l].bytecode_size \/ NoneHere(ks, l)
  PROVE  Values(lc, ks, T, d, m)
<1>1. ASSUME NEW v \in DOMAIN ks
      PROVE  ks[v].level \in 0..d /\ FitsIn(lc[v], ks[v], T[ks[v].level], m)
  <2>1. ks[v].level \in 0..d /\ FitsIn(lc[v], ks[v], S[ks[v].level], n)
    BY DEF Values
  <2>2. T[ks[v].level].bytecode_size = S[ks[v].level].bytecode_size \/ ks[v].is # "here"
    BY <2>1 DEF NoneHere
  <2> QED
    BY <2>1, <2>2, FitsLater
<1> QED
  BY <1>1 DEF Values

LEMMA ValuesPast ==
  ASSUME NEW d \in Nat, NEW n \in Nat,
         NEW lc, NEW ks, NEW S, NEW T, Values(lc, ks, S, d, n),
         \A l \in 0..d : l # d => T[l] = S[l],
         S[d] \in KijiFrame, T[d] \in KijiFrame, Grows(S[d], T[d]),
         S[d].bytecode_size # T[d].bytecode_size
  PROVE  Values(lc, [v \in DOMAIN ks |-> Past(ks[v], d)], T, d, n)
<1> DEFINE ls == [v \in DOMAIN ks |-> Past(ks[v], d)]
<1>1. ASSUME NEW v \in DOMAIN ks
      PROVE  /\ ls[v].level = ks[v].level /\ (IsMark(ls[v]) => IsMark(ks[v]))
             /\ FitsIn(lc[v], ls[v], T[ks[v].level], n) /\ ks[v].level \in 0..d
             /\ "start_offset" \in DOMAIN ks => "start_offset" \in DOMAIN ls
  <2>1. ks[v].level \in 0..d /\ FitsIn(lc[v], ks[v], S[ks[v].level], n)
    BY DEF Values
  <2>2. CASE ks[v].level = d
    <3>1. FitsIn(lc[v], Past(ks[v], d), T[d], n)
      BY <2>1, <2>2, FitsPast
    <3> QED
      BY <2>1, <2>2, <3>1 DEF Past, Mark, Kind, IsMark
  <2>3. CASE ks[v].level # d
    <3>1. Past(ks[v], d) = ks[v] /\ T[ks[v].level] = S[ks[v].level]
      BY <2>1, <2>3 DEF Past
    <3> QED
      BY <2>1, <3>1
  <2> QED
    BY <2>2, <2>3
<1>2. DOMAIN ls = DOMAIN ks
  OBVIOUS
<1> HIDE DEF ls
<1>3. Values(lc, ls, T, d, n)
  BY <1>1, <1>2 DEF Values
<1> QED
  BY <1>3 DEF ls

(* Nothing is known of what ended the code when more of it may have come.     *)
LEMMA ValuesWait ==
  ASSUME NEW d \in Nat, NEW n \in Nat, NEW lc, NEW ks, NEW S, Values(lc, ks, S, d, n)
  PROVE  LET ls == [v \in DOMAIN ks |-> Later(ks[v], d)]
         IN Values(lc, ls, S, d, n) /\ NoneHere(ls, d)
<1> DEFINE ls == [v \in DOMAIN ks |-> Later(ks[v], d)]
<1>1. ASSUME NEW v \in DOMAIN ks
      PROVE  /\ ls[v].level = ks[v].level /\ (IsMark(ls[v]) => IsMark(ks[v]))
             /\ FitsIn(lc[v], ls[v], S[ks[v].level], n) /\ ks[v].level \in 0..d
             /\ ~ (ls[v].level = d /\ ls[v].is = "here")
  <2>1. ks[v].level \in 0..d /\ FitsIn(lc[v], ks[v], S[ks[v].level], n)
    BY DEF Values
  <2>2. CASE ks[v].level = d /\ ks[v].is = "here"
    <3>1. ls[v] = Mark("reached", d)
      BY <2>2 DEF Later
    <3> QED
      BY <2>1, <2>2, <3>1 DEF Mark, Kind, IsMark, FitsIn, Lands
  <2>3. CASE ~ (ks[v].level = d /\ ks[v].is = "here")
    BY <2>1, <2>3 DEF Later
  <2> QED
    BY <2>2, <2>3
<1>2. DOMAIN ls = DOMAIN ks
  OBVIOUS
<1> HIDE DEF ls
<1>3. Values(lc, ls, S, d, n)
  BY <1>1, <1>2 DEF Values
<1>4. NoneHere(ls, d)
  BY <1>1, <1>2 DEF NoneHere
<1> QED
  BY <1>3, <1>4 DEF ls

(* A local is assigned.                                                     *)
LEMMA ValuesGets ==
  ASSUME NEW d \in Nat, NEW n \in Nat, NEW lc, NEW ks, NEW S, Values(lc, ks, S, d, n),
         NEW v, NEW x, NEW k, v # "start_offset" \/ v \notin DOMAIN ks,
         k.level \in 0..d, FitsIn(x, k, S[k.level], n),
         IsMark(k) => /\ v # "start_offset" /\ "start_offset" \in DOMAIN ks
                      /\ lc["start_offset"] < x
  PROVE  Values(Assign(lc, v, x), Assign(ks, v, k), S, d, n)
<1> DEFINE lc2 == Assign(lc, v, x)
           ks2 == Assign(ks, v, k)
<1>1. /\ DOMAIN lc2 = DOMAIN lc \cup {v} /\ DOMAIN ks2 = DOMAIN ks \cup {v} /\ DOMAIN lc = DOMAIN ks
      /\ lc2[v] = x /\ ks2[v] = k
      /\ \A w \in DOMAIN ks : w # v => lc2[w] = lc[w] /\ ks2[w] = ks[w]
  BY DEF Assign, Values
<1> HIDE DEF lc2, ks2
<1>2. ASSUME NEW w \in DOMAIN ks2
      PROVE  ks2[w].level \in 0..d /\ FitsIn(lc2[w], ks2[w], S[ks2[w].level], n)
  <2>1. CASE w = v
    BY <1>1, <2>1
  <2>2. CASE w # v
    BY <1>1, <2>2 DEF Values
  <2> QED
    BY <2>1, <2>2
<1>3. ASSUME NEW w \in DOMAIN ks2, IsMark(ks2[w])
      PROVE  "start_offset" \in DOMAIN ks2 /\ lc2["start_offset"] < lc2[w]
  <2>1. CASE w = v
    BY <1>1, <1>3, <2>1
  <2>2. CASE w # v
    <3>1. "start_offset" \in DOMAIN ks /\ lc["start_offset"] < lc[w]
      BY <1>1, <1>3, <2>2 DEF Values
    <3> QED
      BY <1>1, <2>2, <3>1
  <2> QED
    BY <2>1, <2>2
<1>4. DOMAIN lc2 = DOMAIN ks2
  BY <1>1
<1> QED
  BY <1>2, <1>3, <1>4 DEF Values, lc2, ks2

(* A frame is pushed, or popped.                                            *)
LEMMA ValuesDeeper ==
  ASSUME NEW d \in Nat, NEW n \in Nat, NEW m \in Nat, n <= m,
         NEW lc, NEW ks, NEW S, NEW T, Values(lc, ks, S, d, n),
         \A l \in 0..d : T[l] = S[l]
  PROVE  Values(lc, ks, T, d + 1, m)
<1>1. ASSUME NEW v \in DOMAIN ks
      PROVE  ks[v].level \in 0..(d + 1) /\ FitsIn(lc[v], ks[v], T[ks[v].level], m)
  <2>1. ks[v].level \in 0..d /\ FitsIn(lc[v], ks[v], S[ks[v].level], n)
    BY DEF Values
  <2>2. FitsIn(lc[v], ks[v], S[ks[v].level], m)
    BY <2>1 DEF FitsIn
  <2> QED
    BY <2>1, <2>2
<1> QED
  BY <1>1 DEF Values

LEMMA ValuesGone ==
  ASSUME NEW d \in Nat, d > 0, NEW n \in Nat,
         NEW lc, NEW ks, NEW S, NEW T, Values(lc, ks, S, d, n),
         \A l \in 0..(d - 1) : T[l] = S[l]
  PROVE  Values(lc, [v \in DOMAIN ks |-> Gone(ks[v], d)], T, d - 1, n)
<1> DEFINE ls == [v \in DOMAIN ks |-> Gone(ks[v], d)]
<1>1. ASSUME NEW v \in DOMAIN ks
      PROVE  /\ IsMark(ls[v]) => IsMark(ks[v])
             /\ ls[v].level \in 0..(d - 1) /\ FitsIn(lc[v], ls[v], T[ls[v].level], n)
  <2>1. ks[v].level \in 0..d /\ FitsIn(lc[v], ks[v], S[ks[v].level], n)
    BY DEF Values
  <2>2. CASE ks[v].level = d
    <3>1. ls[v] = Integer
      BY <2>2 DEF Gone
    <3> QED
      BY <2>1, <3>1 DEF Integer, Kind, IsMark, FitsIn
  <2>3. CASE ks[v].level # d
    <3>1. ls[v] = ks[v] /\ ks[v].level \in 0..(d - 1)
      BY <2>1, <2>3 DEF Gone
    <3> QED
      BY <2>1, <3>1
  <2> QED
    BY <2>2, <2>3
<1>2. DOMAIN ls = DOMAIN ks
  OBVIOUS
<1> HIDE DEF ls
<1>3. Values(lc, ls, T, d - 1, n)
  BY <1>1, <1>2 DEF Values
<1> QED
  BY <1>3 DEF ls
-----------------------------------------------------------------------------
(* Labels.                                                                  *)

LEMMA LabelsLater ==
  ASSUME NEW d \in Nat, NEW e \in Nat, d <= e, NEW lb, NEW ls, NEW S, NEW T, Labels(lb, ls, S, d),
         \A l \in 0..d : S[l] \in KijiFrame /\ T[l] \in KijiFrame /\ Grows(S[l], T[l])
  PROVE  Labels(lb, ls, T, e)
<1>1. ASSUME NEW l \in DOMAIN ls
      PROVE  IsLabel(lb[l], ls[l], T, e)
  <2>1. IsLabel(lb[l], ls[l], S, d)
    BY DEF Labels
  <2>2. ls[l].state = "solved" => Lands(T[ls[l].level], lb[l].address)
    <3>1. ls[l].state = "solved" => ls[l].level \in 0..d /\ Lands(S[ls[l].level], lb[l].address)
      BY <2>1 DEF IsLabel
    <3> QED
      BY <3>1, LandsStarts
  <2> QED
    BY <2>1, <2>2 DEF IsLabel
<1> QED
  BY <1>1 DEF Labels

(* A jump to a label.                                                       *)
LEMMA LabelsReserve ==
  ASSUME NEW d \in Nat, NEW ls, NEW S, Labels(lab, ls, S, d), NEW l, NEW pos \in Nat,
         l \notin DOMAIN ls \/ ls[l] = Target("pending", d) \/ ls[l] = Target("solved", d)
  PROVE  LET lb2 == Reserve(l, pos)
             ls2 == IF l \notin DOMAIN ls THEN Assign(ls, l, Target("pending", d)) ELSE ls
         IN /\ Labels(lb2, ls2, S, d)
            /\ \A level : Pending(lab, ls, level) \subseteq Pending(lb2, ls2, level)
            /\ Label(l).address \in Int
            /\ \/ pos \in Pending(lb2, ls2, d)
               \/ /\ l \in DOMAIN ls /\ ls[l] = Target("solved", d)
                  /\ Label(l).address \in Nat /\ Lands(S[d], Label(l).address)
<1> DEFINE lb2 == Reserve(l, pos)
           ls2 == IF l \notin DOMAIN ls THEN Assign(ls, l, Target("pending", d)) ELSE ls
<1>1. DOMAIN lab = DOMAIN ls /\ \A m \in DOMAIN ls : IsLabel(lab[m], ls[m], S, d)
  BY DEF Labels
<1>2. CASE l \in DOMAIN ls /\ ls[l] = Target("solved", d)
  <2>1. Label(l) = lab[l] /\ ls[l].state = "solved" /\ ls[l].level = d
    BY <1>1, <1>2 DEF Label, Target
  <2>2. Label(l).address \in Nat /\ Lands(S[d], Label(l).address)
    BY <1>1, <1>2, <2>1 DEF IsLabel
  <2>3. lb2 = lab /\ ls2 = ls
    BY <1>2, <2>2 DEF Reserve, IsSolved, Unsolved
  <2> QED
    BY <1>2, <2>2, <2>3
<1>3. CASE l \notin DOMAIN ls \/ ls[l] = Target("pending", d)
  <2> DEFINE new == [Label(l) EXCEPT !.reserved = @ \cup {pos}]
  <2>1. /\ Label(l) \in [address : Int, reserved : SUBSET Nat] /\ Label(l).address = Unsolved
        /\ l \in DOMAIN ls => Label(l) = lab[l]
    <3>1. CASE l \in DOMAIN ls
      <4>1. Label(l) = lab[l] /\ ls[l].state = "pending"
        BY <1>1, <1>3, <3>1 DEF Label, Target
      <4> QED
        BY <1>1, <3>1, <4>1 DEF IsLabel
    <3>2. CASE l \notin DOMAIN ls
      BY <1>1, <3>2 DEF Label, Unsolved
    <3> QED
      BY <3>1, <3>2
  <2>2. /\ new \in [address : Int, reserved : SUBSET Nat] /\ new.address = Unsolved
        /\ new.reserved = Label(l).reserved \cup {pos}
    BY <2>1
  <2>3. lb2 = Assign(lab, l, new)
    BY <2>1 DEF Reserve, IsSolved
  <2> HIDE DEF new
  <2>4. /\ DOMAIN lb2 = DOMAIN ls \cup {l} /\ lb2[l] = new
        /\ \A m \in DOMAIN ls : m # l => lb2[m] = lab[m]
    BY <1>1, <2>3 DEF Assign
  <2>5. /\ DOMAIN ls2 = DOMAIN ls \cup {l} /\ ls2[l] = Target("pending", d)
        /\ \A m \in DOMAIN ls : ls2[m] = ls[m]
    BY <1>3 DEF Assign
  <2> HIDE DEF lb2, ls2
  <2>6. IsLabel(new, Target("pending", d), S, d)
    BY <2>2 DEF IsLabel, Target
  <2>7. Labels(lb2, ls2, S, d)
    <3>1. ASSUME NEW m \in DOMAIN ls2 PROVE IsLabel(lb2[m], ls2[m], S, d)
      <4>1. CASE m = l
        BY <2>4, <2>5, <2>6, <4>1
      <4>2. CASE m # l
        BY <1>1, <2>4, <2>5, <4>2
      <4> QED
        BY <4>1, <4>2
    <3> QED
      BY <2>4, <2>5, <3>1 DEF Labels
  <2>8. ASSUME NEW level, NEW s \in Pending(lab, ls, level)
        PROVE  s \in Pending(lb2, ls2, level)
    <3>1. PICK m \in DOMAIN ls : ls[m] = Target("pending", level) /\ s \in lab[m].reserved /\ s \in Nat
      BY DEF Pending
    <3>2. s \in lb2[m].reserved /\ ls2[m] = Target("pending", level)
      BY <2>1, <2>2, <2>4, <2>5, <3>1
    <3> QED
      BY <2>5, <3>1, <3>2 DEF Pending
  <2>9. pos \in Pending(lb2, ls2, d)
    BY <2>2, <2>4, <2>5 DEF Pending
  <2>10. Label(l).address \in Int
    BY <2>1
  <2> QED
    BY <2>7, <2>8, <2>9, <2>10 DEF lb2, ls2
<1> QED
  BY <1>2, <1>3

(* A label is put where the code ends.                                       *)
LEMMA LabelsPut ==
  ASSUME NEW d \in Nat, NEW ls, NEW S, Labels(lab, ls, S, d), NEW l, NEW size \in Nat, Lands(S[d], size),
         l \notin DOMAIN ls \/ ls[l] = Target("pending", d)
  PROVE  LET lb2 == Assign(lab, l, [address |-> size, reserved |-> {}])
             ls2 == Assign(ls, l, Target("solved", d))
         IN /\ ~ IsSolved(l) /\ Labels(lb2, ls2, S, d)
            /\ \A level \in Nat : level # d => Pending(lab, ls, level) \subseteq Pending(lb2, ls2, level)
            /\ \A s \in Pending(lab, ls, d) : s \in Label(l).reserved \/ s \in Pending(lb2, ls2, d)
<1> DEFINE lb2 == Assign(lab, l, [address |-> size, reserved |-> {}])
           ls2 == Assign(ls, l, Target("solved", d))
<1>1. DOMAIN lab = DOMAIN ls /\ \A m \in DOMAIN ls : IsLabel(lab[m], ls[m], S, d)
  BY DEF Labels
<1>2. ~ IsSolved(l)
  <2>1. CASE l \in DOMAIN ls
    <3>1. Label(l) = lab[l] /\ ls[l].state = "pending"
      BY <1>1, <2>1 DEF Label, Target
    <3> QED
      BY <1>1, <2>1, <3>1 DEF IsLabel, IsSolved
  <2>2. CASE l \notin DOMAIN ls
    BY <1>1, <2>2 DEF Label, IsSolved
  <2> QED
    BY <2>1, <2>2
<1>3. /\ DOMAIN lb2 = DOMAIN ls \cup {l} /\ lb2[l] = [address |-> size, reserved |-> {}]
      /\ \A m \in DOMAIN ls : m # l => lb2[m] = lab[m]
  BY <1>1 DEF Assign
<1>4. /\ DOMAIN ls2 = DOMAIN ls \cup {l} /\ ls2[l] = Target("solved", d)
      /\ \A m \in DOMAIN ls : m # l => ls2[m] = ls[m]
  BY DEF Assign
<1> HIDE DEF lb2, ls2
<1>5. IsLabel([address |-> size, reserved |-> {}], Target("solved", d), S, d)
  BY DEF IsLabel, Target
<1>6. Labels(lb2, ls2, S, d)
  <2>1. ASSUME NEW m \in DOMAIN ls2 PROVE IsLabel(lb2[m], ls2[m], S, d)
    <3>1. CASE m = l
      BY <1>3, <1>4, <1>5, <3>1
    <3>2. CASE m # l
      BY <1>1, <1>3, <1>4, <3>2
    <3> QED
      BY <3>1, <3>2
  <2> QED
    BY <1>3, <1>4, <2>1 DEF Labels
<1>7. ASSUME NEW level \in Nat, level # d, NEW s \in Pending(lab, ls, level)
      PROVE  s \in Pending(lb2, ls2, level)
  <2>1. PICK m \in DOMAIN ls : ls[m] = Target("pending", level) /\ s \in lab[m].reserved /\ s \in Nat
    BY DEF Pending
  <2>2. m # l
    BY <1>7, <2>1 DEF Target
  <2> QED
    BY <1>3, <1>4, <2>1, <2>2 DEF Pending
<1>8. ASSUME NEW s \in Pending(lab, ls, d)
      PROVE  s \in Label(l).reserved \/ s \in Pending(lb2, ls2, d)
  <2>1. PICK m \in DOMAIN ls : ls[m] = Target("pending", d) /\ s \in lab[m].reserved /\ s \in Nat
    BY DEF Pending
  <2>2. CASE m = l
    BY <1>1, <2>1, <2>2 DEF Label
  <2>3. CASE m # l
    BY <1>3, <1>4, <2>1, <2>3 DEF Pending
  <2> QED
    BY <2>2, <2>3
<1> QED
  BY <1>2, <1>6, <1>7, <1>8 DEF lb2, ls2

(* The labels of a popped frame are dead.                                    *)
LEMMA LabelsGone ==
  ASSUME NEW d \in Nat, d > 0, NEW lb, NEW ls, NEW S, NEW T, Labels(lb, ls, S, d),
         \A l \in 0..(d - 1) : T[l] = S[l]
  PROVE  LET ls2 == [l \in DOMAIN ls |-> IF ls[l].level = d THEN Target("dead", d) ELSE ls[l]]
         IN /\ Labels(lb, ls2, T, d - 1)
            /\ \A level \in 0..(d - 1) : Pending(lb, ls, level) \subseteq Pending(lb, ls2, level)
<1> DEFINE ls2 == [l \in DOMAIN ls |-> IF ls[l].level = d THEN Target("dead", d) ELSE ls[l]]
<1>1. /\ DOMAIN ls2 = DOMAIN ls
      /\ \A l \in DOMAIN ls : ls2[l] = IF ls[l].level = d THEN Target("dead", d) ELSE ls[l]
  OBVIOUS
<1> HIDE DEF ls2
<1>2. ASSUME NEW l \in DOMAIN ls PROVE IsLabel(lb[l], ls2[l], T, d - 1)
  <2>1. IsLabel(lb[l], ls[l], S, d)
    BY DEF Labels
  <2>2. CASE ls[l].level = d
    BY <1>1, <2>1, <2>2 DEF IsLabel, Target
  <2>3. CASE ls[l].level # d
    <3>1. ls2[l] = ls[l]
      BY <1>1, <2>3
    <3>2. ls[l].state # "dead" => ls[l].level \in 0..(d - 1)
      BY <2>1, <2>3 DEF IsLabel
    <3> QED
      BY <2>1, <3>1, <3>2 DEF IsLabel
  <2> QED
    BY <2>2, <2>3
<1>3. Labels(lb, ls2, T, d - 1)
  BY <1>1, <1>2 DEF Labels
<1>4. ASSUME NEW level \in 0..(d - 1), NEW s \in Pending(lb, ls, level)
      PROVE  s \in Pending(lb, ls2, level)
  <2>1. PICK m \in DOMAIN ls : ls[m] = Target("pending", level) /\ s \in lb[m].reserved /\ s \in Nat
    BY DEF Pending
  <2>2. ls2[m] = ls[m]
    BY <1>1, <2>1 DEF Target
  <2> QED
    BY <1>1, <2>1, <2>2 DEF Pending
<1> QED
  BY <1>3, <1>4 DEF ls2
-----------------------------------------------------------------------------
(* Contexts.                                                                *)

IsContext(c) ==
  c \in [of : {c.of}, depth : Nat, code : {"none", "some", "ended"},
         kinds : {c.kinds}, labels : {c.labels}, ret : {c.ret}]

LEMMA ContextFields ==
  ASSUME NEW c, IsContext(c)
  PROVE  c.depth \in Nat /\ c.code \in {"none", "some", "ended"}
BY DEF IsContext

(* The same activation, still in the same frame.                             *)
SamePlace(c, d) == IsContext(d) /\ d.of = c.of /\ d.depth = c.depth /\ d.ret = c.ret

LEMMA StartContext ==
  ASSUME NEW ret
  PROVE  /\ IsContext(Start(ret)) /\ IsContext(MainStart)
         /\ Start(ret).of = "node" /\ Start(ret).depth = 0 /\ Start(ret).code = "some"
         /\ Start(ret).ret = ret /\ Start(ret).labels = <<>>
         /\ MainStart.of = "program" /\ MainStart.depth = 0 /\ MainStart.code = "none"
         /\ MainStart.labels = <<>>
         /\ Start(ret).kinds = [UNKNOWN_REG |-> Unknown, zero |-> Integer]
         /\ MainStart.kinds = [UNKNOWN_REG |-> Unknown, zero |-> Integer]
BY DEF IsContext, Start, MainStart

LEMMA GetsContext ==
  ASSUME NEW c, IsContext(c), NEW v, NEW k
  PROVE  /\ SamePlace(c, Gets(c, v, k)) /\ Gets(c, v, k).code = c.code
         /\ Gets(c, v, k).kinds = Assign(c.kinds, v, k) /\ Gets(c, v, k).labels = c.labels
BY DEF IsContext, SamePlace, Gets

LEMMA EmitsContext ==
  ASSUME NEW c, IsContext(c), NEW op
  PROVE  /\ SamePlace(c, Emits(c, op))
         /\ Emits(c, op).code # "none" /\ (Emits(c, op).code = "ended" => IsReturn(op))
         /\ Emits(c, op).kinds = [v \in DOMAIN c.kinds |-> Past(c.kinds[v], c.depth)]
         /\ Emits(c, op).labels = c.labels
<1> DEFINE code == IF IsReturn(op) THEN "ended" ELSE "some"
           ks == [v \in DOMAIN c.kinds |-> Past(c.kinds[v], c.depth)]
<1>1. Emits(c, op) = [c EXCEPT !.code = code, !.kinds = ks]
  BY Zenon DEF Emits, Mapped
<1>2. code \in {"some", "ended"} /\ (code = "ended" => IsReturn(op))
  OBVIOUS
<1> HIDE DEF code, ks
<1>3. LET d == [c EXCEPT !.code = code, !.kinds = ks]
      IN SamePlace(c, d) /\ d.code = code /\ d.kinds = ks /\ d.labels = c.labels
  BY <1>2 DEF IsContext, SamePlace
<1> QED
  BY <1>1, <1>2, <1>3 DEF ks

LEMMA JumpsContext ==
  ASSUME NEW c, IsContext(c), NEW op, NEW l, ~ IsReturn(op)
  PROVE  /\ SamePlace(c, Jumps(c, op, l)) /\ Jumps(c, op, l).code = "some"
         /\ Jumps(c, op, l).kinds = [v \in DOMAIN c.kinds |-> Past(c.kinds[v], c.depth)]
         /\ Jumps(c, op, l).labels = IF l \notin DOMAIN c.labels
                                     THEN Assign(c.labels, l, Target("pending", c.depth))
                                     ELSE c.labels
<1> DEFINE e == Emits(c, op)
           ls == IF l \notin DOMAIN c.labels THEN Assign(c.labels, l, Target("pending", c.depth))
                                             ELSE c.labels
<1>1. /\ SamePlace(c, e) /\ e.code = "some" /\ e.labels = c.labels
      /\ e.kinds = [v \in DOMAIN c.kinds |-> Past(c.kinds[v], c.depth)]
  BY EmitsContext DEF SamePlace, IsContext
<1>2. Jumps(c, op, l) = [e EXCEPT !.labels = ls]
  BY <1>1, Zenon DEF Jumps, IsFree
<1> HIDE DEF e, ls
<1>3. LET d == [e EXCEPT !.labels = ls]
      IN SamePlace(c, d) /\ d.code = e.code /\ d.kinds = e.kinds /\ d.labels = ls
  BY <1>1 DEF IsContext, SamePlace
<1> QED
  BY <1>1, <1>2, <1>3 DEF ls

LEMMA PutsContext ==
  ASSUME NEW c, IsContext(c), NEW l
  PROVE  /\ SamePlace(c, Puts(c, l)) /\ Puts(c, l).code = GoesOn(c.code) /\ Puts(c, l).kinds = c.kinds
         /\ Puts(c, l).labels = Assign(c.labels, l, Target("solved", c.depth))
BY DEF IsContext, SamePlace, Puts, GoesOn

LEMMA WaitsContext ==
  ASSUME NEW c, IsContext(c)
  PROVE  /\ SamePlace(c, Waits(c)) /\ Waits(c).code = GoesOn(c.code) /\ Waits(c).labels = c.labels
         /\ Waits(c).kinds = [v \in DOMAIN c.kinds |-> Later(c.kinds[v], c.depth)]
BY DEF IsContext, SamePlace, Waits, GoesOn, Mapped

LEMMA LeavesContext ==
  ASSUME NEW c, IsContext(c)
  PROVE  /\ SamePlace(c, Leaves(c)) /\ Leaves(c).code = GoesOn(c.code)
         /\ Leaves(c).labels = c.labels /\ Leaves(c).kinds = c.kinds
BY DEF IsContext, SamePlace, Leaves, GoesOn

LEMMA OpensContext ==
  ASSUME NEW c, IsContext(c), NEW v
  PROVE  LET d == Opens(c, v) IN
         /\ IsContext(d) /\ d.of = c.of /\ d.depth = c.depth + 1 /\ d.ret = c.ret
         /\ d.code = "none" /\ d.labels = c.labels /\ d.kinds = Assign(c.kinds, v, FrameNumber)
<1> DEFINE e == Gets(c, v, FrameNumber)
<1>1. /\ SamePlace(c, e) /\ e.labels = c.labels /\ e.kinds = Assign(c.kinds, v, FrameNumber)
  BY GetsContext
<1> DEFINE n == c.depth + 1
<1>2. Opens(c, v) = [e EXCEPT !.depth = n, !.code = "none"]
  BY <1>1 DEF Opens, SamePlace
<1>3. n \in Nat
  BY DEF IsContext
<1> HIDE DEF e, n
<1>4. LET d == [e EXCEPT !.depth = n, !.code = "none"]
      IN /\ IsContext(d) /\ d.of = c.of /\ d.depth = n /\ d.ret = c.ret
         /\ d.code = "none" /\ d.labels = c.labels /\ d.kinds = e.kinds
  BY <1>1, <1>3 DEF IsContext, SamePlace
<1> QED
  BY <1>1, <1>2, <1>4 DEF n

LEMMA ClosesContext ==
  ASSUME NEW c, IsContext(c), c.depth > 0
  PROVE  LET d == Closes(c) IN
         /\ IsContext(d) /\ d.of = c.of /\ d.depth = c.depth - 1 /\ d.ret = c.ret /\ d.code = "some"
         /\ d.kinds = [v \in DOMAIN c.kinds |-> Gone(c.kinds[v], c.depth)]
         /\ d.labels = [l \in DOMAIN c.labels |->
                          IF c.labels[l].level = c.depth THEN Target("dead", c.depth) ELSE c.labels[l]]
<1> DEFINE ks == [v \in DOMAIN c.kinds |-> Gone(c.kinds[v], c.depth)]
           ls == [l \in DOMAIN c.labels |->
                    IF c.labels[l].level = c.depth THEN Target("dead", c.depth) ELSE c.labels[l]]
           n == c.depth - 1
<1>1. Closes(c) = [c EXCEPT !.depth = n, !.code = "some", !.kinds = ks, !.labels = ls]
  BY Zenon DEF Closes, Mapped
<1>2. n \in Nat
  BY DEF IsContext
<1> HIDE DEF ks, ls, n
<1>3. LET d == [c EXCEPT !.depth = n, !.code = "some", !.kinds = ks, !.labels = ls]
      IN /\ IsContext(d) /\ d.of = c.of /\ d.depth = n /\ d.ret = c.ret /\ d.code = "some"
         /\ d.kinds = ks /\ d.labels = ls
  BY <1>2 DEF IsContext
<1> QED
  BY <1>1, <1>3 DEF ks, ls, n
-----------------------------------------------------------------------------
(* The inductive invariant.  Activation i works in context C[i] on the node   *)
(* V[i], and the frame it was called in is at B[i] on the stack.              *)

N == Len(acts)
Levels(b, depth) == [l \in 0..depth |-> frame[frames[b + l]]]
OnStack(f) == \E i \in DOMAIN frames : frames[i] = f

(* The slots of frame f that wait for a label.                               *)
Owed(C, B, f) ==
  {s \in Nat : \E i \in DOMAIN acts : \E l \in 0..C[i].depth :
     frames[B[i] + l] = f /\ s \in Pending(acts[i].lab, C[i].labels, l)}

IsAct(a) == a \in [todo : {a.todo}, loc : {a.loc}, lab : {a.lab}, dst : {a.dst}, id : Nat]

(* The stack of frames grows from the callers' to the callees'.               *)
Stacked(C, B) ==
  /\ frames \in Seq(Nat) /\ Len(frames) >= 1 /\ frames[1] = 1
  /\ \A i \in DOMAIN frames : frames[i] \in DOMAIN frame
  /\ \A i, j \in DOMAIN frames : i < j => frames[i] < frames[j]
  /\ IsSeq(acts) /\ DOMAIN C = DOMAIN acts /\ DOMAIN B = DOMAIN acts
  /\ acts = <<>> => Len(frames) = 1
  /\ acts # <<>> => B[1] = 1 /\ Len(frames) = B[N] + C[N].depth
  /\ \A i \in DOMAIN acts : /\ IsAct(acts[i]) /\ IsContext(C[i]) /\ B[i] \in Nat \ {0}
                            /\ C[i].of = "program" <=> i = 1
                            /\ acts[i].id <= calls
  /\ \A i, j \in DOMAIN acts : i < j => B[i] + C[i].depth <= B[j]
  /\ \A i, j \in DOMAIN acts : j = i + 1 => B[j] = B[i] + C[i].depth

(* What a handler has left to do is typed in its context; a caller waits for  *)
(* any of the values the callee may give it.                                *)
Judged(C, V) ==
  /\ \A i \in DOMAIN acts : V[i] \in DOMAIN Typings
  /\ acts # <<>> => <<Act.todo, C[N]>> \in Typings[V[N]]
  /\ \A i, j \in DOMAIN acts : j = i + 1 =>
       /\ IsFreeVariable(acts[j].dst) /\ NoneHere(C[i].kinds, C[i].depth) /\ C[i].code # "ended"
       /\ \A k \in C[j].ret :
            /\ Givable(k)
            /\ <<acts[i].todo, Gets(C[i], acts[j].dst, Given(C[i], k))>> \in Typings[V[i]]

Active(C, B) ==
  \A i \in DOMAIN acts :
    /\ Values(acts[i].loc, C[i].kinds, Levels(B[i], C[i].depth), C[i].depth, Len(frame))
    /\ Labels(acts[i].lab, C[i].labels, Levels(B[i], C[i].depth), C[i].depth)

Filled(C, B) ==
  /\ IsSeq(frame)
  /\ \A f \in DOMAIN frame : /\ WellFormed(frame[f]) /\ frame[f].outer \in 0..(f - 1)
                             /\ Settled(frame[f], Owed(C, B, f))
                             /\ ~ OnStack(f) => Complete(frame[f], {})
  /\ \A i \in DOMAIN frames : i < Len(frames) => frame[frames[i]].bytecode_size > 0
  /\ \A i \in DOMAIN acts : i > 1 => frame[frames[B[i]]].bytecode_size > 0
  /\ acts = <<>> => Complete(frame[1], {})
  /\ acts # <<>> => /\ C[N].code # "none" => frame[Top].bytecode_size > 0
                    /\ C[N].code = "ended" => Complete(frame[Top], Owed(C, B, Top))

IsObject(o) == o \in [class : BOOLEAN, methods : {o.methods}]
Classes(scs) == {i \in DOMAIN scs : scs[i].class}
MethodsIn(scs, codes) ==
  \A i \in DOMAIN scs : \A m \in DOMAIN scs[i].methods : scs[i].methods[m] \in codes
UnitOK ==
  /\ cu \in [callsites : Seq(Seq(RegTypes)), max_callsite_size : Nat,
             scs : {cu.scs}, current_class_how : Nat]
  /\ IsSeq(cu.scs) /\ \A i \in DOMAIN cu.scs : IsObject(cu.scs[i])
  /\ cu.current_class_how \in {0} \cup Classes(cu.scs)
  /\ MethodsIn(cu.scs, DOMAIN frame)

StatusOK ==
  /\ status \in {"compiling", "done", "assert", "abort", "panic", "exit"} /\ calls \in Nat
  /\ status = "done" => acts = <<>>
  /\ status = "compiling" => acts # <<>>

IInv(C, B, V) ==
  Stacked(C, B) /\ Judged(C, V) /\ Active(C, B) /\ Filled(C, B) /\ UnitOK /\ StatusOK
Inv == \E C, B, V : IInv(C, B, V)
-----------------------------------------------------------------------------
(* The activation that runs, and the frame on top.                            *)

Resumed(a, t, lc, lb) == [a EXCEPT !.todo = t, !.loc = lc, !.lab = lb]

LEMMA ActFields ==
  ASSUME NEW a, IsAct(a), NEW t, NEW lc, NEW lb
  PROVE  LET b == Resumed(a, t, lc, lb) IN
         /\ IsAct(b) /\ b.todo = t /\ b.loc = lc /\ b.lab = lb /\ b.dst = a.dst /\ b.id = a.id
BY DEF IsAct, Resumed

LEMMA Running ==
  ASSUME NEW C, NEW B, Stacked(C, B), acts # <<>>
  PROVE  /\ N \in Nat /\ N >= 1 /\ DOMAIN acts = 1..N /\ N \in DOMAIN acts
         /\ Act = acts[N] /\ IsAct(Act) /\ loc = Act.loc /\ lab = Act.lab
         /\ IsContext(C[N]) /\ C[N].depth \in Nat /\ B[N] \in Nat /\ B[N] > 0
         /\ Len(frames) \in Nat /\ DOMAIN frames = 1..Len(frames)
         /\ Len(frames) = B[N] + C[N].depth
         /\ Top = frames[B[N] + C[N].depth] /\ Top \in DOMAIN frame
         /\ \A i \in DOMAIN acts : /\ C[i].depth \in Nat /\ B[i] \in Nat /\ B[i] > 0
                                   /\ B[i] + C[i].depth <= Len(frames)
                                   /\ i # N => B[i] + C[i].depth <= B[N]
         /\ \A i \in DOMAIN acts : \A l \in 0..C[i].depth :
              /\ B[i] + l \in DOMAIN frames
              /\ frames[B[i] + l] = Top <=> B[i] + l = Len(frames)
<1>1. DOMAIN acts = 1..Len(acts) /\ Len(acts) \in Nat
  BY SeqFields DEF Stacked
<1>2. Len(acts) # 0
  BY EmptySeq DEF Stacked, IsSeq
<1>3. N \in Nat /\ N >= 1 /\ DOMAIN acts = 1..N /\ N \in DOMAIN acts
  BY <1>1, <1>2 DEF N
<1>4. Len(frames) \in Nat /\ DOMAIN frames = 1..Len(frames)
  BY LenProperties DEF Stacked
<1>5. \A i \in DOMAIN acts : /\ IsAct(acts[i]) /\ IsContext(C[i]) /\ B[i] \in Nat /\ B[i] > 0
                             /\ C[i].depth \in Nat
  <2>1. \A i \in DOMAIN acts : IsAct(acts[i]) /\ IsContext(C[i]) /\ B[i] \in Nat \ {0}
    BY Zenon DEF Stacked
  <2> QED
    BY <2>1, ContextFields
<1>6. Len(frames) = B[N] + C[N].depth
  BY DEF Stacked
<1>7. \A i \in DOMAIN acts : i # N => B[i] + C[i].depth <= B[N]
  <2>1. \A i, j \in DOMAIN acts : i < j => B[i] + C[i].depth <= B[j]
    BY Zenon DEF Stacked
  <2>2. \A i \in DOMAIN acts : i # N => i < N
    BY <1>3
  <2> QED
    BY <1>3, <2>1, <2>2
<1>8. \A i \in DOMAIN acts : B[i] + C[i].depth <= Len(frames)
  BY <1>3, <1>4, <1>5, <1>6, <1>7
<1>9. Top = frames[Len(frames)] /\ Len(frames) \in DOMAIN frames /\ Top \in DOMAIN frame
  BY <1>4 DEF Top, Stacked
<1>10. ASSUME NEW i \in DOMAIN acts, NEW l \in 0..C[i].depth
       PROVE  /\ B[i] + l \in DOMAIN frames
              /\ frames[B[i] + l] = Top <=> B[i] + l = Len(frames)
  <2>1. B[i] + l \in DOMAIN frames
    BY <1>4, <1>5, <1>8
  <2>2. B[i] + l # Len(frames) => frames[B[i] + l] < frames[Len(frames)]
    BY <1>4, <1>9, <2>1 DEF Stacked
  <2>3. frames[B[i] + l] \in Nat
    BY <2>1, ElementOfSeq, <1>4 DEF Stacked
  <2> QED
    BY <1>9, <2>1, <2>2, <2>3
<1> QED
  BY <1>3, <1>4, <1>5, <1>6, <1>7, <1>8, <1>9, <1>10 DEF N, Act, loc, lab

LEMMA MoreOwed ==
  ASSUME NEW r, NEW P, NEW Q, P \subseteq Q
  PROVE  (Settled(r, P) => Settled(r, Q)) /\ (Complete(r, P) => Complete(r, Q))
BY DEF Settled, Complete
-----------------------------------------------------------------------------
(* A step of the activation that runs which leaves frame r on top: in         *)
(* context c, with t left to do, the locals lc and the labels lb.            *)

After(b, depth, r) == [l \in 0..depth |-> IF l = depth THEN r ELSE frame[frames[b + l]]]

(* The slots P that waited, once the innermost activation's labels are lb.    *)
Waiting(P, c1, c, lb) ==
  (P \ Pending(lab, c1.labels, c1.depth)) \cup Pending(lb, c.labels, c.depth)

(* What the step needs of the frame, of the locals and of the labels.         *)
FrameStep(C, r, c, lb) ==
  /\ WellFormed(r) /\ Grows(frame[Top], r) /\ r.outer = frame[Top].outer
  /\ \A P : Settled(frame[Top], P) => Settled(r, Waiting(P, C[N], c, lb))
  /\ c.code # "none" => r.bytecode_size > 0
  /\ c.code = "ended" =>
       \A P : Settled(frame[Top], P) /\ (C[N].code = "ended" => Complete(frame[Top], P))
              => Complete(r, Waiting(P, C[N], c, lb))
ActStep(C, B, r, c, lc, lb) ==
  /\ Values(lc, c.kinds, After(B[N], C[N].depth, r), C[N].depth, Len(frame))
  /\ Labels(lb, c.labels, After(B[N], C[N].depth, r), C[N].depth)
  /\ \A l \in 0..C[N].depth :
       l # C[N].depth => Pending(lab, C[N].labels, l) \subseteq Pending(lb, c.labels, l)

LEMMA TopStep ==
  ASSUME NEW C, NEW B, NEW V, IInv(C, B, V), status = "compiling",
         NEW t, NEW lc, NEW lb, NEW r, NEW c,
         Resume(t, lc, lb), SetTop(r), frames' = frames, calls' = calls, status' = status, UnitOK',
         SamePlace(C[N], c), <<t, c>> \in Typings[V[N]],
         FrameStep(C, r, c, lb), ActStep(C, B, r, c, lc, lb)
  PROVE  Inv'
<1>1. PICK D : D = [C EXCEPT ![N] = c]
  OBVIOUS
<1>2. PICK d : d = C[N].depth
  OBVIOUS
<1>3. PICK p : p = Top
  OBVIOUS
<1>4. /\ Stacked(C, B) /\ Judged(C, V) /\ Active(C, B) /\ Filled(C, B) /\ StatusOK /\ acts # <<>>
  BY DEF IInv, StatusOK
<1>5. /\ N \in Nat /\ N >= 1 /\ DOMAIN acts = 1..N /\ N \in DOMAIN acts
      /\ Act = acts[N] /\ IsAct(Act) /\ lab = Act.lab
      /\ IsContext(C[N]) /\ d \in Nat /\ B[N] \in Nat /\ B[N] > 0
      /\ Len(frames) \in Nat /\ DOMAIN frames = 1..Len(frames)
      /\ Len(frames) = B[N] + d
      /\ Top = frames[B[N] + d] /\ Top \in DOMAIN frame
      /\ \A i \in DOMAIN acts : /\ C[i].depth \in Nat /\ B[i] \in Nat /\ B[i] > 0
                                /\ B[i] + C[i].depth <= Len(frames)
                                /\ i # N => B[i] + C[i].depth <= B[N]
      /\ \A i \in DOMAIN acts : \A l \in 0..C[i].depth :
           /\ B[i] + l \in DOMAIN frames
           /\ frames[B[i] + l] = Top <=> B[i] + l = Len(frames)
  BY <1>4, <1>2, Running
<1>6. /\ IsSeq(acts') /\ N' = N /\ DOMAIN acts' = DOMAIN acts /\ acts' # <<>>
      /\ IsAct(acts'[N]) /\ acts'[N].todo = t /\ acts'[N].loc = lc /\ acts'[N].lab = lb
      /\ acts'[N].dst = acts[N].dst /\ acts'[N].id = acts[N].id
      /\ \A i \in DOMAIN acts : i # N => acts'[i] = acts[i]
  <2> DEFINE b == Resumed(Act, t, lc, lb)
  <2>1. acts' = [acts EXCEPT ![N] = b]
    BY <1>5 DEF Resume, N, Resumed
  <2>2. IsAct(b) /\ b.todo = t /\ b.loc = lc /\ b.lab = lb /\ b.dst = Act.dst /\ b.id = Act.id
    BY <1>5, ActFields
  <2> HIDE DEF b
  <2>3. /\ IsSeq(acts') /\ Len(acts') = Len(acts) /\ DOMAIN acts' = DOMAIN acts /\ acts'[N] = b
        /\ \A i \in DOMAIN acts : i # N => acts'[i] = acts[i]
    BY <1>4, <1>5, <2>1, ExceptIsSeq DEF Stacked
  <2>4. acts' # <<>>
    BY <1>5, <2>3
  <2> QED
    BY <1>5, <2>2, <2>3, <2>4 DEF N
<1>7. /\ DOMAIN D = DOMAIN C /\ D[N] = c /\ \A i \in DOMAIN acts : i # N => D[i] = C[i]
      /\ IsContext(c) /\ c.of = C[N].of /\ c.depth = d /\ c.ret = C[N].ret
  BY <1>4, <1>5, <1>1, <1>2 DEF Stacked, SamePlace
<1>8. /\ IsSeq(frame') /\ Len(frame') = Len(frame) /\ DOMAIN frame' = DOMAIN frame /\ frame'[Top] = r
      /\ \A f \in DOMAIN frame : f # Top => frame'[f] = frame[f]
      /\ Top' = Top
  BY <1>4, <1>5, ExceptIsSeq DEF SetTop, Filled, Top
<1>9. Stacked(D, B)'
  <2>1. /\ frames' \in Seq(Nat) /\ Len(frames') >= 1 /\ frames'[1] = 1
        /\ \A i \in DOMAIN frames' : frames'[i] \in DOMAIN frame'
        /\ \A i, j \in DOMAIN frames' : i < j => frames'[i] < frames'[j]
    BY <1>4, <1>8 DEF Stacked
  <2>2. IsSeq(acts') /\ DOMAIN D = DOMAIN acts' /\ DOMAIN B = DOMAIN acts' /\ acts' # <<>>
    BY <1>4, <1>6, <1>7 DEF Stacked
  <2>3. B[1] = 1 /\ Len(frames') = B[N'] + D[N'].depth
    BY <1>4, <1>5, <1>6, <1>7 DEF Stacked
  <2>4. \A i \in DOMAIN acts : /\ IsAct(acts[i]) /\ IsContext(C[i]) /\ B[i] \in Nat \ {0}
                               /\ C[i].of = "program" <=> i = 1
                               /\ acts[i].id <= calls
    BY <1>4, Zenon DEF Stacked
  <2>5. \A i \in DOMAIN acts' : /\ IsAct(acts'[i]) /\ IsContext(D[i]) /\ B[i] \in Nat \ {0}
                                /\ D[i].of = "program" <=> i = 1
                                /\ acts'[i].id <= calls'
    BY <1>5, <1>6, <1>7, <2>4
  <2>6. \A i \in DOMAIN acts : D[i].depth = C[i].depth
    BY <1>7, <1>2
  <2>7. /\ \A i, j \in DOMAIN acts : i < j => B[i] + C[i].depth <= B[j]
        /\ \A i, j \in DOMAIN acts : j = i + 1 => B[j] = B[i] + C[i].depth
    BY <1>4, Zenon DEF Stacked
  <2>8. /\ \A i, j \in DOMAIN acts' : i < j => B[i] + D[i].depth <= B[j]
        /\ \A i, j \in DOMAIN acts' : j = i + 1 => B[j] = B[i] + D[i].depth
    BY <1>6, <2>6, <2>7
  <2>9. /\ acts' = <<>> => Len(frames') = 1
        /\ acts' # <<>> => B[1] = 1 /\ Len(frames') = B[N'] + D[N'].depth
    BY <2>2, <2>3
  <2> QED
    BY <2>1, <2>2, <2>9, <2>5, <2>8, SMT DEF Stacked
<1>10. Judged(D, V)'
  <2>1. /\ \A i \in DOMAIN acts : V[i] \in DOMAIN Typings
        /\ \A i, j \in DOMAIN acts : j = i + 1 =>
             /\ IsFreeVariable(acts[j].dst) /\ NoneHere(C[i].kinds, C[i].depth) /\ C[i].code # "ended"
             /\ \A k \in C[j].ret :
                  /\ Givable(k)
                  /\ <<acts[i].todo, Gets(C[i], acts[j].dst, Given(C[i], k))>> \in Typings[V[i]]
    BY <1>4, Zenon DEF Judged
  <2>2. <<Act'.todo, D[N']>> \in Typings[V[N']]
    BY <1>6, <1>7 DEF Act, N
  <2>3. \A j \in DOMAIN acts : acts'[j].dst = acts[j].dst /\ D[j].ret = C[j].ret
    BY <1>6, <1>7
  <2>4. \A i, j \in DOMAIN acts' : j = i + 1 =>
          /\ IsFreeVariable(acts'[j].dst) /\ NoneHere(D[i].kinds, D[i].depth) /\ D[i].code # "ended"
          /\ \A k \in D[j].ret :
               /\ Givable(k)
               /\ <<acts'[i].todo, Gets(D[i], acts'[j].dst, Given(D[i], k))>> \in Typings[V[i]]
    <3> SUFFICES ASSUME NEW i \in DOMAIN acts, NEW j \in DOMAIN acts, j = i + 1
                 PROVE  /\ IsFreeVariable(acts'[j].dst) /\ NoneHere(D[i].kinds, D[i].depth)
                        /\ D[i].code # "ended"
                        /\ \A k \in D[j].ret :
                             /\ Givable(k)
                             /\ <<acts'[i].todo, Gets(D[i], acts'[j].dst, Given(D[i], k))>>
                                  \in Typings[V[i]]
      BY <1>6
    <3>1. i # N
      BY <1>5
    <3>2. acts'[i] = acts[i] /\ D[i] = C[i]
      BY <1>6, <1>7, <3>1
    <3> QED
      BY <2>1, <2>3, <3>2
  <2>5. \A i \in DOMAIN acts' : V[i] \in DOMAIN Typings
    BY <1>6, <2>1
  <2> QED
    BY <2>2, <2>4, <2>5, Zenon DEF Judged
<1>11. \A i \in DOMAIN acts : i # N => NoneHere(C[i].kinds, C[i].depth)
  <2>1. \A i, j \in DOMAIN acts : j = i + 1 => NoneHere(C[i].kinds, C[i].depth)
    BY <1>4, Zenon DEF Judged
  <2>2. \A i \in DOMAIN acts : i # N => i + 1 \in DOMAIN acts
    BY <1>5
  <2> QED
    BY <2>1, <2>2
<1>12. \A f \in DOMAIN frame : /\ WellFormed(frame[f]) /\ frame[f] \in KijiFrame
                               /\ frame'[f] \in KijiFrame /\ Grows(frame[f], frame'[f])
                               /\ frame[f].bytecode_size \in Nat /\ frame'[f].bytecode_size \in Nat
                               /\ frame[f].bytecode_size <= frame'[f].bytecode_size
  <2>1. \A f \in DOMAIN frame : WellFormed(frame[f])
    BY <1>4, Zenon DEF Filled
  <2>2. WellFormed(r) /\ Grows(frame[Top], r)
    BY Zenon DEF FrameStep
  <2>3. \A f \in DOMAIN frame : frame[f] \in KijiFrame /\ frame'[f] \in KijiFrame
    BY <1>8, <2>1, <2>2, IsFrame
  <2>4. \A f \in DOMAIN frame : Grows(frame[f], frame'[f])
    BY <1>8, <2>2, <2>3, GrowsSame
  <2> QED
    BY <2>1, <2>3, <2>4, FrameFields DEF Grows
<1>13. ASSUME NEW i \in DOMAIN acts, i # N
       PROVE  \A l \in 0..C[i].depth :
                LET S == Levels(B[i], C[i].depth)
                    T == Levels(B[i], C[i].depth)'
                IN /\ S[l] \in KijiFrame /\ T[l] \in KijiFrame /\ Grows(S[l], T[l])
                   /\ T[l].bytecode_size = S[l].bytecode_size \/ NoneHere(C[i].kinds, l)
  <2> SUFFICES ASSUME NEW l \in 0..C[i].depth
               PROVE  LET f == frames[B[i] + l] IN
                      /\ f \in DOMAIN frame
                      /\ frame'[f].bytecode_size = frame[f].bytecode_size \/ NoneHere(C[i].kinds, l)
    BY <1>12 DEF Levels
  <2>1. frames[B[i] + l] \in DOMAIN frame
    BY <1>4, <1>5 DEF Stacked
  <2>2. frames[B[i] + l] = Top => l = C[i].depth
    BY <1>5, <1>13, SMTT(30)
  <2> QED
    BY <1>8, <1>11, <1>13, <2>1, <2>2
<1>14. \A l \in 0..d : frames[B[N] + l] \in DOMAIN frame /\ (frames[B[N] + l] = Top <=> l = d)
  <2> SUFFICES ASSUME NEW l \in 0..d
               PROVE  frames[B[N] + l] \in DOMAIN frame /\ (frames[B[N] + l] = Top <=> l = d)
    OBVIOUS
  <2>1. /\ B[N] + l \in DOMAIN frames
        /\ frames[B[N] + l] = Top <=> B[N] + l = Len(frames)
    BY <1>5, <1>2
  <2>2. B[N] + l = Len(frames) <=> l = d
    BY <1>5
  <2>3. frames[B[N] + l] \in DOMAIN frame
    BY <1>4, <2>1 DEF Stacked
  <2> QED
    BY <2>1, <2>2, <2>3
<1>15. Levels(B[N], d)' = After(B[N], d, r)
  <2>1. ASSUME NEW l \in 0..d
        PROVE  frame'[frames'[B[N] + l]] = IF l = d THEN r ELSE frame[frames[B[N] + l]]
    BY <1>8, <1>14
  <2>2. [l \in 0..d |-> frame'[frames'[B[N] + l]]]
           = [l \in 0..d |-> IF l = d THEN r ELSE frame[frames[B[N] + l]]]
    BY <2>1
  <2> QED
    BY <1>5, <1>6, <2>2 DEF Levels, After
<1>16. Active(D, B)'
  <2>1. \A i \in DOMAIN acts :
          /\ Values(acts[i].loc, C[i].kinds, Levels(B[i], C[i].depth), C[i].depth, Len(frame))
          /\ Labels(acts[i].lab, C[i].labels, Levels(B[i], C[i].depth), C[i].depth)
    BY <1>4, Zenon DEF Active
  <2>2. Len(frame) \in Nat
    BY <1>4, SeqFields DEF Filled
  <2>3. ASSUME NEW i \in DOMAIN acts
        PROVE  /\ Values(acts'[i].loc, D[i].kinds, Levels(B[i], D[i].depth)', D[i].depth, Len(frame'))
               /\ Labels(acts'[i].lab, D[i].labels, Levels(B[i], D[i].depth)', D[i].depth)
    <3>1. CASE i = N
      BY <1>6, <1>7, <1>8, <1>15, <1>2, <3>1 DEF ActStep
    <3>2. CASE i # N
      <4>1. acts'[i] = acts[i] /\ D[i] = C[i] /\ C[i].depth \in Nat
        BY <1>5, <1>6, <1>7, <3>2
      <4>2. Values(acts[i].loc, C[i].kinds, Levels(B[i], C[i].depth)', C[i].depth, Len(frame))
        BY <1>13, <2>1, <2>2, <3>2, <4>1, ValuesLater
      <4>3. Labels(acts[i].lab, C[i].labels, Levels(B[i], C[i].depth)', C[i].depth)
        BY <1>13, <2>1, <3>2, <4>1, LabelsLater
      <4> QED
        BY <1>8, <4>1, <4>2, <4>3
    <3> QED
      BY <3>1, <3>2
  <2> QED
    BY <1>6, <2>3, Zenon DEF Active
<1>17. /\ \A f : f # p => Owed(C, B, f) \subseteq Owed(D, B, f)'
       /\ Waiting(Owed(C, B, p), C[N], c, lb) \subseteq Owed(D, B, p)'
  <2>1. \A l \in 0..d : l # d => Pending(acts[N].lab, C[N].labels, l) \subseteq Pending(lb, c.labels, l)
    BY <1>5, <1>2 DEF ActStep
  <2>2. \A l \in 0..d : frames[B[N] + l] = p <=> l = d
    BY <1>3, <1>14
  <2>3. ASSUME NEW f, NEW i \in DOMAIN acts, NEW l \in 0..C[i].depth, frames[B[i] + l] = f,
               NEW s \in Pending(acts[i].lab, C[i].labels, l), i # N \/ l # d, s \in Nat
        PROVE  s \in Owed(D, B, f)'
    <3>1. D[i].depth = C[i].depth
      BY <1>7, <1>2
    <3>2. s \in Pending(acts'[i].lab, D[i].labels, l)
      BY <1>6, <1>7, <1>2, <2>1, <2>3
    <3> QED
      BY <1>6, <2>3, <3>1, <3>2 DEF Owed
  <2>4. ASSUME NEW f, NEW s \in Owed(C, B, f)
        PROVE  s \in Nat /\ \E i \in DOMAIN acts : \E l \in 0..C[i].depth :
                 frames[B[i] + l] = f /\ s \in Pending(acts[i].lab, C[i].labels, l)
    BY <2>4 DEF Owed
  <2>5. ASSUME NEW f, f # p, NEW s \in Owed(C, B, f)
        PROVE  s \in Owed(D, B, f)'
    <3>1. PICK i \in DOMAIN acts : \E l \in 0..C[i].depth :
            frames[B[i] + l] = f /\ s \in Pending(acts[i].lab, C[i].labels, l)
      BY <2>4, <2>5
    <3>2. PICK l \in 0..C[i].depth :
            frames[B[i] + l] = f /\ s \in Pending(acts[i].lab, C[i].labels, l)
      BY <3>1
    <3>3. i # N \/ l # d
      BY <1>2, <2>2, <2>5, <3>2
    <3> QED
      BY <2>3, <2>4, <2>5, <3>2, <3>3
  <2>6. ASSUME NEW s \in Owed(C, B, p), s \notin Pending(lab, C[N].labels, C[N].depth)
        PROVE  s \in Owed(D, B, p)'
    <3>1. PICK i \in DOMAIN acts : \E l \in 0..C[i].depth :
            frames[B[i] + l] = p /\ s \in Pending(acts[i].lab, C[i].labels, l)
      BY <2>4, <2>6
    <3>2. PICK l \in 0..C[i].depth :
            frames[B[i] + l] = p /\ s \in Pending(acts[i].lab, C[i].labels, l)
      BY <3>1
    <3>3. i # N \/ l # d
      BY <1>5, <1>2, <2>6, <3>2
    <3> QED
      BY <2>3, <2>4, <2>6, <3>2, <3>3
  <2>7. ASSUME NEW s \in Pending(lb, c.labels, c.depth)
        PROVE  s \in Owed(D, B, p)'
    <3>1. s \in Nat /\ N \in DOMAIN acts' /\ d \in 0..D[N].depth /\ frames'[B[N] + d] = p
      BY <1>5, <1>6, <1>7, <1>2, <1>3, <2>7 DEF Pending
    <3>2. s \in Pending(acts'[N].lab, D[N].labels, d)
      BY <1>6, <1>7, <1>2, <2>7
    <3> QED
      BY <3>1, <3>2 DEF Owed
  <2> QED
    BY <2>5, <2>6, <2>7 DEF Waiting
<1>18. Filled(D, B)'
  <2>1. /\ \A f \in DOMAIN frame : /\ frame[f].outer \in 0..(f - 1)
                                   /\ Settled(frame[f], Owed(C, B, f))
                                   /\ ~ OnStack(f) => Complete(frame[f], {})
        /\ \A i \in DOMAIN frames : i < Len(frames) => frame[frames[i]].bytecode_size > 0
        /\ \A i \in DOMAIN acts : i > 1 => frame[frames[B[i]]].bytecode_size > 0
        /\ C[N].code # "none" => frame[Top].bytecode_size > 0
        /\ C[N].code = "ended" => Complete(frame[Top], Owed(C, B, p))
    BY <1>4, <1>3, Zenon DEF Filled
  <2>2. /\ WellFormed(r) /\ r.outer = frame[Top].outer
        /\ Settled(r, Waiting(Owed(C, B, p), C[N], c, lb))
        /\ c.code # "none" => r.bytecode_size > 0
        /\ c.code = "ended" => Complete(r, Waiting(Owed(C, B, p), C[N], c, lb))
    BY <1>5, <1>3, <2>1, Zenon DEF FrameStep
  <2>3. ASSUME NEW f \in DOMAIN frame
        PROVE  /\ WellFormed(frame'[f]) /\ frame'[f].outer \in 0..(f - 1)
               /\ Settled(frame'[f], Owed(D, B, f)')
               /\ ~ OnStack(f)' => Complete(frame'[f], {})
    <3>1. CASE f = p
      <4>1. OnStack(f)'
        BY <1>5, <1>8, <1>3, <3>1 DEF OnStack
      <4> QED
        BY <1>8, <1>3, <1>17, <2>1, <2>2, <3>1, <4>1, MoreOwed
    <3>2. CASE f # p
      <4>1. frame'[f] = frame[f]
        BY <1>8, <1>3, <3>2
      <4>2. OnStack(f)' <=> OnStack(f)
        BY <1>8 DEF OnStack
      <4>3. Owed(C, B, f) \subseteq Owed(D, B, f)'
        BY <1>17, <3>2
      <4>4. /\ WellFormed(frame[f]) /\ frame[f].outer \in 0..(f - 1)
            /\ Settled(frame[f], Owed(C, B, f))
            /\ ~ OnStack(f) => Complete(frame[f], {})
        BY <1>12, <2>1
      <4>5. Settled(frame[f], Owed(D, B, f)')
        BY <4>3, <4>4, MoreOwed
      <4> QED
        BY <4>1, <4>2, <4>4, <4>5
    <3> QED
      BY <3>1, <3>2
  <2>4. \A i \in DOMAIN frames' : i < Len(frames') => frame'[frames'[i]].bytecode_size > 0
    <3>1. \A i \in DOMAIN frames : frames[i] \in DOMAIN frame
      BY <1>4, Zenon DEF Stacked
    <3>2. frames' = frames
      BY <2>1
    <3> SUFFICES ASSUME NEW i \in DOMAIN frames, i < Len(frames)
                 PROVE  frame'[frames[i]].bytecode_size > 0
      BY <3>2
    <3>3. PICK f : f = frames[i]
      OBVIOUS
    <3>4. frame[f].bytecode_size > 0 /\ f \in DOMAIN frame
      BY <2>1, <3>1, <3>3
    <3> QED
      BY <1>12, <3>3, <3>4
  <2>5. \A i \in DOMAIN acts' : i > 1 => frame'[frames'[B[i]]].bytecode_size > 0
    <3>1. \A i \in DOMAIN acts : B[i] \in DOMAIN frames
      BY <1>5
    <3>2. \A i \in DOMAIN acts : frames[B[i]] \in DOMAIN frame
      BY <1>4, <3>1 DEF Stacked
    <3> QED
      BY <1>6, <1>12, <2>1, <3>2
  <2>6. D[N'].code # "none" => frame'[Top'].bytecode_size > 0
    BY <1>6, <1>7, <1>8, <2>2
  <2>7. D[N'].code = "ended" => Complete(frame'[Top'], Owed(D, B, p)')
    <3>1. frame'[Top'] = r /\ D[N'] = c
      BY <1>6, <1>7, <1>8
    <3>2. Waiting(Owed(C, B, p), C[N], c, lb) \subseteq Owed(D, B, p)'
      BY <1>17
    <3>3. Complete(r, Waiting(Owed(C, B, p), C[N], c, lb)) => Complete(r, Owed(D, B, p)')
      BY <3>2, MoreOwed
    <3> QED
      BY <2>2, <3>1, <3>3
  <2>8. D[N'].code = "ended" => Complete(frame'[Top'], Owed(D, B, Top)')
    BY <1>8, <1>3, <2>7
  <2> QED
    BY <1>6, <1>8, <1>3, <2>3, <2>4, <2>5, <2>6, <2>8, Zenon DEF Filled
<1>19. StatusOK'
  BY <1>4, <1>6 DEF StatusOK
<1> QED
  BY <1>9, <1>10, <1>16, <1>18, <1>19, Zenon DEF IInv, Inv
-----------------------------------------------------------------------------
(* What the discipline says of the next operation.                           *)
LEMMA Discipline ==
  ASSUME NEW C, NEW B, NEW V, IInv(C, B, V), status = "compiling"
  PROVE  /\ acts # <<>> /\ V[N] \in DOMAIN Typings /\ <<Act.todo, C[N]>> \in Typings[V[N]]
         /\ Constrained(Op, C[N])
         /\ \A s \in Onward(Act.todo, C[N]) : s \in Typings[V[N]]
         /\ Op.op = "child" => TypesNode(Typings, Op.node)
<1>1. acts # <<>> /\ Stacked(C, B)
  BY DEF IInv, StatusOK
<1>2. N \in DOMAIN acts
  BY <1>1, Running
<1>3. V[N] \in DOMAIN Typings /\ <<Act.todo, C[N]>> \in Typings[V[N]]
  BY <1>1, <1>2 DEF IInv, Judged
<1>4. \A n \in DOMAIN Typings : \A s \in Typings[n] :
        /\ Constrained(s[1][1], s[2]) /\ Onward(s[1], s[2]) \subseteq Typings[n]
        /\ s[1][1].op = "child" => TypesNode(Typings, s[1][1].node)
  BY TypingAssumption, Zenon DEF Covers, Closed
<1>5. \A s : s = <<Act.todo, C[N]>> => s[1] = Act.todo /\ s[2] = C[N]
  OBVIOUS
<1> QED
  BY <1>1, <1>3, <1>4, <1>5 DEF Op

(* What the invariant says of the activation that runs and its frame.         *)
LEMMA Now ==
  ASSUME NEW C, NEW B, NEW V, IInv(C, B, V), status = "compiling"
  PROVE  LET d == C[N].depth
             S == Levels(B[N], d)
         IN /\ IsContext(C[N]) /\ d \in Nat
            /\ IsSeq(frame) /\ Len(frame) \in Nat /\ DOMAIN frame = 1..Len(frame) /\ Top \in DOMAIN frame
            /\ WellFormed(frame[Top]) /\ frame[Top] \in KijiFrame /\ Size = frame[Top].bytecode_size
            /\ Size \in Nat /\ (C[N].code # "none" => Size > 0)
            /\ Values(loc, C[N].kinds, S, d, Len(frame)) /\ Labels(lab, C[N].labels, S, d)
            /\ S[d] = frame[Top] /\ \A l \in 0..d : S[l] \in KijiFrame
            /\ UnitOK
<1>1. /\ acts # <<>> /\ Stacked(C, B) /\ Active(C, B) /\ Filled(C, B) /\ UnitOK
  BY DEF IInv, StatusOK
<1>2. /\ N \in DOMAIN acts /\ Act = acts[N] /\ loc = Act.loc /\ lab = Act.lab
      /\ IsContext(C[N]) /\ C[N].depth \in Nat
      /\ Top = frames[B[N] + C[N].depth] /\ Top \in DOMAIN frame
      /\ \A l \in 0..C[N].depth : B[N] + l \in DOMAIN frames
  BY <1>1, Running
<1>3. /\ IsSeq(frame) /\ \A f \in DOMAIN frame : WellFormed(frame[f])
      /\ C[N].code # "none" => frame[Top].bytecode_size > 0
  BY <1>1, Zenon DEF Filled
<1>4. Len(frame) \in Nat /\ DOMAIN frame = 1..Len(frame)
  BY <1>3, SeqFields
<1>5. \A f \in DOMAIN frame : frame[f] \in KijiFrame
  BY <1>3, IsFrame
<1>6. \A l \in 0..C[N].depth : frames[B[N] + l] \in DOMAIN frame
  BY <1>1, <1>2 DEF Stacked
<1>7. /\ Values(loc, C[N].kinds, Levels(B[N], C[N].depth), C[N].depth, Len(frame))
      /\ Labels(lab, C[N].labels, Levels(B[N], C[N].depth), C[N].depth)
  BY <1>1, <1>2, Zenon DEF Active
<1>8. \A l \in 0..C[N].depth : Levels(B[N], C[N].depth)[l] = frame[frames[B[N] + l]]
  BY DEF Levels
<1>9. frame[Top].bytecode_size \in Nat
  BY <1>2, <1>5, FrameFields
<1> QED
  BY <1>1, <1>2, <1>3, <1>4, <1>5, <1>6, <1>7, <1>8, <1>9 DEF Size

LEMMA AfterFrames ==
  ASSUME NEW b, NEW d \in Nat, NEW r
  PROVE  /\ After(b, d, r)[d] = r
         /\ \A l \in 0..d : l # d => After(b, d, r)[l] = Levels(b, d)[l]
BY DEF After, Levels

(* The locals still fit once the frame on top has grown by no instruction.    *)
LEMMA ValuesNow ==
  ASSUME NEW C, NEW B, NEW V, IInv(C, B, V), status = "compiling",
         NEW r \in KijiFrame, Grows(frame[Top], r), r.bytecode_size = frame[Top].bytecode_size
  PROVE  /\ Values(loc, C[N].kinds, After(B[N], C[N].depth, r), C[N].depth, Len(frame))
         /\ Labels(lab, C[N].labels, After(B[N], C[N].depth, r), C[N].depth)
<1> DEFINE d == C[N].depth
           S == Levels(B[N], d)
           T == After(B[N], d, r)
<1>1. /\ d \in Nat /\ Len(frame) \in Nat /\ S[d] = frame[Top] /\ \A l \in 0..d : S[l] \in KijiFrame
      /\ Values(loc, C[N].kinds, S, d, Len(frame)) /\ Labels(lab, C[N].labels, S, d)
  BY Now
<1>2. T[d] = r /\ \A l \in 0..d : l # d => T[l] = S[l]
  BY <1>1, AfterFrames
<1> HIDE DEF d, S, T
<1>3. \A l \in 0..d : /\ S[l] \in KijiFrame /\ T[l] \in KijiFrame /\ Grows(S[l], T[l])
                      /\ T[l].bytecode_size = S[l].bytecode_size
  <2> SUFFICES ASSUME NEW l \in 0..d
               PROVE  /\ T[l] \in KijiFrame /\ Grows(S[l], T[l])
                      /\ T[l].bytecode_size = S[l].bytecode_size
    BY <1>1
  <2>1. CASE l = d
    BY <1>1, <1>2, <2>1
  <2>2. CASE l # d
    BY <1>1, <1>2, <2>2, GrowsSame
  <2> QED
    BY <2>1, <2>2
<1>4. Values(loc, C[N].kinds, T, d, Len(frame))
  BY <1>1, <1>3, ValuesLater
<1>5. Labels(lab, C[N].labels, T, d)
  BY <1>1, <1>3, LabelsLater
<1> QED
  BY <1>4, <1>5 DEF d, S, T

(* A step that adds no instruction and leaves the labels as they are.         *)
LEMMA CodeStep ==
  ASSUME NEW C, NEW B, NEW V, IInv(C, B, V), status = "compiling",
         NEW t, NEW lc, NEW r, NEW c,
         Resume(t, lc, lab), SetTop(r), frames' = frames, calls' = calls, status' = status, UnitOK',
         SamePlace(C[N], c), c.code \in {C[N].code, GoesOn(C[N].code)}, c.labels = C[N].labels,
         <<t, c>> \in Typings[V[N]],
         WellFormed(r), Grows(frame[Top], r), r.outer = frame[Top].outer,
         r.bytecode_size = frame[Top].bytecode_size,
         \A P : Settled(frame[Top], P) => Settled(r, P),
         c.code = "ended" => \A P : Complete(frame[Top], P) => Complete(r, P),
         Values(lc, c.kinds, After(B[N], C[N].depth, r), C[N].depth, Len(frame))
  PROVE  Inv'
<1>1. IsContext(C[N]) /\ (C[N].code # "none" => frame[Top].bytecode_size > 0)
  BY Now
<1>2. C[N].code \in {"none", "some", "ended"}
  BY <1>1, ContextFields
<1>3. /\ c.depth = C[N].depth /\ (c.code # "none" => C[N].code # "none")
      /\ c.code = "ended" => C[N].code = "ended"
  BY <1>2 DEF SamePlace, GoesOn
<1>4. \A P : P \subseteq Waiting(P, C[N], c, lab)
  BY <1>3 DEF Waiting
<1>5. FrameStep(C, r, c, lab)
  <2>1. \A P : Settled(frame[Top], P) => Settled(r, Waiting(P, C[N], c, lab))
    BY <1>4, MoreOwed
  <2>2. c.code = "ended" =>
          \A P : Settled(frame[Top], P) /\ (C[N].code = "ended" => Complete(frame[Top], P))
                 => Complete(r, Waiting(P, C[N], c, lab))
    BY <1>3, <1>4, MoreOwed
  <2>3. c.code # "none" => r.bytecode_size > 0
    BY <1>1, <1>3
  <2> QED
    BY <2>1, <2>2, <2>3 DEF FrameStep
<1>6. Labels(lab, C[N].labels, After(B[N], C[N].depth, r), C[N].depth)
  BY ValuesNow, IsFrame
<1>7. ActStep(C, B, r, c, lc, lab)
  BY <1>6 DEF ActStep
<1> QED
  BY <1>5, <1>7, TopStep

(* A step that leaves the frame as it is.                                    *)
LEMMA LocalStep ==
  ASSUME NEW C, NEW B, NEW V, IInv(C, B, V), status = "compiling",
         NEW t, NEW lc, NEW c,
         Resume(t, lc, lab), frame' = frame, frames' = frames, calls' = calls, status' = status, UnitOK',
         SamePlace(C[N], c), c.code = C[N].code, c.labels = C[N].labels,
         <<t, c>> \in Typings[V[N]],
         Values(lc, c.kinds, Levels(B[N], C[N].depth), C[N].depth, Len(frame))
  PROVE  Inv'
<1>1. /\ IsSeq(frame) /\ Top \in DOMAIN frame /\ WellFormed(frame[Top]) /\ frame[Top] \in KijiFrame
      /\ C[N].depth \in Nat /\ Levels(B[N], C[N].depth)[C[N].depth] = frame[Top]
  BY Now
<1>2. SetTop(frame[Top])
  BY <1>1 DEF SetTop, IsSeq
<1>3. After(B[N], C[N].depth, frame[Top]) = Levels(B[N], C[N].depth)
  BY <1>1 DEF After, Levels
<1>4. Grows(frame[Top], frame[Top])
  BY <1>1, GrowsSame
<1> QED
  BY <1>1, <1>2, <1>3, <1>4, CodeStep
-----------------------------------------------------------------------------
(* Instructions are emitted.                                                *)

(* The locals and the labels once the frame on top has one more instruction.  *)
LEMMA ValuesEmit ==
  ASSUME NEW C, NEW B, NEW V, IInv(C, B, V), status = "compiling",
         NEW in \in Instruction, NEW imm \in Nat, in.at = Size
  PROVE  LET d  == C[N].depth
             ks == C[N].kinds
             T  == After(B[N], d, Asm(frame[Top], in, imm))
         IN /\ Values(loc, [v \in DOMAIN ks |-> Past(ks[v], d)], T, d, Len(frame))
            /\ Labels(lab, C[N].labels, T, d)
<1> DEFINE d  == C[N].depth
           ks == C[N].kinds
           S  == Levels(B[N], d)
           s  == Asm(frame[Top], in, imm)
           T  == After(B[N], d, s)
<1>1. /\ d \in Nat /\ Len(frame) \in Nat /\ S[d] = frame[Top] /\ \A l \in 0..d : S[l] \in KijiFrame
      /\ Values(loc, ks, S, d, Len(frame)) /\ Labels(lab, C[N].labels, S, d)
      /\ frame[Top] \in KijiFrame /\ Size = frame[Top].bytecode_size /\ Size \in Nat
  BY Now
<1>2. T[d] = s /\ \A l \in 0..d : l # d => T[l] = S[l]
  BY <1>1, AfterFrames
<1>3. s \in KijiFrame /\ Grows(frame[Top], s) /\ frame[Top].bytecode_size # s.bytecode_size
  <2>1. frame[Top].bytecode_size < s.bytecode_size
    BY <1>1, AsmGrows
  <2>2. s \in KijiFrame /\ Grows(frame[Top], s)
    BY <1>1, AsmGrows, AsmFrame
  <2>3. s.bytecode_size \in Nat
    BY <2>2, FrameFields
  <2> HIDE DEF s
  <2> QED
    BY <1>1, <2>1, <2>2, <2>3
<1> HIDE DEF d, ks, S, T, s
<1>4. Values(loc, [v \in DOMAIN ks |-> Past(ks[v], d)], T, d, Len(frame))
  BY <1>1, <1>2, <1>3, ValuesPast
<1>5. \A l \in 0..d : S[l] \in KijiFrame /\ T[l] \in KijiFrame /\ Grows(S[l], T[l])
  <2> SUFFICES ASSUME NEW l \in 0..d
               PROVE  T[l] \in KijiFrame /\ Grows(S[l], T[l])
    BY <1>1
  <2>1. CASE l = d
    BY <1>1, <1>2, <1>3, <2>1
  <2>2. CASE l # d
    BY <1>1, <1>2, <2>2, GrowsSame
  <2> QED
    BY <2>1, <2>2
<1>6. Labels(lab, C[N].labels, T, d)
  BY <1>1, <1>5, LabelsLater
<1> QED
  BY <1>4, <1>6 DEF d, ks, S, T, s

LEMMA AppendStep ==
  ASSUME NEW C, NEW B, NEW V, IInv(C, B, V), status = "compiling",
         NEW t, NEW lc, NEW lb, NEW in \in Instruction, NEW imm \in Nat, NEW c,
         Resume(t, lc, lb), SetTop(Asm(frame[Top], in, imm)),
         frames' = frames, calls' = calls, status' = status, UnitOK',
         SamePlace(C[N], c), c.code = "ended" => IsReturn(in.op), <<t, c>> \in Typings[V[N]],
         in.at = Size, Within(in, Size + 2 + 2 * Len(in.args) + imm), Fits(frame[Top], in),
         \A level \in Nat : Pending(lab, C[N].labels, level) \subseteq Pending(lb, c.labels, level),
         IsJump(in.op) /\ Short(Asm(frame[Top], in, imm)) =>
           Lands(frame[Top], in.target) \/ in.slot \in Pending(lb, c.labels, C[N].depth),
         Values(lc, c.kinds, After(B[N], C[N].depth, Asm(frame[Top], in, imm)), C[N].depth, Len(frame)),
         Labels(lb, c.labels, After(B[N], C[N].depth, Asm(frame[Top], in, imm)), C[N].depth)
  PROVE  Inv'
<1> DEFINE s == Asm(frame[Top], in, imm)
<1>1. /\ WellFormed(frame[Top]) /\ frame[Top] \in KijiFrame /\ Size = frame[Top].bytecode_size
      /\ Size \in Nat /\ C[N].depth \in Nat
  BY Now
<1>2. s.bytecode_size = Size + 2 + 2 * Len(in.args) + imm /\ s.outer = frame[Top].outer
  BY <1>1, AsmFrame
<1>3. WellFormed(s)
  BY <1>1, <1>2, AsmWellFormed
<1>4. Grows(frame[Top], s) /\ s.bytecode_size > 0
  <2>1. Grows(frame[Top], s) /\ frame[Top].bytecode_size < s.bytecode_size
    BY <1>1, AsmGrows
  <2>2. s.bytecode_size \in Nat
    BY <1>3, IsFrame, FrameFields
  <2> HIDE DEF s
  <2> QED
    BY <1>1, <2>1, <2>2
<1>5. \A P : /\ P \subseteq Waiting(P, C[N], c, lb)
             /\ Pending(lb, c.labels, C[N].depth) \subseteq Waiting(P, C[N], c, lb)
  BY <1>1 DEF Waiting, SamePlace
<1>6. \A P : Settled(frame[Top], P) =>
        /\ Settled(s, Waiting(P, C[N], c, lb))
        /\ IsReturn(in.op) => Complete(s, Waiting(P, C[N], c, lb))
  <2> SUFFICES ASSUME NEW P, Settled(frame[Top], P)
               PROVE  /\ Settled(s, Waiting(P, C[N], c, lb))
                      /\ IsReturn(in.op) => Complete(s, Waiting(P, C[N], c, lb))
    OBVIOUS
  <2>1. PICK Q : Q = Waiting(P, C[N], c, lb)
    OBVIOUS
  <2>2. P \subseteq Q /\ (IsJump(in.op) /\ Short(s) => Lands(frame[Top], in.target) \/ in.slot \in Q)
    BY <1>5, <2>1
  <2>3. Settled(s, Q) /\ (IsReturn(in.op) => Complete(s, Q))
    BY <1>1, <2>2, AsmSettled
  <2> QED
    BY <2>1, <2>3
<1> HIDE DEF s
<1>7. FrameStep(C, s, c, lb)
  BY <1>2, <1>3, <1>4, <1>6 DEF FrameStep
<1>8. ActStep(C, B, s, c, lc, lb)
  BY <1>1 DEF ActStep, s
<1> QED
  BY <1>7, <1>8, TopStep DEF s

(* An instruction that is no jump.                                          *)
LEMMA EmitStep ==
  ASSUME NEW C, NEW B, NEW V, IInv(C, B, V), status = "compiling",
         NEW t, NEW in \in Instruction, NEW imm \in Nat,
         Resume(t, loc, lab), SetTop(Asm(frame[Top], in, imm)),
         frames' = frames, calls' = calls, status' = status, UnitOK',
         <<t, Emits(C[N], in.op)>> \in Typings[V[N]],
         in.at = Size, in.slot = 0, Fits(frame[Top], in), ~ IsJump(in.op)
  PROVE  Inv'
<1>1. IsContext(C[N]) /\ C[N].depth \in Nat /\ Size \in Nat
  BY Now
<1>2. PICK c : c = Emits(C[N], in.op)
  OBVIOUS
<1>3. /\ SamePlace(C[N], c) /\ (c.code = "ended" => IsReturn(in.op)) /\ c.labels = C[N].labels
      /\ c.kinds = [v \in DOMAIN C[N].kinds |-> Past(C[N].kinds[v], C[N].depth)]
  BY <1>1, <1>2, EmitsContext
<1>4. Within(in, Size + 2 + 2 * Len(in.args) + imm)
  <2>1. PICK n : n = Len(in.args)
    OBVIOUS
  <2>2. n \in Nat
    BY <2>1, InstructionFields
  <2>3. Size < Size + 2 + 2 * n + imm /\ 0 < Size + 2 + 2 * n + imm
    BY <1>1, <2>2
  <2> QED
    BY <2>1, <2>3 DEF Within
<1>5. /\ Values(loc, c.kinds, After(B[N], C[N].depth, Asm(frame[Top], in, imm)), C[N].depth, Len(frame))
      /\ Labels(lab, c.labels, After(B[N], C[N].depth, Asm(frame[Top], in, imm)), C[N].depth)
  BY <1>3, ValuesEmit
<1> QED
  BY <1>2, <1>3, <1>4, <1>5, AppendStep

(* A jump to label l.                                                       *)
LEMMA JumpStep ==
  ASSUME NEW C, NEW B, NEW V, IInv(C, B, V), status = "compiling",
         NEW t, NEW in \in Instruction, NEW imm \in Nat, NEW l,
         Resume(t, loc, Reserve(l, in.slot)), SetTop(Asm(frame[Top], in, imm)),
         frames' = frames, calls' = calls, status' = status, UnitOK',
         <<t, Jumps(C[N], in.op, l)>> \in Typings[V[N]],
         IsFree(C[N], l) \/ IsPending(C[N], l) \/ IsPut(C[N], l),
         in.at = Size, Within(in, Size + 2 + 2 * Len(in.args) + imm), Fits(frame[Top], in),
         ~ IsReturn(in.op),
         IsPut(C[N], l) /\ Label(l).address \in Nat /\ Lands(frame[Top], Label(l).address)
           /\ Short(Asm(frame[Top], in, imm)) => in.target = Label(l).address
  PROVE  Inv'
<1> DEFINE s == Asm(frame[Top], in, imm)
           T == After(B[N], C[N].depth, s)
<1>1. /\ IsContext(C[N]) /\ C[N].depth \in Nat /\ Size \in Nat /\ frame[Top] \in KijiFrame
      /\ Size = frame[Top].bytecode_size
  BY Now
<1>2. PICK c : c = Jumps(C[N], in.op, l)
  OBVIOUS
<1>3. /\ SamePlace(C[N], c) /\ c.code = "some"
      /\ c.kinds = [v \in DOMAIN C[N].kinds |-> Past(C[N].kinds[v], C[N].depth)]
      /\ c.labels = IF l \notin DOMAIN C[N].labels
                    THEN Assign(C[N].labels, l, Target("pending", C[N].depth))
                    ELSE C[N].labels
  BY <1>1, <1>2, JumpsContext
<1>4. /\ Values(loc, c.kinds, T, C[N].depth, Len(frame))
      /\ Labels(lab, C[N].labels, T, C[N].depth)
      /\ Labels(lab, C[N].labels, Levels(B[N], C[N].depth), C[N].depth)
      /\ Levels(B[N], C[N].depth)[C[N].depth] = frame[Top]
  BY <1>3, ValuesEmit, Now
<1> HIDE DEF s, T
<1>5. /\ in.slot \in Nat
      /\ \/ l \notin DOMAIN C[N].labels
         \/ C[N].labels[l] = Target("pending", C[N].depth)
         \/ C[N].labels[l] = Target("solved", C[N].depth)
  BY InstructionFields DEF IsFree, IsPending, IsPut
<1>6. /\ Labels(Reserve(l, in.slot), c.labels, T, C[N].depth)
      /\ \A level : Pending(lab, C[N].labels, level) \subseteq Pending(Reserve(l, in.slot), c.labels, level)
  BY <1>1, <1>3, <1>4, <1>5, LabelsReserve, SMTT(30)
<1>7. \/ in.slot \in Pending(Reserve(l, in.slot), c.labels, C[N].depth)
      \/ /\ l \in DOMAIN C[N].labels /\ C[N].labels[l] = Target("solved", C[N].depth)
         /\ Label(l).address \in Nat /\ Lands(frame[Top], Label(l).address)
  BY <1>1, <1>3, <1>4, <1>5, LabelsReserve, SMTT(30)
<1>8. IsJump(in.op) /\ Short(s) =>
        Lands(frame[Top], in.target) \/ in.slot \in Pending(Reserve(l, in.slot), c.labels, C[N].depth)
  BY <1>7 DEF IsPut, IsFree, s
<1> QED
  BY <1>2, <1>3, <1>4, <1>6, <1>8, AppendStep DEF s, T
-----------------------------------------------------------------------------
(* The C locals of the activation that runs.                                  *)
LEMMA UnitSame ==
  ASSUME UnitOK, cu' = cu, DOMAIN frame' = DOMAIN frame
  PROVE  UnitOK'
BY DEF UnitOK

LEMMA TopUnit ==
  ASSUME NEW r, SetTop(r)
  PROVE  DOMAIN frame' = DOMAIN frame
BY DEF SetTop

LEMMA KnownFits ==
  ASSUME NEW C, NEW B, NEW V, IInv(C, B, V), status = "compiling", NEW v, Known(C[N], v)
  PROVE  LET k == C[N].kinds[v]
             S == Levels(B[N], C[N].depth)
         IN /\ loc[v] \in Int /\ k.level \in 0..C[N].depth
            /\ FitsIn(loc[v], k, S[k.level], Len(frame))
            /\ k.level = C[N].depth => FitsIn(loc[v], k, frame[Top], Len(frame))
            /\ IsMark(k) => "start_offset" \in DOMAIN C[N].kinds /\ loc["start_offset"] < loc[v]
<1>1. /\ Values(loc, C[N].kinds, Levels(B[N], C[N].depth), C[N].depth, Len(frame))
      /\ Levels(B[N], C[N].depth)[C[N].depth] = frame[Top]
  BY Now
<1>2. /\ C[N].kinds[v].level \in 0..C[N].depth
      /\ FitsIn(loc[v], C[N].kinds[v], Levels(B[N], C[N].depth)[C[N].kinds[v].level], Len(frame))
      /\ IsMark(C[N].kinds[v]) => "start_offset" \in DOMAIN C[N].kinds /\ loc["start_offset"] < loc[v]
  BY <1>1, Zenon DEF Values, Known
<1>3. loc[v] \in Int
  BY <1>2, Zenon DEF FitsIn
<1> QED
  BY <1>1, <1>2, <1>3

LEMMA RegisterFits ==
  ASSUME NEW C, NEW B, NEW V, IInv(C, B, V), status = "compiling", NEW v, IsRegisterOf(C[N], v)
  PROVE  /\ loc[v] \in Nat /\ IsLocal(frame[Top], loc[v]) /\ IsRegister(loc[v])
         /\ TypeOf(loc[v]) = C[N].kinds[v].type /\ C[N].kinds[v].type \in RegTypes
         /\ U16(loc[v]) = loc[v]
         /\ C[N].kinds[v].is = "register" /\ C[N].kinds[v].level = C[N].depth
<1>1. PICK k : k = C[N].kinds[v]
  OBVIOUS
<1>2. k.is = "register" /\ k.level = C[N].depth /\ Known(C[N], v)
  BY <1>1 DEF IsRegisterOf, Register, Kind
<1>3. FitsIn(loc[v], k, frame[Top], Len(frame))
  BY <1>1, <1>2, KnownFits
<1>4. WellFormed(frame[Top]) /\ frame[Top] \in KijiFrame
  BY Now
<1>5. /\ Len(frame[Top].locals) \in Nat /\ Len(frame[Top].locals) < Word
      /\ frame[Top].locals \in Seq(RegTypes) /\ DOMAIN frame[Top].locals = 1..Len(frame[Top].locals)
  BY <1>4, FrameFields DEF WellFormed
<1>6. IsLocal(frame[Top], loc[v]) /\ frame[Top].locals[loc[v] + 1] = k.type
  BY <1>2, <1>3 DEF FitsIn
<1>7. loc[v] \in Nat /\ loc[v] < Len(frame[Top].locals) /\ loc[v] \in 0..(Word - 1)
  BY <1>5, <1>6, WordAssumption DEF IsLocal
<1>8. loc[v] + 1 \in DOMAIN frame[Top].locals
  BY <1>5, <1>7
<1>9. k.type \in RegTypes
  BY <1>5, <1>6, <1>8, ElementOfSeq
<1> QED
  BY <1>1, <1>2, <1>5, <1>6, <1>7, <1>9, U16Small DEF IsRegister, TypeOf

(* A local is assigned, and nothing else happens.                            *)
LEMMA AssignStep ==
  ASSUME NEW C, NEW B, NEW V, IInv(C, B, V), status = "compiling",
         NEW t, NEW v, NEW x, NEW k,
         Resume(t, Assign(loc, v, x), lab), frame' = frame, frames' = frames,
         calls' = calls, status' = status, UnitOK',
         <<t, Gets(C[N], v, k)>> \in Typings[V[N]],
         v # "start_offset" \/ v \notin DOMAIN C[N].kinds,
         k.level \in 0..C[N].depth,
         FitsIn(x, k, Levels(B[N], C[N].depth)[k.level], Len(frame)),
         IsMark(k) => /\ v # "start_offset" /\ "start_offset" \in DOMAIN C[N].kinds
                      /\ loc["start_offset"] < x
  PROVE  Inv'
<1>1. /\ IsContext(C[N]) /\ C[N].depth \in Nat /\ Len(frame) \in Nat
      /\ Values(loc, C[N].kinds, Levels(B[N], C[N].depth), C[N].depth, Len(frame))
  BY Now
<1>2. PICK c : c = Gets(C[N], v, k)
  OBVIOUS
<1>3. /\ SamePlace(C[N], c) /\ c.code = C[N].code /\ c.kinds = Assign(C[N].kinds, v, k)
      /\ c.labels = C[N].labels
  BY <1>1, <1>2, GetsContext
<1>4. Values(Assign(loc, v, x), c.kinds, Levels(B[N], C[N].depth), C[N].depth, Len(frame))
  BY <1>1, <1>3, ValuesGets
<1> QED
  BY <1>2, <1>3, <1>4, LocalStep

LEMMA IntegerFits ==
  ASSUME NEW x \in Int, NEW r, NEW n
  PROVE  FitsIn(x, Integer, r, n) /\ Integer.level = 0 /\ ~ IsMark(Integer)
BY DEF FitsIn, Integer, Kind, IsMark

(* Nothing happens but that the handler goes on.                             *)
LEMMA GoOnStep ==
  ASSUME NEW C, NEW B, NEW V, IInv(C, B, V), status = "compiling", NEW t,
         Resume(t, loc, lab), frame' = frame, frames' = frames,
         calls' = calls, status' = status, UnitOK', <<t, C[N]>> \in Typings[V[N]]
  PROVE  Inv'
<1>1. /\ IsContext(C[N])
      /\ Values(loc, C[N].kinds, Levels(B[N], C[N].depth), C[N].depth, Len(frame))
  BY Now
<1> QED
  BY <1>1, LocalStep DEF SamePlace

(* The compiler stops.                                                      *)
LEMMA Unchanged ==
  ASSUME NEW C, NEW B, NEW V, IInv(C, B, V), UNCHANGED <<frame, frames, cu, acts, calls>>, StatusOK'
  PROVE  Inv'
<1>1. Stacked(C, B)'
  BY DEF IInv, Stacked, N
<1>2. Judged(C, V)'
  BY DEF IInv, Judged, N, Act
<1>3. Active(C, B)'
  BY DEF IInv, Active, Levels
<1>4. Filled(C, B)'
  BY DEF IInv, Filled, N, Top, Owed, OnStack
<1>5. UnitOK'
  BY DEF IInv, UnitOK
<1> QED
  BY <1>1, <1>2, <1>3, <1>4, <1>5 DEF IInv, Inv

LEMMA StopStep ==
  ASSUME NEW C, NEW B, NEW V, IInv(C, B, V), NEW why \in {"assert", "abort", "panic", "exit"}, Stop(why)
  PROVE  Inv'
BY Unchanged DEF IInv, StatusOK, Stop

(* What asserts the type of a local: it stops the compiler, or the local is a  *)
(* register, and the context may say so before the operation.                *)
LEMMA LocalType ==
  ASSUME NEW C, NEW B, NEW V, IInv(C, B, V), status = "compiling",
         NEW v, Known(C[N], v), IsRegister(loc[v])
  PROVE  /\ IsLocal(frame[Top], loc[v]) /\ TypeOf(loc[v]) \in RegTypes
         /\ FitsIn(loc[v], Register(TypeOf(loc[v]), C[N].depth), frame[Top], Len(frame))
<1>1. loc[v] \in Int
  BY KnownFits
<1>2. frame[Top] \in KijiFrame
  BY Now
<1>3. /\ Len(frame[Top].locals) \in Nat /\ frame[Top].locals \in Seq(RegTypes)
      /\ DOMAIN frame[Top].locals = 1..Len(frame[Top].locals)
  BY <1>2, FrameFields
<1>4. IsLocal(frame[Top], loc[v]) /\ loc[v] + 1 \in DOMAIN frame[Top].locals
  BY <1>1, <1>3 DEF IsRegister, IsLocal
<1>5. TypeOf(loc[v]) \in RegTypes
  BY <1>3, <1>4, ElementOfSeq DEF TypeOf
<1> QED
  BY <1>1, <1>4, <1>5 DEF FitsIn, Register, Kind, TypeOf

LEMMA Refined ==
  ASSUME NEW C, NEW B, NEW V, IInv(C, B, V), status = "compiling",
         NEW v, Known(C[N], v), IsFreeVariable(v), IsRegister(loc[v]),
         <<Act.todo, Gets(C[N], v, Register(TypeOf(loc[v]), C[N].depth))>> \in Typings[V[N]]
  PROVE  \E D : /\ IInv(D, B, V) /\ IsRegisterOf(D[N], v) /\ D[N].kinds[v].type = TypeOf(loc[v])
                /\ Holds(D[N], v, TypeOf(loc[v]))
                /\ D[N].depth = C[N].depth /\ D[N].labels = C[N].labels
<1> DEFINE k == Register(TypeOf(loc[v]), C[N].depth)
<1>1. PICK c : c = Gets(C[N], v, k)
  OBVIOUS
<1>2. /\ Stacked(C, B) /\ Judged(C, V) /\ Active(C, B) /\ Filled(C, B) /\ UnitOK /\ StatusOK
      /\ acts # <<>>
  BY DEF IInv, StatusOK
<1>3. /\ N \in DOMAIN acts /\ Act = acts[N] /\ loc = Act.loc /\ lab = Act.lab
      /\ IsContext(C[N]) /\ C[N].depth \in Nat /\ DOMAIN acts = 1..N /\ N \in Nat
  BY <1>2, Running
<1>4. /\ SamePlace(C[N], c) /\ c.code = C[N].code /\ c.kinds = Assign(C[N].kinds, v, k)
      /\ c.labels = C[N].labels
  BY <1>1, <1>3, GetsContext
<1>5. IsContext(c) /\ c.of = C[N].of /\ c.depth = C[N].depth /\ c.ret = C[N].ret
  BY <1>4 DEF SamePlace
<1>6. PICK D : D = [i \in DOMAIN acts |-> IF i = N THEN c ELSE C[i]]
  OBVIOUS
<1>7. DOMAIN D = DOMAIN acts /\ D[N] = c /\ \A i \in DOMAIN acts : i # N => D[i] = C[i]
  BY <1>3, <1>6
<1>8. \A i \in DOMAIN acts : /\ D[i].depth = C[i].depth /\ D[i].labels = C[i].labels
                             /\ D[i].of = C[i].of /\ D[i].ret = C[i].ret /\ D[i].code = C[i].code
                             /\ IsContext(C[i]) => IsContext(D[i])
  BY <1>4, <1>5, <1>7
<1>9. k.is = "register" /\ k.type = TypeOf(loc[v]) /\ k.level = C[N].depth
  BY DEF Register, Kind
<1>10. c.kinds[v] = k /\ v \in DOMAIN c.kinds
  BY <1>4 DEF Assign
<1>11. Stacked(D, B)
  <2>1. /\ frames \in Seq(Nat) /\ Len(frames) >= 1 /\ frames[1] = 1
        /\ \A i \in DOMAIN frames : frames[i] \in DOMAIN frame
        /\ \A i, j \in DOMAIN frames : i < j => frames[i] < frames[j]
        /\ IsSeq(acts) /\ DOMAIN D = DOMAIN acts /\ DOMAIN B = DOMAIN acts
        /\ acts = <<>> => Len(frames) = 1
        /\ B[1] = 1 /\ Len(frames) = B[N] + C[N].depth
    BY <1>2, <1>7 DEF Stacked
  <2>2. \A i \in DOMAIN acts : /\ IsAct(acts[i]) /\ IsContext(C[i]) /\ B[i] \in Nat \ {0}
                               /\ C[i].of = "program" <=> i = 1
                               /\ acts[i].id <= calls
    BY <1>2, Zenon DEF Stacked
  <2>3. /\ \A i, j \in DOMAIN acts : i < j => B[i] + C[i].depth <= B[j]
        /\ \A i, j \in DOMAIN acts : j = i + 1 => B[j] = B[i] + C[i].depth
    BY <1>2, Zenon DEF Stacked
  <2>4. \A i \in DOMAIN acts : /\ IsAct(acts[i]) /\ IsContext(D[i]) /\ B[i] \in Nat \ {0}
                               /\ D[i].of = "program" <=> i = 1
                               /\ acts[i].id <= calls
    BY <1>8, <2>2
  <2>5. /\ \A i, j \in DOMAIN acts : i < j => B[i] + D[i].depth <= B[j]
        /\ \A i, j \in DOMAIN acts : j = i + 1 => B[j] = B[i] + D[i].depth
    BY <1>8, <2>3
  <2>6. Len(frames) = B[N] + D[N].depth
    BY <1>3, <1>8, <2>1
  <2> QED
    BY <2>1, <2>4, <2>5, <2>6 DEF Stacked
<1>12. Judged(D, V)
  <2>1. <<Act.todo, D[N]>> \in Typings[V[N]]
    BY <1>1, <1>7
  <2>2. \A i \in DOMAIN acts : V[i] \in DOMAIN Typings
    BY <1>2 DEF Judged
  <2>3. ASSUME NEW i \in DOMAIN acts, NEW j \in DOMAIN acts, j = i + 1
        PROVE  /\ IsFreeVariable(acts[j].dst) /\ NoneHere(D[i].kinds, D[i].depth) /\ D[i].code # "ended"
               /\ \A m \in D[j].ret :
                    /\ Givable(m)
                    /\ <<acts[i].todo, Gets(D[i], acts[j].dst, Given(D[i], m))>> \in Typings[V[i]]
    <3>1. D[i] = C[i] /\ D[j].ret = C[j].ret
      BY <1>3, <1>7, <1>8, <2>3
    <3>2. /\ IsFreeVariable(acts[j].dst) /\ NoneHere(C[i].kinds, C[i].depth) /\ C[i].code # "ended"
          /\ \A m \in C[j].ret :
               /\ Givable(m)
               /\ <<acts[i].todo, Gets(C[i], acts[j].dst, Given(C[i], m))>> \in Typings[V[i]]
      BY <1>2, <2>3, Zenon DEF Judged
    <3> QED
      BY <3>1, <3>2
  <2> QED
    BY <2>1, <2>2, <2>3 DEF Judged
<1>13. Active(D, B)
  <2>1. Values(loc, c.kinds, Levels(B[N], C[N].depth), C[N].depth, Len(frame))
    <3>1. /\ Values(loc, C[N].kinds, Levels(B[N], C[N].depth), C[N].depth, Len(frame))
          /\ Levels(B[N], C[N].depth)[C[N].depth] = frame[Top] /\ Len(frame) \in Nat
      BY Now
    <3>2. /\ k.level \in 0..C[N].depth /\ ~ IsMark(k)
          /\ FitsIn(loc[v], k, Levels(B[N], C[N].depth)[k.level], Len(frame))
      BY <1>3, <1>9, <3>1, LocalType DEF IsMark
    <3>3. PICK lc, x : lc = Assign(loc, v, x) /\ x = loc[v]
      OBVIOUS
    <3>4. Values(lc, c.kinds, Levels(B[N], C[N].depth), C[N].depth, Len(frame))
      <4> HIDE DEF k
      <4>1. v # "start_offset"
        BY DEF IsFreeVariable
      <4> QED
        BY <1>3, <1>4, <3>1, <3>2, <3>3, <4>1, ValuesGets
    <3>5. v \in DOMAIN loc
      BY <3>1 DEF Values, Known
    <3>6. DOMAIN lc = DOMAIN loc /\ \A w \in DOMAIN loc : lc[w] = loc[w]
      BY <3>3, <3>5 DEF Assign
    <3>7. DOMAIN lc = DOMAIN c.kinds
      BY <3>4 DEF Values
    <3> QED
      BY <3>4, <3>6, <3>7 DEF Values
  <2> QED
    BY <1>2, <1>3, <1>4, <1>5, <1>7, <2>1 DEF Active
<1>14. Filled(D, B)
  <2>1. \A f : Owed(D, B, f) = Owed(C, B, f)
    BY <1>8 DEF Owed
  <2> QED
    BY <1>2, <1>3, <1>8, <2>1 DEF Filled
<1>15. IInv(D, B, V)
  BY <1>2, <1>11, <1>12, <1>13, <1>14 DEF IInv
<1>16. Known(D[N], v) /\ D[N].kinds[v] = Register(TypeOf(loc[v]), D[N].depth)
  BY <1>5, <1>7, <1>10 DEF Known
<1>17. IsRegisterOf(D[N], v) /\ D[N].kinds[v].type = TypeOf(loc[v])
  <2>1. PICK x : x = D[N].kinds[v]
    OBVIOUS
  <2>2. x = Register(TypeOf(loc[v]), D[N].depth) /\ x.type = TypeOf(loc[v])
    BY <1>16, <2>1 DEF Register, Kind
  <2> QED
    BY <1>16, <2>1, <2>2 DEF IsRegisterOf
<1>18. Holds(D[N], v, TypeOf(loc[v]))
  BY <1>16 DEF Holds
<1> QED
  BY <1>4, <1>5, <1>7, <1>15, <1>17, <1>18
-----------------------------------------------------------------------------
(* One lemma per action.  First those that touch no frame.                    *)

LEMMA SetStep ==
  ASSUME NEW C, NEW B, NEW V, IInv(C, B, V), Set
  PROVE  Inv'
<1>1. /\ status = "compiling" /\ Op.op = "set" /\ Resume(Tail(Act.todo), Assign(loc, Op.dst, loc[Op.src]), lab)
      /\ frame' = frame /\ frames' = frames /\ cu' = cu /\ calls' = calls /\ status' = status
  BY DEF Set, Does, ContinueSet, Proceed
<1>2. Known(C[N], Op.src) /\ IsFreeVariable(Op.dst)
  BY <1>1, Discipline, Zenon DEF Constrained
<1>3. <<Tail(Act.todo), Gets(C[N], Op.dst, C[N].kinds[Op.src])>> \in Onward(Act.todo, C[N])
  BY <1>1, Zenon DEF Onward, Op
<1>4. UnitOK'
  BY <1>1, Now, UnitSame
<1>5. PICK k : k = C[N].kinds[Op.src]
  OBVIOUS
<1>6. /\ k.level \in 0..C[N].depth
      /\ FitsIn(loc[Op.src], k, Levels(B[N], C[N].depth)[k.level], Len(frame))
      /\ IsMark(k) => "start_offset" \in DOMAIN C[N].kinds /\ loc["start_offset"] < loc[Op.src]
  BY <1>1, <1>2, <1>5, KnownFits
<1>7. <<Tail(Act.todo), Gets(C[N], Op.dst, k)>> \in Typings[V[N]]
  BY <1>1, <1>3, <1>5, Discipline
<1>8. PICK v, x : v = Op.dst /\ x = loc[Op.src]
  OBVIOUS
<1>9. v # "start_offset"
  BY <1>2, <1>8 DEF IsFreeVariable
<1>10. /\ Resume(Tail(Act.todo), Assign(loc, v, x), lab)
       /\ <<Tail(Act.todo), Gets(C[N], v, k)>> \in Typings[V[N]]
       /\ FitsIn(x, k, Levels(B[N], C[N].depth)[k.level], Len(frame))
       /\ IsMark(k) => "start_offset" \in DOMAIN C[N].kinds /\ loc["start_offset"] < x
  BY <1>1, <1>6, <1>7, <1>8
<1> QED
  BY <1>1, <1>4, <1>6, <1>9, <1>10, AssignStep

LEMMA NarrowStep ==
  ASSUME NEW C, NEW B, NEW V, IInv(C, B, V), Narrow
  PROVE  Inv'
<1>1. /\ status = "compiling" /\ Op.op = "narrow"
      /\ Resume(Tail(Act.todo), Assign(loc, Op.dst, U16(loc[Op.dst])), lab)
      /\ frame' = frame /\ frames' = frames /\ cu' = cu /\ calls' = calls /\ status' = status
  BY DEF Narrow, Does, ContinueSet, Proceed
<1>2. Known(C[N], Op.dst) /\ IsFreeVariable(Op.dst)
  BY <1>1, Discipline, Zenon DEF Constrained
<1>3. <<Tail(Act.todo), IF IsRegisterOf(C[N], Op.dst) THEN C[N] ELSE Gets(C[N], Op.dst, Integer)>>
         \in Onward(Act.todo, C[N])
  BY <1>1, Zenon DEF Onward, Op
<1>4. UnitOK'
  BY <1>1, Now, UnitSame
<1>5. CASE IsRegisterOf(C[N], Op.dst)
  <2>1. /\ IsContext(C[N])
        /\ Values(loc, C[N].kinds, Levels(B[N], C[N].depth), C[N].depth, Len(frame))
    BY <1>1, Now
  <2>2. U16(loc[Op.dst]) = loc[Op.dst] /\ Op.dst \in DOMAIN loc
    BY <1>1, <1>2, <1>5, <2>1, RegisterFits DEF Values, Known
  <2>3. PICK lc : lc = Assign(loc, Op.dst, U16(loc[Op.dst]))
    OBVIOUS
  <2>4. DOMAIN lc = DOMAIN loc /\ \A w \in DOMAIN loc : lc[w] = loc[w]
    BY <2>2, <2>3 DEF Assign
  <2>5. Values(lc, C[N].kinds, Levels(B[N], C[N].depth), C[N].depth, Len(frame))
    BY <2>1, <2>4 DEF Values
  <2>6. <<Tail(Act.todo), C[N]>> \in Typings[V[N]]
    BY <1>1, <1>3, <1>5, Discipline
  <2> QED
    BY <1>1, <1>4, <2>1, <2>3, <2>5, <2>6, LocalStep DEF SamePlace
<1>6. CASE ~ IsRegisterOf(C[N], Op.dst)
  <2>1. <<Tail(Act.todo), Gets(C[N], Op.dst, Integer)>> \in Typings[V[N]]
    BY <1>1, <1>3, <1>6, Discipline
  <2>2. loc[Op.dst] \in Int
    BY <1>1, <1>2, KnownFits
  <2>3. PICK x : x = U16(loc[Op.dst])
    OBVIOUS
  <2>4. x \in Int
    BY <2>2, <2>3, U16Nat
  <2>5. C[N].depth \in Nat
    BY <1>1, Now
  <2>6. PICK v, k : v = Op.dst /\ k = Integer
    OBVIOUS
  <2>7. /\ Resume(Tail(Act.todo), Assign(loc, v, x), lab) /\ v # "start_offset"
        /\ <<Tail(Act.todo), Gets(C[N], v, k)>> \in Typings[V[N]]
    BY <1>1, <1>2, <2>1, <2>3, <2>6 DEF IsFreeVariable
  <2>8. /\ k.level \in 0..C[N].depth /\ ~ IsMark(k)
        /\ FitsIn(x, k, Levels(B[N], C[N].depth)[k.level], Len(frame))
    BY <2>4, <2>5, <2>6, IntegerFits
  <2> QED
    BY <1>1, <1>4, <2>7, <2>8, AssignStep
<1> QED
  BY <1>5, <1>6

LEMMA SwitchOfKnown ==
  ASSUME NEW C, NEW B, NEW V, IInv(C, B, V), Switch, IsRegisterOf(C[N], Op.on)
  PROVE  Inv'
<1>1. status = "compiling" /\ Op.op = "switch"
  BY DEF Switch, Does
<1>2. <<Op.cases[C[N].kinds[Op.on].type] \o Tail(Act.todo), C[N]>> \in Onward(Act.todo, C[N])
  BY <1>1, Zenon DEF Onward, Op
<1>3. IsRegister(loc[Op.on]) /\ TypeOf(loc[Op.on]) = C[N].kinds[Op.on].type
  BY <1>1, RegisterFits
<1>4. /\ Resume(Op.cases[C[N].kinds[Op.on].type] \o Tail(Act.todo), loc, lab)
      /\ frame' = frame /\ frames' = frames /\ cu' = cu /\ calls' = calls /\ status' = status
  BY <1>3 DEF Switch, Proceed
<1>5. UnitOK'
  BY <1>1, <1>4, Now, UnitSame
<1> QED
  BY <1>1, <1>2, <1>4, <1>5, Discipline, GoOnStep

LEMMA SwitchStep ==
  ASSUME NEW C, NEW B, NEW V, IInv(C, B, V), Switch
  PROVE  Inv'
<1>1. status = "compiling" /\ Op.op = "switch"
  BY DEF Switch, Does
<1>2. Known(C[N], Op.on) /\ IsFreeVariable(Op.on)
  BY <1>1, Discipline, Zenon DEF Constrained
<1>3. CASE IsRegisterOf(C[N], Op.on)
  BY <1>3, SwitchOfKnown
<1>4. CASE ~ IsRegister(loc[Op.on])
  BY <1>4, StopStep DEF Switch
<1>5. CASE ~ IsRegisterOf(C[N], Op.on) /\ IsRegister(loc[Op.on])
  <2>1. TypeOf(loc[Op.on]) \in RegTypes
    BY <1>1, <1>2, <1>5, LocalType
  <2>2. Onward(Act.todo, C[N]) = Checked(Act.todo, C[N], RegTypes)
    BY <1>1, <1>5, Zenon DEF Onward, Op
  <2>3. <<Act.todo, Gets(C[N], Op.on, Register(TypeOf(loc[Op.on]), C[N].depth))>>
           \in Onward(Act.todo, C[N])
    BY <2>1, <2>2, Zenon DEF Checked, Op
  <2>4. PICK D : IInv(D, B, V) /\ IsRegisterOf(D[N], Op.on)
    BY <1>1, <1>2, <1>5, <2>3, Discipline, Refined
  <2> QED
    BY <2>4, SwitchOfKnown
<1> QED
  BY <1>3, <1>4, <1>5

LEMMA IfUnknownStep ==
  ASSUME NEW C, NEW B, NEW V, IInv(C, B, V), IfUnknown
  PROVE  Inv'
<1>1. /\ status = "compiling" /\ Op.op = "ifunknown"
      /\ Resume((IF loc[Op.on] = UNKNOWN_REG THEN Op.yes ELSE Op.no) \o Tail(Act.todo), loc, lab)
      /\ frame' = frame /\ frames' = frames /\ cu' = cu /\ calls' = calls /\ status' = status
  BY DEF IfUnknown, Does, Proceed
<1>2. Known(C[N], Op.on)
  BY <1>1, Discipline, Zenon DEF Constrained
<1>3. /\ C[N].kinds[Op.on].is # "register" =>
           <<Op.yes \o Tail(Act.todo), C[N]>> \in Onward(Act.todo, C[N])
      /\ C[N].kinds[Op.on] # Unknown =>
           <<Op.no \o Tail(Act.todo), C[N]>> \in Onward(Act.todo, C[N])
  BY <1>1, Zenon DEF Onward, Op
<1>4. PICK k : k = C[N].kinds[Op.on]
  OBVIOUS
<1>5. FitsIn(loc[Op.on], k, Levels(B[N], C[N].depth)[k.level], Len(frame))
  BY <1>1, <1>2, <1>4, KnownFits
<1>6. k.is = "register" => loc[Op.on] # UNKNOWN_REG
  BY <1>5 DEF FitsIn, IsLocal, UNKNOWN_REG
<1>7. k = Unknown => loc[Op.on] = UNKNOWN_REG
  BY <1>5 DEF FitsIn, Unknown, Kind
<1>8. UnitOK'
  BY <1>1, Now, UnitSame
<1>9. <<(IF loc[Op.on] = UNKNOWN_REG THEN Op.yes ELSE Op.no) \o Tail(Act.todo), C[N]>>
         \in Onward(Act.todo, C[N])
  BY <1>3, <1>4, <1>6, <1>7
<1> QED
  BY <1>1, <1>8, <1>9, Discipline, GoOnStep

LEMMA AssertOfKnown ==
  ASSUME NEW C, NEW B, NEW V, IInv(C, B, V), AssertType, Holds(C[N], Op.on, Op.type)
  PROVE  Inv'
<1>1. status = "compiling" /\ Op.op = "assert"
  BY DEF AssertType, Does
<1>2. <<Tail(Act.todo), C[N]>> \in Onward(Act.todo, C[N])
  BY <1>1, Zenon DEF Onward, Op
<1>3. IsRegisterOf(C[N], Op.on) /\ C[N].kinds[Op.on].type = Op.type
  BY DEF Holds, IsRegisterOf, Register, Kind
<1>4. IsRegister(loc[Op.on]) /\ TypeOf(loc[Op.on]) = Op.type
  BY <1>1, <1>3, RegisterFits
<1>5. /\ Resume(Tail(Act.todo), loc, lab)
      /\ frame' = frame /\ frames' = frames /\ cu' = cu /\ calls' = calls /\ status' = status
  BY <1>4 DEF AssertType, Continue, Proceed
<1>6. UnitOK'
  BY <1>1, <1>5, Now, UnitSame
<1> QED
  BY <1>1, <1>2, <1>5, <1>6, Discipline, GoOnStep

LEMMA AssertTypeStep ==
  ASSUME NEW C, NEW B, NEW V, IInv(C, B, V), AssertType
  PROVE  Inv'
<1>1. status = "compiling" /\ Op.op = "assert"
  BY DEF AssertType, Does
<1>2. Known(C[N], Op.on) /\ IsFreeVariable(Op.on)
  BY <1>1, Discipline, Zenon DEF Constrained
<1>3. CASE Holds(C[N], Op.on, Op.type)
  BY <1>3, AssertOfKnown
<1>4. CASE ~ (IsRegister(loc[Op.on]) /\ TypeOf(loc[Op.on]) = Op.type)
  BY <1>4, StopStep DEF AssertType
<1>5. CASE ~ Holds(C[N], Op.on, Op.type) /\ IsRegister(loc[Op.on]) /\ TypeOf(loc[Op.on]) = Op.type
  <2>1. Onward(Act.todo, C[N]) = Checked(Act.todo, C[N], {Op.type})
    BY <1>1, <1>5, Zenon DEF Onward, Op
  <2>2. <<Act.todo, Gets(C[N], Op.on, Register(TypeOf(loc[Op.on]), C[N].depth))>>
           \in Onward(Act.todo, C[N])
    BY <1>5, <2>1, Zenon DEF Checked, Op
  <2>3. PICK D : IInv(D, B, V) /\ Holds(D[N], Op.on, TypeOf(loc[Op.on]))
    BY <1>1, <1>2, <1>5, <2>2, Discipline, Refined
  <2>4. Holds(D[N], Op.on, Op.type)
    BY <1>5, <2>3, Zenon
  <2> QED
    BY <2>3, <2>4, AssertOfKnown
<1> QED
  BY <1>3, <1>4, <1>5

LEMMA DieStep ==
  ASSUME NEW C, NEW B, NEW V, IInv(C, B, V), Die
  PROVE  Inv'
<1>1. status = "compiling" /\ Op.op = "die" /\ Stop(Op.why)
  BY DEF Die, Does
<1>2. Op.why \in {"assert", "abort", "panic", "exit"}
  BY <1>1, Discipline, Zenon DEF Constrained
<1> QED
  BY <1>1, <1>2, StopStep

LEMMA LoopEnterStep ==
  ASSUME NEW C, NEW B, NEW V, IInv(C, B, V), LoopEnter
  PROVE  Inv'
<1>1. /\ status = "compiling" /\ Op.op = "enter"
      /\ Resume(Tail(Act.todo), Assign(loc, "start_offset", Size - 1), lab)
      /\ frame' = frame /\ frames' = frames /\ cu' = cu /\ calls' = calls /\ status' = status
  BY DEF LoopEnter, Does, ContinueSet, Proceed
<1>2. C[N].code # "none" /\ ~ Known(C[N], "start_offset")
  BY <1>1, Discipline, Zenon DEF Constrained
<1>3. <<Tail(Act.todo), Gets(C[N], "start_offset", LoopStart(C[N].depth))>> \in Onward(Act.todo, C[N])
  BY <1>1, Zenon DEF Onward, Op
<1>4. UnitOK'
  BY <1>1, Now, UnitSame
<1>5. /\ Size \in Nat /\ Size > 0 /\ Size = frame[Top].bytecode_size /\ C[N].depth \in Nat
      /\ Levels(B[N], C[N].depth)[C[N].depth] = frame[Top]
  BY <1>1, <1>2, Now
<1>6. PICK k : k = LoopStart(C[N].depth)
  OBVIOUS
<1>7. k.is = "start" /\ k.level = C[N].depth
  BY <1>6 DEF LoopStart, Kind
<1>8. FitsIn(Size - 1, k, frame[Top], Len(frame)) /\ ~ IsMark(k)
  BY <1>5, <1>7 DEF FitsIn, IsMark
<1>9. <<Tail(Act.todo), Gets(C[N], "start_offset", k)>> \in Typings[V[N]]
  BY <1>1, <1>3, <1>6, Discipline
<1>10. PICK x : x = Size - 1
  OBVIOUS
<1>11. k.level \in 0..C[N].depth /\ FitsIn(x, k, Levels(B[N], C[N].depth)[k.level], Len(frame))
  BY <1>5, <1>7, <1>8, <1>10
<1> QED
  BY <1>1, <1>2, <1>4, <1>8, <1>9, <1>10, <1>11, AssignStep DEF Known

LEMMA LoopMarkStep ==
  ASSUME NEW C, NEW B, NEW V, IInv(C, B, V), LoopMark
  PROVE  Inv'
<1>1. /\ status = "compiling" /\ Op.op = "mark"
      /\ Resume(Tail(Act.todo), Assign(loc, Op.dst, Size), lab)
      /\ frame' = frame /\ frames' = frames /\ cu' = cu /\ calls' = calls /\ status' = status
  BY DEF LoopMark, Does, ContinueSet, Proceed
<1>2. InLoop(C[N]) /\ IsFreeVariable(Op.dst)
  BY <1>1, Discipline, Zenon DEF Constrained
<1>3. <<Tail(Act.todo), Gets(C[N], Op.dst, Mark("here", C[N].depth))>> \in Onward(Act.todo, C[N])
  BY <1>1, Zenon DEF Onward, Op
<1>4. UnitOK'
  BY <1>1, Now, UnitSame
<1>5. /\ Size \in Nat /\ Size = frame[Top].bytecode_size /\ C[N].depth \in Nat
      /\ Levels(B[N], C[N].depth)[C[N].depth] = frame[Top]
  BY <1>1, <1>2, Now
<1>6. PICK k : k = Mark("here", C[N].depth)
  OBVIOUS
<1>7. k.is = "here" /\ k.level = C[N].depth
  BY <1>6 DEF Mark, Kind
<1>8. FitsIn(Size, k, frame[Top], Len(frame))
  BY <1>5, <1>7 DEF FitsIn
<1>9. <<Tail(Act.todo), Gets(C[N], Op.dst, k)>> \in Typings[V[N]]
  BY <1>1, <1>3, <1>6, Discipline
<1>10. "start_offset" \in DOMAIN C[N].kinds /\ loc["start_offset"] < Size
  <2>1. PICK j : j = C[N].kinds["start_offset"]
    OBVIOUS
  <2>2. Known(C[N], "start_offset") /\ j.is = "start" /\ j.level = C[N].depth
    BY <1>2, <2>1 DEF InLoop, LoopStart, Kind
  <2>3. FitsIn(loc["start_offset"], j, frame[Top], Len(frame))
    BY <1>1, <2>1, <2>2, KnownFits
  <2> QED
    BY <1>5, <2>2, <2>3 DEF FitsIn, Known
<1>11. k.level \in 0..C[N].depth /\ FitsIn(Size, k, Levels(B[N], C[N].depth)[k.level], Len(frame))
  BY <1>5, <1>7, <1>8
<1> QED
  BY <1>1, <1>2, <1>4, <1>9, <1>10, <1>11, AssignStep DEF IsFreeVariable

(* The search for a name ends, at a frame or at none.                        *)
LEMMA ClimbEnds ==
  ASSUME NEW n \in Nat, n = Len(frame), \A f \in 1..n : frame[f].outer \in 0..(f - 1)
  PROVE  \A f \in 0..n : /\ Climb[f][1] \in Nat /\ Climb[f][2] \in 0..n
                         /\ Climb[f][2] # 0 => Has(Climb[f][2])
<1> DEFINE Rule(g, f) == IF f = 0 \/ Has(f) THEN <<0, f>>
                         ELSE <<g[frame[f].outer][1] + 1, g[frame[f].outer][2]>>
           S == {m \in 0..n : \E g : DOMAIN g = 0..m /\ \A f \in 0..m : g[f] = Rule(g, f)}
<1>1. 0 \in S
  <2>1. PICK g : g = [f \in 0..0 |-> <<0, f>>]
    OBVIOUS
  <2>2. DOMAIN g = 0..0 /\ \A f \in 0..0 : g[f] = Rule(g, f)
    BY <2>1
  <2> QED
    BY <2>2
<1>2. ASSUME NEW m \in 1..n, m - 1 \in S
      PROVE  m \in S
  <2>1. PICK g : DOMAIN g = 0..(m - 1) /\ \A f \in 0..(m - 1) : g[f] = Rule(g, f)
    BY <1>2
  <2>2. PICK h : h = [f \in 0..m |-> IF f = m THEN Rule(g, m) ELSE g[f]]
    OBVIOUS
  <2>3. DOMAIN h = 0..m /\ h[m] = Rule(g, m) /\ \A f \in 0..(m - 1) : h[f] = g[f]
    BY <2>2
  <2>4. ASSUME NEW f \in 0..m
        PROVE  h[f] = Rule(h, f)
    <3>1. h[f] = Rule(g, f)
      BY <2>1, <2>3
    <3>2. f # 0 => frame[f].outer \in 0..(m - 1)
      OBVIOUS
    <3>3. f # 0 => h[frame[f].outer] = g[frame[f].outer]
      BY <2>3, <3>2
    <3> QED
      BY <3>1, <3>3
  <2> HIDE DEF Rule
  <2> QED
    BY <2>3, <2>4
<1> HIDE DEF S
<1>3. n \in S
  <2>1. \A m \in 1..n : m - 1 \in S => m \in S
    BY <1>2
  <2>2. \A m \in 0..n : m \in S
    BY <1>1, <2>1, StepByStep
  <2> QED
    BY <2>2
<1>4. \E g : g = [f \in 0..Len(frame) |->
                    IF f = 0 \/ Has(f) THEN <<0, f>>
                    ELSE LET c == g[frame[f].outer] IN <<c[1] + 1, c[2]>>]
  <2>1. PICK g : DOMAIN g = 0..n /\ \A f \in 0..n : g[f] = Rule(g, f)
    BY <1>3 DEF S
  <2>2. PICK h : h = [f \in 0..n |-> g[f]]
    OBVIOUS
  <2>3. \A f \in 0..n : h[f] = Rule(h, f)
    <3> SUFFICES ASSUME NEW f \in 0..n
                 PROVE  h[f] = Rule(h, f)
      OBVIOUS
    <3>1. f # 0 => frame[f].outer \in 0..n
      OBVIOUS
    <3> QED
      BY <2>1, <2>2, <3>1
  <2>4. h = [f \in 0..n |-> Rule(h, f)]
    BY <2>2, <2>3
  <2> QED
    BY <2>4
<1>5. Climb = [f \in 0..Len(frame) |->
                 IF f = 0 \/ Has(f) THEN <<0, f>>
                 ELSE LET c == Climb[frame[f].outer] IN <<c[1] + 1, c[2]>>]
  BY <1>4, Zenon DEF Climb
<1>6. PICK g : g = Climb
  OBVIOUS
<1>7. \A f \in 0..n : g[f] = Rule(g, f)
  BY <1>5, <1>6
<1> DEFINE Good(f) == g[f][1] \in Nat /\ g[f][2] \in 0..n /\ (g[f][2] # 0 => Has(g[f][2]))
           G == {m \in 0..n : \A f \in 0..m : Good(f)}
<1>8. 0 \in G
  <2>1. Rule(g, 0) = <<0, 0>>
    OBVIOUS
  <2>2. g[0] = <<0, 0>>
    <3> HIDE DEF Rule
    <3> QED
      BY <1>7, <2>1
  <2>3. Good(0)
    BY <2>2
  <2> HIDE DEF Good
  <2> QED
    BY <2>3
<1>9. ASSUME NEW m \in 1..n, m - 1 \in G
      PROVE  m \in G
  <2>1. \A f \in 0..(m - 1) : Good(f)
    BY <1>9
  <2>2. PICK o : o = frame[m].outer
    OBVIOUS
  <2>3. o \in 0..(m - 1) /\ m \in 0..n /\ m # 0
    BY <2>2
  <2>4. Good(m)
    <3>1. CASE Has(m)
      <4>1. g[m] = <<0, m>>
        BY <1>7, <2>3, <3>1
      <4> QED
        BY <2>3, <3>1, <4>1
    <3>2. CASE ~ Has(m)
      <4>1. g[m] = <<g[o][1] + 1, g[o][2]>>
        BY <1>7, <2>2, <2>3, <3>2
      <4>2. Good(o)
        BY <2>1, <2>3
      <4> QED
        BY <4>1, <4>2
    <3> QED
      BY <3>1, <3>2
  <2> HIDE DEF Good
  <2> QED
    BY <2>1, <2>4
<1> HIDE DEF G
<1>10. n \in G
  <2>1. \A m \in 1..n : m - 1 \in G => m \in G
    BY <1>9
  <2>2. \A m \in 0..n : m \in G
    BY <1>8, <2>1, StepByStep
  <2> QED
    BY <2>2
<1> QED
  BY <1>6, <1>10 DEF G

LEMMA FindNameStep ==
  ASSUME NEW C, NEW B, NEW V, IInv(C, B, V), FindName
  PROVE  Inv'
<1>1. /\ status = "compiling" /\ Op.op = "find"
      /\ frame' = frame /\ frames' = frames /\ cu' = cu /\ calls' = calls /\ status' = status
  BY DEF FindName, Does, Proceed
<1>2. /\ <<Op.found \o Tail(Act.todo), Gets(Gets(C[N], "lex_no", Integer), "outer", Integer)>>
           \in Onward(Act.todo, C[N])
      /\ Op.package # <<>> => <<Op.package \o Tail(Act.todo), C[N]>> \in Onward(Act.todo, C[N])
      /\ <<Op.missing \o Tail(Act.todo), C[N]>> \in Onward(Act.todo, C[N])
  BY <1>1, Zenon DEF Onward, Op
<1>3. UnitOK'
  BY <1>1, Now, UnitSame
<1>4. /\ Len(frame) \in Nat /\ DOMAIN frame = 1..Len(frame) /\ Top \in DOMAIN frame
      /\ IsContext(C[N]) /\ C[N].depth \in Nat
      /\ Values(loc, C[N].kinds, Levels(B[N], C[N].depth), C[N].depth, Len(frame))
  BY <1>1, Now
<1>5. /\ \A f \in DOMAIN frame : frame[f].outer \in 0..(f - 1)
      /\ \A f \in DOMAIN frame : WellFormed(frame[f])
  BY Zenon DEF IInv, Filled
<1>6. PICK f, outer : f = Climb[Top][2] /\ outer = Climb[Top][1]
  OBVIOUS
<1>7. outer \in Nat /\ f \in 0..Len(frame) /\ (f # 0 => Has(f))
  BY <1>4, <1>5, <1>6, ClimbEnds
<1>8. \/ f = 0 /\ Resume(Op.missing \o Tail(Act.todo), loc, lab)
      \/ /\ f # 0 /\ Lexicals(f) = {} /\ Resume(Op.package \o Tail(Act.todo), loc, lab)
      \/ /\ f # 0 /\ Lexicals(f) # {}
         /\ Resume(Op.found \o Tail(Act.todo),
                   Assign(Assign(loc, "lex_no", SetMax(Lexicals(f)) - 1), "outer", outer), lab)
  BY <1>6 DEF FindName
<1>9. CASE f = 0 /\ Resume(Op.missing \o Tail(Act.todo), loc, lab)
  BY <1>1, <1>2, <1>3, <1>9, Discipline, GoOnStep
<1>10. CASE f # 0 /\ Lexicals(f) = {} /\ Resume(Op.package \o Tail(Act.todo), loc, lab)
  <2>1. Op.package # <<>>
    BY <1>7, <1>10 DEF Has, IsPackageVariable
  <2> QED
    BY <1>1, <1>2, <1>3, <1>10, <2>1, Discipline, GoOnStep
<1>11. CASE /\ f # 0 /\ Lexicals(f) # {}
            /\ Resume(Op.found \o Tail(Act.todo),
                      Assign(Assign(loc, "lex_no", SetMax(Lexicals(f)) - 1), "outer", outer), lab)
  <2>1. Lexicals(f) \subseteq 1..Len(frame[f].lexicals) /\ Len(frame[f].lexicals) \in Nat
    <3>1. frame[f] \in KijiFrame
      BY <1>4, <1>5, <1>7, <1>11, IsFrame
    <3>2. frame[f].lexicals \in Seq(STRING \X STRING)
      BY <3>1, FrameFields
    <3> QED
      BY <3>2, LenProperties DEF Lexicals
  <2>2. \E i \in Lexicals(f) : \A j \in Lexicals(f) : j <= i
    <3>1. PICK T, b : T = Lexicals(f) /\ b = Len(frame[f].lexicals)
      OBVIOUS
    <3>2. b \in Nat /\ T \subseteq Nat /\ T # {} /\ \A i \in T : i <= b
      BY <1>11, <2>1, <3>1
    <3>3. \E i \in T : \A j \in T : j <= i
      BY <3>2, MaxNat
    <3> QED
      BY <3>1, <3>3
  <2>3. SetMax(Lexicals(f)) \in Nat
    BY <2>1, <2>2 DEF SetMax
  <2>4. PICK x : x = SetMax(Lexicals(f)) - 1
    OBVIOUS
  <2>5. x \in Int
    BY <2>3, <2>4
  <2>6. PICK c1, lc1 : c1 = Gets(C[N], "lex_no", Integer) /\ lc1 = Assign(loc, "lex_no", x)
    OBVIOUS
  <2>7. PICK c2, lc2 : c2 = Gets(c1, "outer", Integer) /\ lc2 = Assign(lc1, "outer", outer)
    OBVIOUS
  <2>8. /\ IsContext(c1) /\ c1.of = C[N].of /\ c1.depth = C[N].depth /\ c1.ret = C[N].ret
        /\ c1.code = C[N].code /\ c1.labels = C[N].labels
        /\ c1.kinds = Assign(C[N].kinds, "lex_no", Integer)
    BY <1>4, <2>6, GetsContext DEF SamePlace
  <2>9. /\ SamePlace(C[N], c2) /\ c2.code = C[N].code /\ c2.labels = C[N].labels
        /\ c2.kinds = Assign(c1.kinds, "outer", Integer)
    BY <2>7, <2>8, GetsContext DEF SamePlace
  <2>10. Integer.level = 0 /\ Integer.level \in 0..C[N].depth /\ ~ IsMark(Integer)
         /\ \A r : FitsIn(x, Integer, r, Len(frame)) /\ FitsIn(outer, Integer, r, Len(frame))
    BY <1>4, <1>7, <2>5, IntegerFits
  <2>11. Values(lc1, c1.kinds, Levels(B[N], C[N].depth), C[N].depth, Len(frame))
    BY <1>4, <2>6, <2>8, <2>10, ValuesGets
  <2>12. Values(lc2, c2.kinds, Levels(B[N], C[N].depth), C[N].depth, Len(frame))
    BY <1>4, <2>7, <2>9, <2>10, <2>11, ValuesGets
  <2>13. <<Op.found \o Tail(Act.todo), c2>> \in Typings[V[N]]
    BY <1>1, <1>2, <2>6, <2>7, Discipline
  <2>14. Resume(Op.found \o Tail(Act.todo), lc2, lab)
    BY <1>11, <2>4, <2>6, <2>7
  <2> QED
    BY <1>1, <1>3, <2>9, <2>12, <2>13, <2>14, LocalStep
<1> QED
  BY <1>8, <1>9, <1>10, <1>11

(* The compilation unit.                                                    *)
LEMMA UnitFields ==
  ASSUME UnitOK
  PROVE  /\ cu.callsites \in Seq(Seq(RegTypes)) /\ cu.max_callsite_size \in Nat
         /\ cu.current_class_how \in Nat /\ IsSeq(cu.scs)
         /\ Len(cu.scs) \in Nat /\ DOMAIN cu.scs = 1..Len(cu.scs)
BY SeqFields DEF UnitOK

LEMMA ClassOpened ==
  ASSUME UnitOK, DOMAIN frame' = DOMAIN frame,
         cu' = [cu EXCEPT !.scs = Append(@, NewClass), !.current_class_how = Len(cu.scs) + 1]
  PROVE  UnitOK'
<1> DEFINE S == Append(cu.scs, NewClass)
           h == Len(cu.scs) + 1
<1>1. /\ IsSeq(S) /\ DOMAIN S = 1..h /\ DOMAIN cu.scs = 1..Len(cu.scs) /\ Len(cu.scs) \in Nat
      /\ \A i \in DOMAIN cu.scs : S[i] = cu.scs[i]
      /\ S[h] = NewClass
  BY UnitFields, AppendSeq
<1>2. cu' = [cu EXCEPT !.scs = S, !.current_class_how = h] /\ h \in Nat
  BY <1>1
<1> HIDE DEF S, h
<1>3. /\ cu'.scs = S /\ cu'.current_class_how = h /\ cu'.callsites = cu.callsites
      /\ cu'.max_callsite_size = cu.max_callsite_size
      /\ cu' \in [callsites : Seq(Seq(RegTypes)), max_callsite_size : Nat,
                  scs : {S}, current_class_how : Nat]
  BY <1>2 DEF UnitOK
<1>4. NewClass.class /\ NewClass.methods = <<>> /\ IsObject(NewClass)
  BY DEF NewClass, IsObject
<1>5. \A i \in DOMAIN S : i = h \/ (i \in DOMAIN cu.scs /\ S[i] = cu.scs[i])
  BY <1>1 DEF h
<1>6. h \in DOMAIN S
  BY <1>1, <1>2 DEF h
<1>7. \A i \in DOMAIN S : IsObject(S[i])
  BY <1>1, <1>4, <1>5 DEF UnitOK
<1>8. h \in Classes(S)
  BY <1>1, <1>4, <1>6, Zenon DEF Classes
<1>9. MethodsIn(S, DOMAIN frame)
  <2>1. MethodsIn(cu.scs, DOMAIN frame)
    BY DEF UnitOK
  <2>2. DOMAIN S[h].methods = {}
    BY <1>1, <1>4
  <2> QED
    BY <1>5, <2>1, <2>2, Zenon DEF MethodsIn
<1> QED
  BY <1>1, <1>3, <1>7, <1>8, <1>9 DEF UnitOK

LEMMA MethodBound ==
  ASSUME UnitOK, DOMAIN frame' = DOMAIN frame, cu.current_class_how # 0,
         NEW name, NEW f \in DOMAIN frame,
         cu' = [cu EXCEPT !.scs[cu.current_class_how].methods = Assign(@, name, f)]
  PROVE  UnitOK'
<1> DEFINE h == cu.current_class_how
           o == [cu.scs[h] EXCEPT !.methods = Assign(@, name, f)]
           S == [cu.scs EXCEPT ![h] = o]
<1>1. h \in Classes(cu.scs) /\ h \in DOMAIN cu.scs /\ IsSeq(cu.scs) /\ IsObject(cu.scs[h])
  BY DEF UnitOK, Classes
<1>2. cu' = [cu EXCEPT !.scs = S]
  BY DEF UnitOK
<1>3. /\ IsObject(o) /\ o.class = cu.scs[h].class
      /\ o.methods = Assign(cu.scs[h].methods, name, f)
  BY <1>1 DEF IsObject
<1>4. \A m \in DOMAIN o.methods : o.methods[m] \in DOMAIN frame
  BY <1>1, <1>3 DEF Assign, UnitOK, MethodsIn
<1> HIDE DEF o, S
<1>5. /\ IsSeq(S) /\ DOMAIN S = DOMAIN cu.scs /\ S[h] = o
      /\ \A i \in DOMAIN cu.scs : i # h => S[i] = cu.scs[i]
  BY <1>1, ExceptIsSeq DEF S
<1>6. /\ cu'.scs = S /\ cu'.current_class_how = h
      /\ cu' \in [callsites : Seq(Seq(RegTypes)), max_callsite_size : Nat,
                  scs : {S}, current_class_how : Nat]
  BY <1>2 DEF UnitOK
<1> HIDE DEF h
<1>7. /\ \A i \in DOMAIN S : IsObject(S[i])
      /\ MethodsIn(S, DOMAIN frame)
  BY <1>3, <1>4, <1>5 DEF UnitOK, MethodsIn
<1>8. h \in Classes(S)
  BY <1>1, <1>3, <1>5, Zenon DEF Classes
<1> QED
  BY <1>5, <1>6, <1>7, <1>8 DEF UnitOK

LEMMA OpenClassStep ==
  ASSUME NEW C, NEW B, NEW V, IInv(C, B, V), OpenClass
  PROVE  Inv'
<1>1. /\ status = "compiling" /\ Op.op = "class"
      /\ Resume(Tail(Act.todo), Assign(loc, "wval1", Len(cu.scs)), lab)
      /\ frame' = frame /\ frames' = frames /\ calls' = calls /\ status' = status
  BY DEF OpenClass, Does, ContinueSet
<1>2. <<Tail(Act.todo), Gets(C[N], "wval1", Integer)>> \in Onward(Act.todo, C[N])
  BY <1>1, Zenon DEF Onward, Op
<1>3. UnitOK'
  BY <1>1, Now, ClassOpened DEF OpenClass
<1>4. PICK x : x = Len(cu.scs)
  OBVIOUS
<1>5. x \in Int /\ C[N].depth \in Nat
  BY <1>1, <1>4, Now, UnitFields
<1>6. PICK k : k = Integer
  OBVIOUS
<1>7. /\ k.level \in 0..C[N].depth /\ ~ IsMark(k)
      /\ FitsIn(x, k, Levels(B[N], C[N].depth)[k.level], Len(frame))
  BY <1>5, <1>6, IntegerFits
<1> QED
  BY <1>1, <1>2, <1>3, <1>4, <1>6, <1>7, Discipline, AssignStep

LEMMA CloseClassStep ==
  ASSUME NEW C, NEW B, NEW V, IInv(C, B, V), CloseClass
  PROVE  Inv'
<1>1. /\ status = "compiling" /\ Op.op = "endclass" /\ Resume(Tail(Act.todo), loc, lab)
      /\ frame' = frame /\ frames' = frames /\ calls' = calls /\ status' = status
      /\ cu' = [cu EXCEPT !.current_class_how = 0]
  BY DEF CloseClass, Does, Continue
<1>2. <<Tail(Act.todo), C[N]>> \in Onward(Act.todo, C[N])
  BY <1>1, Zenon DEF Onward, Op
<1>3. UnitOK'
  <2>1. UnitOK
    BY <1>1, Now
  <2> QED
    BY <1>1, <2>1 DEF UnitOK
<1> QED
  BY <1>1, <1>2, <1>3, Discipline, GoOnStep

LEMMA BindMethodStep ==
  ASSUME NEW C, NEW B, NEW V, IInv(C, B, V), BindMethod
  PROVE  Inv'
<1>1. status = "compiling" /\ Op.op = "bindmethod"
  BY DEF BindMethod, Does
<1>2. Known(C[N], Op.frame) /\ C[N].kinds[Op.frame] = FrameNumber
  BY <1>1, Discipline, Zenon DEF Constrained
<1>3. CASE cu.current_class_how = 0
  <2>1. Stop("panic")
    BY <1>3 DEF BindMethod
  <2> QED
    BY <2>1, StopStep
<1>4. CASE cu.current_class_how # 0
  <2>1. /\ Resume(Tail(Act.todo), loc, lab)
        /\ frame' = frame /\ frames' = frames /\ calls' = calls /\ status' = status
        /\ cu' = [cu EXCEPT !.scs[cu.current_class_how].methods = Assign(@, Op.name, loc[Op.frame])]
    BY <1>4 DEF BindMethod, Continue
  <2>2. <<Tail(Act.todo), C[N]>> \in Onward(Act.todo, C[N])
    BY <1>1, Zenon DEF Onward, Op
  <2>3. PICK x, name : x = loc[Op.frame] /\ name = Op.name
    OBVIOUS
  <2>4. FitsIn(x, FrameNumber, Levels(B[N], C[N].depth)[FrameNumber.level], Len(frame))
    BY <1>1, <1>2, <2>3, KnownFits
  <2>5. x \in DOMAIN frame
    BY <1>1, <2>4, Now DEF FitsIn, FrameNumber, Kind
  <2>6. UnitOK'
    BY <1>1, <1>4, <2>1, <2>3, <2>5, Now, MethodBound
  <2> QED
    BY <1>1, <2>1, <2>2, <2>6, Discipline, GoOnStep
<1> QED
  BY <1>3, <1>4

(* The longest callsite: the lengths are bounded, callsite by callsite.        *)
LEMMA LongestCallsite ==
  ASSUME UnitOK
  PROVE  SetMax({0} \cup {Len(cu.callsites[i]) : i \in DOMAIN cu.callsites}) \in Nat
<1> DEFINE n == Len(cu.callsites)
           T == {0} \cup {Len(cu.callsites[i]) : i \in DOMAIN cu.callsites}
           S == {m \in 0..n : \E b \in Nat : \A i \in 1..m : Len(cu.callsites[i]) <= b}
<1>1. /\ n \in Nat /\ DOMAIN cu.callsites = 1..n
      /\ \A i \in 1..n : Len(cu.callsites[i]) \in Nat
  <2>1. n \in Nat /\ DOMAIN cu.callsites = 1..n
    BY UnitFields, LenProperties
  <2>2. \A i \in 1..n : cu.callsites[i] \in Seq(RegTypes)
    BY <2>1, UnitFields, ElementOfSeq
  <2> QED
    BY <2>1, <2>2, LenProperties
<1> HIDE DEF n
<1>2. 0 \in S
  BY <1>1
<1>3. ASSUME NEW m \in 1..n, m - 1 \in S
      PROVE  m \in S
  <2>1. PICK b \in Nat : \A i \in 1..(m - 1) : Len(cu.callsites[i]) <= b
    BY <1>3
  <2>2. PICK x : x = Len(cu.callsites[m])
    OBVIOUS
  <2>3. x \in Nat
    BY <1>1, <2>2
  <2>4. b + x \in Nat /\ \A i \in 1..m : Len(cu.callsites[i]) <= b + x
    <3>1. b + x \in Nat
      BY <2>3
    <3>2. \A i \in 1..(m - 1) : Len(cu.callsites[i]) <= b + x
      <4> SUFFICES ASSUME NEW i \in 1..(m - 1)
                   PROVE  Len(cu.callsites[i]) <= b + x
        OBVIOUS
      <4>1. PICK y : y = Len(cu.callsites[i])
        OBVIOUS
      <4>2. y \in Nat /\ y <= b
        BY <1>1, <2>1, <4>1
      <4> QED
        BY <2>3, <4>1, <4>2
    <3>3. Len(cu.callsites[m]) <= b + x
      BY <2>2, <2>3
    <3>4. \A i \in 1..m : i = m \/ i \in 1..(m - 1)
      OBVIOUS
    <3> QED
      BY <3>1, <3>2, <3>3, <3>4
  <2>5. \E c \in Nat : \A i \in 1..m : Len(cu.callsites[i]) <= c
    BY <2>4
  <2>6. m \in 0..n
    BY <1>1
  <2> QED
    BY <2>5, <2>6, Zenon
<1> HIDE DEF S
<1>4. n \in S
  <2>1. \A m \in 1..n : m - 1 \in S => m \in S
    BY <1>3
  <2>2. \A m \in 0..n : m \in S
    BY <1>1, <1>2, <2>1, StepByStep
  <2> QED
    BY <1>1, <2>2
<1>5. PICK b \in Nat : \A i \in 1..n : Len(cu.callsites[i]) <= b
  BY <1>4 DEF S
<1>6. T \subseteq Nat /\ T # {} /\ \A x \in T : x <= b
  BY <1>1, <1>5
<1>7. \E x \in T : \A y \in T : y <= x
  BY <1>6, MaxNat
<1> HIDE DEF T
<1>8. SetMax(T) \in Nat
  BY <1>6, <1>7 DEF SetMax
<1> QED
  BY <1>8 DEF T

LEMMA FinalizeStep ==
  ASSUME NEW C, NEW B, NEW V, IInv(C, B, V), Finalize
  PROVE  Inv'
<1>1. PICK x : x = SetMax({0} \cup {Len(cu.callsites[i]) : i \in DOMAIN cu.callsites})
  OBVIOUS
<1>2. /\ status = "compiling" /\ Op.op = "finalize" /\ Resume(Tail(Act.todo), loc, lab)
      /\ frame' = frame /\ frames' = frames /\ calls' = calls /\ status' = status
      /\ cu' = [cu EXCEPT !.max_callsite_size = x]
  BY <1>1 DEF Finalize, Does, Continue
<1>3. <<Tail(Act.todo), C[N]>> \in Onward(Act.todo, C[N])
  BY <1>2, Zenon DEF Onward, Op
<1>4. UnitOK'
  <2>1. UnitOK
    BY <1>2, Now
  <2>2. x \in Nat
    BY <1>1, <2>1, LongestCallsite
  <2> QED
    BY <1>2, <2>1, <2>2 DEF UnitOK
<1> QED
  BY <1>2, <1>3, <1>4, Discipline, GoOnStep
-----------------------------------------------------------------------------
(* The actions that change the frame on top without an instruction.          *)

(* A local is assigned, and frame r takes the place of the one on top.        *)
LEMMA FrameAssignStep ==
  ASSUME NEW C, NEW B, NEW V, IInv(C, B, V), status = "compiling",
         NEW t, NEW v, NEW x, NEW k, NEW r,
         Resume(t, Assign(loc, v, x), lab), SetTop(r), frames' = frames,
         cu' = cu, calls' = calls, status' = status,
         <<t, Gets(C[N], v, k)>> \in Typings[V[N]], v # "start_offset",
         k.level = 0 \/ k.level = C[N].depth, ~ IsMark(k), k.level # C[N].depth => k = Integer,
         x \in Int, FitsIn(x, k, r, Len(frame)),
         WellFormed(r), Grows(frame[Top], r), r.outer = frame[Top].outer,
         r.bytecode_size = frame[Top].bytecode_size,
         \A P : (Settled(frame[Top], P) => Settled(r, P)) /\ (Complete(frame[Top], P) => Complete(r, P))
  PROVE  Inv'
<1>1. IsContext(C[N]) /\ C[N].depth \in Nat /\ Len(frame) \in Nat /\ UnitOK
  BY Now
<1>2. PICK c : c = Gets(C[N], v, k)
  OBVIOUS
<1>3. /\ SamePlace(C[N], c) /\ c.code = C[N].code /\ c.kinds = Assign(C[N].kinds, v, k)
      /\ c.labels = C[N].labels
  BY <1>1, <1>2, GetsContext
<1>4. Values(loc, C[N].kinds, After(B[N], C[N].depth, r), C[N].depth, Len(frame))
  BY ValuesNow, IsFrame
<1>5. k.level \in 0..C[N].depth
  BY <1>1
<1>6. FitsIn(x, k, After(B[N], C[N].depth, r)[k.level], Len(frame))
  <2>1. CASE k.level = C[N].depth
    <3>1. After(B[N], C[N].depth, r)[C[N].depth] = r
      BY <1>1 DEF After
    <3> QED
      BY <2>1, <3>1
  <2>2. CASE k.level # C[N].depth
    BY <2>2, IntegerFits
  <2> QED
    BY <2>1, <2>2
<1>7. Values(Assign(loc, v, x), c.kinds, After(B[N], C[N].depth, r), C[N].depth, Len(frame))
  BY <1>1, <1>3, <1>4, <1>5, <1>6, ValuesGets
<1>8. UnitOK'
  BY <1>1, TopUnit, UnitSame
<1> QED
  BY <1>2, <1>3, <1>7, <1>8, CodeStep

LEMMA PushLocalStep ==
  ASSUME NEW C, NEW B, NEW V, IInv(C, B, V), PushLocal
  PROVE  Inv'
<1>1. status = "compiling" /\ Op.op = "reg"
  BY DEF PushLocal, Does
<1>2. Op.type \in RegTypes /\ IsFreeVariable(Op.dst)
  BY <1>1, Discipline, Zenon DEF Constrained
<1>3. CASE Len(frame[Top].locals) + 1 >= Word - 1
  <2>1. Stop("abort")
    BY <1>3 DEF PushLocal
  <2> QED
    BY <2>1, StopStep
<1>4. CASE ~ (Len(frame[Top].locals) + 1 >= Word - 1)
  <2>1. PICK v, type, x, r : /\ v = Op.dst /\ type = Op.type /\ x = Len(frame[Top].locals)
                             /\ r = WithLocal(frame[Top], type)
    OBVIOUS
  <2>2. /\ SetTop(r) /\ Resume(Tail(Act.todo), Assign(loc, v, x), lab)
        /\ frames' = frames /\ cu' = cu /\ calls' = calls /\ status' = status
    BY <1>4, <2>1 DEF PushLocal, ContinueSet, Proceed, WithLocal
  <2>3. PICK k : k = Register(type, C[N].depth)
    OBVIOUS
  <2>4. <<Tail(Act.todo), Gets(C[N], v, k)>> \in Onward(Act.todo, C[N])
    BY <1>1, <2>1, <2>3, Zenon DEF Onward, Op
  <2>5. WellFormed(frame[Top]) /\ frame[Top] \in KijiFrame
    BY <1>1, Now
  <2>6. x \in Nat /\ x + 1 < Word
    BY <1>4, <2>1, <2>5, FrameFields, WordAssumption
  <2>7. /\ WellFormed(r) /\ SameCode(frame[Top], r) /\ Grows(frame[Top], r)
        /\ r.outer = frame[Top].outer /\ Len(r.locals) = x + 1 /\ r.locals[x + 1] = type
        /\ \A P : /\ Settled(frame[Top], P) => Settled(r, P)
                  /\ Complete(frame[Top], P) => Complete(r, P)
    BY <1>2, <2>1, <2>5, <2>6, LocalFrame
  <2>8. k.is = "register" /\ k.type = type /\ k.level = C[N].depth
    BY <2>3 DEF Register, Kind
  <2>9. FitsIn(x, k, r, Len(frame)) /\ ~ IsMark(k)
    BY <2>6, <2>7, <2>8 DEF FitsIn, IsLocal, IsMark
  <2>10. r.bytecode_size = frame[Top].bytecode_size /\ v # "start_offset"
    BY <1>2, <2>1, <2>7 DEF SameCode, IsFreeVariable
  <2>11. <<Tail(Act.todo), Gets(C[N], v, k)>> \in Typings[V[N]]
    BY <1>1, <2>4, Discipline
  <2>12. PICK t : t = Tail(Act.todo)
    OBVIOUS
  <2>13. Resume(t, Assign(loc, v, x), lab) /\ <<t, Gets(C[N], v, k)>> \in Typings[V[N]]
    BY <2>2, <2>11, <2>12
  <2>14. /\ k.level = 0 \/ k.level = C[N].depth
         /\ k.level # C[N].depth => k = Integer
         /\ x \in Int
         /\ frames' = frames /\ cu' = cu /\ calls' = calls /\ status' = status
         /\ SetTop(r) /\ status = "compiling"
    BY <1>1, <2>2, <2>6, <2>8
  <2> QED
    BY <2>7, <2>9, <2>10, <2>13, <2>14, FrameAssignStep
<1> QED
  BY <1>3, <1>4

LEMMA PushLexicalStep ==
  ASSUME NEW C, NEW B, NEW V, IInv(C, B, V), PushLexical
  PROVE  Inv'
<1>1. /\ status = "compiling" /\ Op.op = "lexical"
      /\ frames' = frames /\ cu' = cu /\ calls' = calls /\ status' = status
  BY DEF PushLexical, Does, Proceed
<1>2. Op.name \in STRING \X STRING /\ IsFreeVariable(Op.dst)
  BY <1>1, Discipline, Zenon DEF Constrained
<1>3. WellFormed(frame[Top]) /\ frame[Top] \in KijiFrame /\ C[N].depth \in Nat
  BY <1>1, Now
<1>4. PICK v, x, ls, vs : /\ v = Op.dst /\ x = Len(frame[Top].lexicals)
                          /\ ls = Append(frame[Top].lexicals, Op.name)
                          /\ vs = frame[Top].package_variables
  OBVIOUS
<1>5. PICK r : r = WithNames(frame[Top], ls, vs)
  OBVIOUS
<1>6. SetTop(r) /\ Resume(Tail(Act.todo), Assign(loc, v, x), lab)
  <2>1. [frame[Top] EXCEPT !.lexicals = Append(@, Op.name)] = r
    BY <1>3, <1>4, <1>5 DEF WithNames, KijiFrame
  <2> QED
    BY <1>4, <2>1 DEF PushLexical, ContinueSet
<1>7. /\ frame[Top].lexicals \in Seq(STRING \X STRING)
      /\ vs \in SUBSET (STRING \X STRING)
  BY <1>3, <1>4, FrameFields
<1>8. x \in Int /\ ls \in Seq(STRING \X STRING)
  BY <1>2, <1>4, <1>7, LenProperties, AppendProperties
<1>9. /\ WellFormed(r) /\ SameCode(frame[Top], r) /\ Grows(frame[Top], r)
      /\ r.outer = frame[Top].outer
      /\ \A P : /\ Settled(frame[Top], P) => Settled(r, P)
                /\ Complete(frame[Top], P) => Complete(r, P)
  BY <1>3, <1>5, <1>7, <1>8, NamesFrame
<1>10. r.bytecode_size = frame[Top].bytecode_size /\ v # "start_offset"
  BY <1>2, <1>4, <1>9 DEF SameCode, IsFreeVariable
<1>11. PICK k : k = Integer
  OBVIOUS
<1>12. k.level = 0 /\ ~ IsMark(k) /\ FitsIn(x, k, r, Len(frame))
  BY <1>8, <1>11, IntegerFits
<1>13. <<Tail(Act.todo), Gets(C[N], v, k)>> \in Onward(Act.todo, C[N])
  BY <1>1, <1>4, <1>11, Zenon DEF Onward, Op
<1>14. <<Tail(Act.todo), Gets(C[N], v, k)>> \in Typings[V[N]]
  BY <1>1, <1>13, Discipline
<1> QED
  BY <1>1, <1>6, <1>8, <1>9, <1>10, <1>11, <1>12, <1>14, FrameAssignStep

(* Nothing of the activation changes but what it has left to do.              *)
LEMMA FrameGoOnStep ==
  ASSUME NEW C, NEW B, NEW V, IInv(C, B, V), status = "compiling", NEW t, NEW r, NEW c,
         Resume(t, loc, lab), SetTop(r), frames' = frames,
         cu' = cu, calls' = calls, status' = status,
         <<t, c>> \in Typings[V[N]], SamePlace(C[N], c), c.kinds = C[N].kinds, c.labels = C[N].labels,
         c.code \in {C[N].code, GoesOn(C[N].code)},
         WellFormed(r), Grows(frame[Top], r), r.outer = frame[Top].outer,
         r.bytecode_size = frame[Top].bytecode_size,
         \A P : Settled(frame[Top], P) => Settled(r, P),
         c.code = "ended" => \A P : Complete(frame[Top], P) => Complete(r, P)
  PROVE  Inv'
<1>1. Values(loc, C[N].kinds, After(B[N], C[N].depth, r), C[N].depth, Len(frame))
  BY ValuesNow, IsFrame
<1>2. UnitOK'
  BY Now, TopUnit, UnitSame
<1> QED
  BY <1>1, <1>2, CodeStep

LEMMA PushPackageVariableStep ==
  ASSUME NEW C, NEW B, NEW V, IInv(C, B, V), PushPackageVariable
  PROVE  Inv'
<1>1. /\ status = "compiling" /\ Op.op = "pkgvar" /\ Resume(Tail(Act.todo), loc, lab)
      /\ frames' = frames /\ cu' = cu /\ calls' = calls /\ status' = status
  BY DEF PushPackageVariable, Does, Proceed, Continue
<1>2. Op.name \in STRING \X STRING
  BY <1>1, Discipline, Zenon DEF Constrained
<1>3. WellFormed(frame[Top]) /\ frame[Top] \in KijiFrame /\ IsContext(C[N])
  BY <1>1, Now
<1>4. PICK ls, vs : /\ ls = frame[Top].lexicals
                    /\ vs = frame[Top].package_variables \cup {Op.name}
  OBVIOUS
<1>5. PICK r : r = WithNames(frame[Top], ls, vs)
  OBVIOUS
<1>6. SetTop(r)
  <2>1. [frame[Top] EXCEPT !.package_variables = @ \cup {Op.name}] = r
    BY <1>3, <1>4, <1>5 DEF WithNames, KijiFrame
  <2> QED
    BY <2>1 DEF PushPackageVariable
<1>7. ls \in Seq(STRING \X STRING) /\ vs \in SUBSET (STRING \X STRING)
  BY <1>2, <1>3, <1>4, FrameFields
<1>8. /\ WellFormed(r) /\ SameCode(frame[Top], r) /\ Grows(frame[Top], r)
      /\ r.outer = frame[Top].outer
      /\ \A P : /\ Settled(frame[Top], P) => Settled(r, P)
                /\ Complete(frame[Top], P) => Complete(r, P)
  BY <1>3, <1>5, <1>7, NamesFrame
<1>9. r.bytecode_size = frame[Top].bytecode_size
  BY <1>8 DEF SameCode
<1>10. <<Tail(Act.todo), C[N]>> \in Onward(Act.todo, C[N])
  BY <1>1, Zenon DEF Onward, Op
<1>11. <<Tail(Act.todo), C[N]>> \in Typings[V[N]]
  BY <1>1, <1>10, Discipline
<1> QED
  BY <1>1, <1>3, <1>6, <1>8, <1>9, <1>11, FrameGoOnStep DEF SamePlace

LEMMA PatchCodeStep ==
  ASSUME NEW C, NEW B, NEW V, IInv(C, B, V), PatchCode
  PROVE  Inv'
<1>1. /\ status = "compiling" /\ Op.op = "patchcode" /\ Resume(Tail(Act.todo), loc, lab)
      /\ frames' = frames /\ cu' = cu /\ calls' = calls /\ status' = status
  BY DEF PatchCode, Does, Proceed, Continue
<1>2. /\ Known(C[N], "func_pos") /\ C[N].kinds["func_pos"] = CodeOperand(C[N].depth)
      /\ Known(C[N], Op.frame)
  BY <1>1, Discipline, Zenon DEF Constrained
<1>3. WellFormed(frame[Top]) /\ frame[Top] \in KijiFrame /\ IsContext(C[N])
  BY <1>1, Now
<1>4. PICK slots, val : slots = {loc["func_pos"]} /\ val = FrameOperand(loc[Op.frame])
  OBVIOUS
<1>5. PICK r : r = Patched(frame[Top], slots, val)
  OBVIOUS
<1>6. SetTop(r)
  BY <1>4, <1>5 DEF PatchCode, Patched
<1>7. val \in Int
  <2>1. loc[Op.frame] \in Int
    BY <1>1, <1>2, KnownFits
  <2>2. loc[Op.frame] - 1 \in Int
    BY <2>1
  <2>3. U16(loc[Op.frame] - 1) \in 0..(Word - 1)
    BY <2>2, U16Nat
  <2> QED
    BY <1>4, <2>3, WordAssumption DEF FrameOperand
<1>8. PICK k : k = C[N].kinds["func_pos"]
  OBVIOUS
<1>9. k.is = "operand" /\ k.level = C[N].depth
  BY <1>2, <1>8 DEF CodeOperand, Kind
<1>10. FitsIn(loc["func_pos"], k, frame[Top], Len(frame))
  BY <1>1, <1>2, <1>8, <1>9, KnownFits
<1>11. PICK i \in DOMAIN frame[Top].code : /\ frame[Top].code[i].slot = loc["func_pos"]
                                           /\ loc["func_pos"] # 0
                                           /\ frame[Top].code[i].op = "getcode"
  BY <1>9, <1>10 DEF FitsIn
<1>12. \A j \in DOMAIN frame[Top].code :
         frame[Top].code[j].slot \in slots => ~ IsJump(frame[Top].code[j].op)
  <2> SUFFICES ASSUME NEW j \in DOMAIN frame[Top].code, frame[Top].code[j].slot \in slots
               PROVE  ~ IsJump(frame[Top].code[j].op)
    OBVIOUS
  <2>1. i = j
    BY <1>3, <1>4, <1>11, OneSlot
  <2> QED
    BY <1>11, <2>1 DEF IsJump, IsBranch
<1>13. /\ WellFormed(r) /\ Grows(frame[Top], r) /\ r.outer = frame[Top].outer
       /\ r.bytecode_size = frame[Top].bytecode_size
  BY <1>3, <1>5, <1>7, PatchFrame
<1>14. \A P : /\ Settled(frame[Top], P) => Settled(r, P)
              /\ Complete(frame[Top], P) => Complete(r, P)
  BY <1>3, <1>5, <1>7, <1>12, PatchedOther
<1>15. <<Tail(Act.todo), C[N]>> \in Onward(Act.todo, C[N])
  BY <1>1, Zenon DEF Onward, Op
<1>16. <<Tail(Act.todo), C[N]>> \in Typings[V[N]]
  BY <1>1, <1>15, Discipline
<1> QED
  BY <1>1, <1>3, <1>6, <1>13, <1>14, <1>16, FrameGoOnStep DEF SamePlace

(* A label is put where the code ends.                                       *)
LEMMA PutLabelStep ==
  ASSUME NEW C, NEW B, NEW V, IInv(C, B, V), PutLabel
  PROVE  Inv'
<1>1. status = "compiling" /\ Op.op = "put"
  BY DEF PutLabel, Does
<1>2. PICK d, l, p, ls : /\ d = C[N].depth /\ l = Op.label /\ p = frame[Top]
                         /\ ls = C[N].labels
  OBVIOUS
<1>3. l \notin DOMAIN ls \/ ls[l] = Target("pending", d)
  <2>1. IsFree(C[N], Op.label) \/ IsPending(C[N], Op.label)
    BY <1>1, Discipline, Zenon DEF Constrained
  <2> QED
    BY <1>2, <2>1, Zenon DEF IsFree, IsPending
<1>4. /\ IsContext(C[N]) /\ d \in Nat /\ WellFormed(p) /\ p \in KijiFrame
      /\ Size = p.bytecode_size /\ Size \in Nat
      /\ (C[N].code # "none" => p.bytecode_size > 0) /\ UnitOK
      /\ Labels(lab, ls, Levels(B[N], d), d) /\ Levels(B[N], d)[d] = p
  BY <1>1, <1>2, Now
<1>5. PICK slots, size : slots = Label(l).reserved /\ size = p.bytecode_size
  OBVIOUS
<1>6. PICK lb : lb = Assign(lab, l, [address |-> size, reserved |-> {}])
  OBVIOUS
<1>7. PICK r : r = Patched(p, slots, size)
  OBVIOUS
<1>8. Lands(Levels(B[N], d)[d], size) /\ size \in Nat
  BY <1>4, <1>5 DEF Lands
<1>9. ~ IsSolved(l)
  BY <1>3, <1>4, <1>8, LabelsPut
<1>10. /\ SetTop(r) /\ Resume(Tail(Act.todo), loc, lb)
       /\ frames' = frames /\ cu' = cu /\ calls' = calls /\ status' = status
  BY <1>2, <1>4, <1>5, <1>6, <1>7, <1>9 DEF PutLabel, Patched, Proceed
<1>11. /\ WellFormed(r) /\ Grows(p, r) /\ r.outer = p.outer /\ r.bytecode_size = size
       /\ r \in KijiFrame
  <2>1. WellFormed(r) /\ Grows(p, r) /\ r.outer = p.outer /\ r.bytecode_size = p.bytecode_size
    BY <1>4, <1>7, <1>8, PatchFrame
  <2> QED
    BY <1>5, <2>1, IsFrame
<1>12. PICK T : T = After(B[N], d, r)
  OBVIOUS
<1>13. T[d] = r
  BY <1>4, <1>12 DEF After
<1>14. Values(loc, C[N].kinds, T, d, Len(frame)) /\ Labels(lab, ls, T, d)
  BY <1>1, <1>2, <1>5, <1>11, <1>12, ValuesNow
<1>15. PICK ks : ks = Assign(ls, l, Target("solved", d))
  OBVIOUS
<1>16. Lands(T[d], size)
  BY <1>11, <1>13 DEF Lands
<1>17. /\ Labels(lb, ks, T, d)
       /\ \A level \in Nat : level # d => Pending(lab, ls, level) \subseteq Pending(lb, ks, level)
       /\ \A s \in Pending(lab, ls, d) : s \in slots \/ s \in Pending(lb, ks, d)
  BY <1>3, <1>4, <1>5, <1>6, <1>8, <1>14, <1>15, <1>16, LabelsPut
<1>18. PICK c : c = Puts(C[N], l)
  OBVIOUS
<1>19. /\ SamePlace(C[N], c) /\ c.code = GoesOn(C[N].code) /\ c.kinds = C[N].kinds
       /\ c.labels = ks /\ c.depth = d
  <2>1. /\ SamePlace(C[N], c) /\ c.code = GoesOn(C[N].code) /\ c.kinds = C[N].kinds
        /\ c.labels = Assign(C[N].labels, l, Target("solved", C[N].depth))
    BY <1>4, <1>18, PutsContext
  <2> QED
    BY <1>2, <1>15, <2>1 DEF SamePlace
<1>20. <<Tail(Act.todo), c>> \in Typings[V[N]]
  <2>1. <<Tail(Act.todo), Puts(C[N], Op.label)>> \in Onward(Act.todo, C[N])
    BY <1>1, Zenon DEF Onward, Op
  <2> QED
    BY <1>1, <1>2, <1>18, <2>1, Discipline
<1>21. \A P : Settled(p, P) => Settled(r, Waiting(P, C[N], c, lb))
  <2> SUFFICES ASSUME NEW P, Settled(p, P)
               PROVE  Settled(r, Waiting(P, C[N], c, lb))
    OBVIOUS
  <2>1. PICK Q : Q = Waiting(P, C[N], c, lb)
    OBVIOUS
  <2>2. \A x \in P : x \in slots \/ x \in Q
    BY <1>2, <1>17, <1>19, <2>1 DEF Waiting
  <2>3. Settled(Patched(p, slots, p.bytecode_size), Q)
    BY <1>4, <2>2, PatchedSettled
  <2> QED
    BY <1>5, <1>7, <2>1, <2>3
<1>22. c.code # "ended" /\ (c.code # "none" => r.bytecode_size > 0)
  <2>1. C[N].code \in {"none", "some", "ended"}
    BY <1>4, ContextFields
  <2> QED
    BY <1>4, <1>5, <1>11, <1>19, <2>1 DEF GoesOn
<1>23. FrameStep(C, r, c, lb)
  BY <1>2, <1>11, <1>21, <1>22 DEF FrameStep
<1>24. ActStep(C, B, r, c, loc, lb)
  BY <1>2, <1>4, <1>12, <1>14, <1>17, <1>19 DEF ActStep
<1>25. UnitOK'
  BY <1>4, <1>10, TopUnit, UnitSame
<1> QED
  BY <1>1, <1>10, <1>19, <1>20, <1>23, <1>24, <1>25, TopStep

(* A handler record of the loop that is left.                                 *)
LEMMA HandlerFields ==
  ASSUME NEW category \in {"next", "last", "redo"}, NEW to \in Int,
         loc["start_offset"] \in Nat, Size - 1 \in Nat, Act.id \in Nat
  PROVE  LET h == Handler(category, to) IN
         /\ h \in FrameHandler /\ h.start_offset = loc["start_offset"]
         /\ h.end_offset = Size - 1 /\ h.category = category /\ h.goto_offset = to
BY DEF Handler, FrameHandler

LEMMA LoopLeaveStep ==
  ASSUME NEW C, NEW B, NEW V, IInv(C, B, V), LoopLeave
  PROVE  Inv'
<1>1. /\ status = "compiling" /\ Op.op = "leave" /\ Resume(Tail(Act.todo), loc, lab)
      /\ frames' = frames /\ cu' = cu /\ calls' = calls /\ status' = status
  BY DEF LoopLeave, Does, Proceed, Continue
<1>2. PICK p, start, next, last : /\ p = frame[Top] /\ start = loc["start_offset"]
                                  /\ next = loc["next_offset"] /\ last = loc["last_offset"]
  OBVIOUS
<1>3. /\ IsContext(C[N]) /\ C[N].depth \in Nat /\ WellFormed(p) /\ p \in KijiFrame
      /\ Size = p.bytecode_size /\ Size \in Nat
      /\ Values(loc, C[N].kinds, Levels(B[N], C[N].depth), C[N].depth, Len(frame))
  BY <1>1, <1>2, Now
<1>4. /\ InLoop(C[N]) /\ KindOf(C[N], "next_offset") = Mark("passed", C[N].depth)
      /\ KindOf(C[N], "last_offset") = Mark("here", C[N].depth)
  BY <1>1, Discipline, Zenon DEF Constrained
<1>5. start \in Nat /\ start < p.bytecode_size
  <2>1. PICK k : k = C[N].kinds["start_offset"]
    OBVIOUS
  <2>2. Known(C[N], "start_offset") /\ k.is = "start" /\ k.level = C[N].depth
    BY <1>4, <2>1 DEF InLoop, LoopStart, Kind
  <2>3. FitsIn(start, k, p, Len(frame))
    BY <1>1, <1>2, <2>1, <2>2, KnownFits
  <2> QED
    BY <2>2, <2>3 DEF FitsIn
<1>6. ASSUME NEW v, NEW is \in {"passed", "here"}, KindOf(C[N], v) = Mark(is, C[N].depth)
      PROVE  /\ loc[v] \in Int /\ start < loc[v]
             /\ (is = "passed" => Starts(p, loc[v])) /\ (is = "here" => loc[v] = p.bytecode_size)
  <2>1. PICK k : k = C[N].kinds[v]
    OBVIOUS
  <2>2. Known(C[N], v) /\ k.is = is /\ k.level = C[N].depth
    BY <1>6, <2>1 DEF KindOf, Mark, Kind, Integer
  <2>3. /\ FitsIn(loc[v], k, p, Len(frame))
        /\ IsMark(k) => loc["start_offset"] < loc[v]
    BY <1>1, <1>2, <2>1, <2>2, KnownFits
  <2> QED
    BY <1>2, <2>2, <2>3 DEF FitsIn, IsMark
<1>7. next \in Int /\ start < next /\ Starts(p, next)
  BY <1>2, <1>4, <1>6
<1>8. last = p.bytecode_size
  BY <1>2, <1>4, <1>6
<1>9. next < p.bytecode_size
  <2>1. PICK i \in DOMAIN p.code : p.code[i].at = next
    BY <1>7 DEF Starts
  <2> QED
    BY <1>3, <2>1 DEF WellFormed, Ordered, Within
<1>10. PICK redo \in ReadOf("redo_offset") :
         frame' = [frame EXCEPT ![Top] = [p EXCEPT !.handlers =
                     @ \o <<Handler("last", last), Handler("next", next), Handler("redo", redo)>>]]
  BY <1>2, Zenon DEF LoopLeave, SetTop
<1>11. redo \in Int
  <2>1. CASE "redo_offset" \in DOMAIN loc
    <3>1. Known(C[N], "redo_offset")
      BY <1>3, <2>1 DEF Values, Known
    <3> QED
      BY <1>1, <1>10, <2>1, <3>1, KnownFits DEF ReadOf
  <2>2. CASE "redo_offset" \notin DOMAIN loc
    BY <1>10, <2>2, GarbageAssumption DEF ReadOf
  <2> QED
    BY <2>1, <2>2
<1>12. Act.id \in Nat /\ Size - 1 \in Nat
  <2>1. IsAct(Act)
    BY <1>1, Running DEF IInv, StatusOK
  <2> QED
    BY <1>3, <1>5, <2>1 DEF IsAct
<1>13. PICK a, b, e : /\ a = Handler("last", last) /\ b = Handler("next", next)
                      /\ e = Handler("redo", redo)
  OBVIOUS
<1>14. /\ a \in FrameHandler /\ a.start_offset = start /\ a.end_offset = Size - 1
       /\ a.category = "last" /\ a.goto_offset = last
       /\ b \in FrameHandler /\ b.start_offset = start /\ b.end_offset = Size - 1
       /\ b.category = "next" /\ b.goto_offset = next
       /\ e \in FrameHandler /\ e.category = "redo"
  BY <1>2, <1>3, <1>5, <1>7, <1>8, <1>11, <1>12, <1>13, HandlerFields, SMTT(30)
<1>15. Loops(p, a) /\ Loops(p, b) /\ Loops(p, e)
  <2>1. Lands(p, last) /\ Lands(p, next)
    BY <1>7, <1>8 DEF Lands
  <2>2. ~ Inside(a) /\ Inside(b)
    BY <1>3, <1>5, <1>7, <1>8, <1>9, <1>14 DEF Inside
  <2> QED
    BY <1>14, <2>1, <2>2 DEF Loops
<1>16. PICK r : r = WithHandlers(p, a, b, e)
  OBVIOUS
<1>17. SetTop(r)
  BY <1>10, <1>13, <1>16 DEF SetTop, WithHandlers
<1>18. /\ WellFormed(r) /\ Grows(p, r) /\ r.bytecode_size = p.bytecode_size /\ r.outer = p.outer
       /\ \A P : Settled(p, P) => Settled(r, P)
  BY <1>3, <1>14, <1>15, <1>16, HandlersFrame
<1>19. PICK c : c = Leaves(C[N])
  OBVIOUS
<1>20. /\ SamePlace(C[N], c) /\ c.code = GoesOn(C[N].code)
       /\ c.labels = C[N].labels /\ c.kinds = C[N].kinds
  BY <1>3, <1>19, LeavesContext
<1>21. c.code # "ended"
  BY <1>20 DEF GoesOn
<1>22. <<Tail(Act.todo), c>> \in Typings[V[N]]
  <2>1. <<Tail(Act.todo), Leaves(C[N])>> \in Onward(Act.todo, C[N])
    BY <1>1, Zenon DEF Onward, Op
  <2> QED
    BY <1>1, <1>19, <2>1, Discipline
<1> QED
  BY <1>1, <1>2, <1>17, <1>18, <1>20, <1>21, <1>22, FrameGoOnStep
-----------------------------------------------------------------------------
(* The actions that emit an instruction.                                     *)

(* The instruction emitted now.                                              *)
Made(op, args, slot, target, extra, str, by) ==
  [at |-> Size, op |-> op, args |-> args, slot |-> slot, target |-> target, extra |-> extra,
   str |-> str, by |-> by]
NoName == ""

LEMMA NoNameString == NoName \in STRING
BY LiteralsAssumption, Zenon DEF NoName

LEMMA EmittedFields ==
  ASSUME NEW op, NEW rs
  PROVE  Emitted(op, rs) = [at |-> Size, op |-> op, args |-> rs, slot |-> 0, target |-> 0,
                            extra |-> 0, str |-> NoName, by |-> Act.id]
BY Zenon DEF Emitted, Instr, NoName

LEMMA EmittedValues ==
  ASSUME NEW op, NEW rs, NEW target, NEW extra, NEW str
  PROVE  [Emitted(op, rs) EXCEPT !.target = target, !.extra = extra, !.str = str]
           = Made(op, rs, 0, target, extra, str, Act.id)
<1>1. PICK at, id : at = Size /\ id = Act.id
  OBVIOUS
<1>2. PICK e : e = Emitted(op, rs)
  OBVIOUS
<1>3. e = [at |-> at, op |-> op, args |-> rs, slot |-> 0, target |-> 0, extra |-> 0,
           str |-> NoName, by |-> id]
  BY <1>1, <1>2, EmittedFields
<1>4. PICK e1 : e1 = [e EXCEPT !.target = target]
  OBVIOUS
<1>5. e1 = [at |-> at, op |-> op, args |-> rs, slot |-> 0, target |-> target, extra |-> 0,
           str |-> NoName, by |-> id]
  BY <1>3, <1>4
<1>6. PICK e2 : e2 = [e1 EXCEPT !.extra = extra]
  OBVIOUS
<1>7. e2 = [at |-> at, op |-> op, args |-> rs, slot |-> 0, target |-> target, extra |-> extra,
           str |-> NoName, by |-> id]
  BY <1>5, <1>6
<1>8. PICK e3 : e3 = [e2 EXCEPT !.str = str]
  OBVIOUS
<1>9. e3 = [at |-> at, op |-> op, args |-> rs, slot |-> 0, target |-> target, extra |-> extra,
           str |-> str, by |-> id]
  BY <1>7, <1>8
<1>10. [e EXCEPT !.target = target, !.extra = extra, !.str = str] = e3
  BY <1>4, <1>6, <1>8, Zenon
<1> QED
  BY <1>1, <1>2, <1>9, <1>10, Zenon DEF Made

LEMMA EmittedOperands ==
  ASSUME NEW op, NEW rs, NEW target, NEW extra
  PROVE  [Emitted(op, rs) EXCEPT !.target = target, !.extra = extra]
           = Made(op, rs, 0, target, extra, NoName, Act.id)
<1>1. PICK at, id : at = Size /\ id = Act.id
  OBVIOUS
<1>2. PICK e : e = Emitted(op, rs)
  OBVIOUS
<1>3. e = [at |-> at, op |-> op, args |-> rs, slot |-> 0, target |-> 0, extra |-> 0,
           str |-> NoName, by |-> id]
  BY <1>1, <1>2, EmittedFields
<1>4. PICK e1 : e1 = [e EXCEPT !.target = target]
  OBVIOUS
<1>5. e1 = [at |-> at, op |-> op, args |-> rs, slot |-> 0, target |-> target, extra |-> 0,
           str |-> NoName, by |-> id]
  BY <1>3, <1>4
<1>6. PICK e2 : e2 = [e1 EXCEPT !.extra = extra]
  OBVIOUS
<1>7. e2 = [at |-> at, op |-> op, args |-> rs, slot |-> 0, target |-> target, extra |-> extra,
           str |-> NoName, by |-> id]
  BY <1>5, <1>6
<1>8. [e EXCEPT !.target = target, !.extra = extra] = e2
  BY <1>4, <1>6, Zenon
<1> QED
  BY <1>1, <1>2, <1>7, <1>8, Zenon DEF Made

LEMMA EmittedTarget ==
  ASSUME NEW op, NEW rs, NEW target
  PROVE  [Emitted(op, rs) EXCEPT !.target = target]
           = Made(op, rs, 0, target, 0, NoName, Act.id)
<1>1. PICK at, id : at = Size /\ id = Act.id
  OBVIOUS
<1>2. PICK e : e = Emitted(op, rs)
  OBVIOUS
<1>3. e = [at |-> at, op |-> op, args |-> rs, slot |-> 0, target |-> 0, extra |-> 0,
           str |-> NoName, by |-> id]
  BY <1>1, <1>2, EmittedFields
<1>4. PICK e1 : e1 = [e EXCEPT !.target = target]
  OBVIOUS
<1>5. e1 = [at |-> at, op |-> op, args |-> rs, slot |-> 0, target |-> target, extra |-> 0,
           str |-> NoName, by |-> id]
  BY <1>3, <1>4
<1>6. [e EXCEPT !.target = target] = e1
  BY <1>4, Zenon
<1> QED
  BY <1>1, <1>2, <1>5, <1>6, Zenon DEF Made

LEMMA EmittedBy ==
  ASSUME NEW op, NEW rs, NEW by
  PROVE  [Emitted(op, rs) EXCEPT !.by = by]
           = Made(op, rs, 0, 0, 0, NoName, by)
<1>1. PICK at, id : at = Size /\ id = Act.id
  OBVIOUS
<1>2. PICK e : e = Emitted(op, rs)
  OBVIOUS
<1>3. e = [at |-> at, op |-> op, args |-> rs, slot |-> 0, target |-> 0, extra |-> 0,
           str |-> NoName, by |-> id]
  BY <1>1, <1>2, EmittedFields
<1>4. PICK e1 : e1 = [e EXCEPT !.by = by]
  OBVIOUS
<1>5. e1 = [at |-> at, op |-> op, args |-> rs, slot |-> 0, target |-> 0, extra |-> 0,
           str |-> NoName, by |-> by]
  BY <1>3, <1>4
<1>6. [e EXCEPT !.by = by] = e1
  BY <1>4, Zenon
<1> QED
  BY <1>1, <1>2, <1>5, <1>6, Zenon DEF Made

LEMMA EmittedJump ==
  ASSUME NEW op, NEW rs, NEW slot, NEW target
  PROVE  [Emitted(op, rs) EXCEPT !.slot = slot, !.target = target]
           = Made(op, rs, slot, target, 0, NoName, Act.id)
<1>1. PICK at, id : at = Size /\ id = Act.id
  OBVIOUS
<1>2. PICK e : e = Emitted(op, rs)
  OBVIOUS
<1>3. e = [at |-> at, op |-> op, args |-> rs, slot |-> 0, target |-> 0, extra |-> 0,
           str |-> NoName, by |-> id]
  BY <1>1, <1>2, EmittedFields
<1>4. PICK e1 : e1 = [e EXCEPT !.slot = slot]
  OBVIOUS
<1>5. e1 = [at |-> at, op |-> op, args |-> rs, slot |-> slot, target |-> 0, extra |-> 0,
           str |-> NoName, by |-> id]
  BY <1>3, <1>4
<1>6. PICK e2 : e2 = [e1 EXCEPT !.target = target]
  OBVIOUS
<1>7. e2 = [at |-> at, op |-> op, args |-> rs, slot |-> slot, target |-> target, extra |-> 0,
           str |-> NoName, by |-> id]
  BY <1>5, <1>6
<1>8. [e EXCEPT !.slot = slot, !.target = target] = e2
  BY <1>4, <1>6, Zenon
<1> QED
  BY <1>1, <1>2, <1>7, <1>8, Zenon DEF Made

LEMMA EmittedParam ==
  ASSUME NEW op, NEW rs, NEW slot, NEW extra
  PROVE  [Emitted(op, rs) EXCEPT !.slot = slot, !.extra = extra]
           = Made(op, rs, slot, 0, extra, NoName, Act.id)
<1>1. PICK at, id : at = Size /\ id = Act.id
  OBVIOUS
<1>2. PICK e : e = Emitted(op, rs)
  OBVIOUS
<1>3. e = [at |-> at, op |-> op, args |-> rs, slot |-> 0, target |-> 0, extra |-> 0,
           str |-> NoName, by |-> id]
  BY <1>1, <1>2, EmittedFields
<1>4. PICK e1 : e1 = [e EXCEPT !.slot = slot]
  OBVIOUS
<1>5. e1 = [at |-> at, op |-> op, args |-> rs, slot |-> slot, target |-> 0, extra |-> 0,
           str |-> NoName, by |-> id]
  BY <1>3, <1>4
<1>6. PICK e2 : e2 = [e1 EXCEPT !.extra = extra]
  OBVIOUS
<1>7. e2 = [at |-> at, op |-> op, args |-> rs, slot |-> slot, target |-> 0, extra |-> extra,
           str |-> NoName, by |-> id]
  BY <1>5, <1>6
<1>8. [e EXCEPT !.slot = slot, !.extra = extra] = e2
  BY <1>4, <1>6, Zenon
<1> QED
  BY <1>1, <1>2, <1>7, <1>8, Zenon DEF Made

(* What the operations that emit an instruction of their own take.            *)
LEMMA TheirOperands ==
  /\ \A op \in {"getlex", "bindlex", "getcode", "param_op_o", "wval", "next", "last", "redo"} :
       Operands(op) = {<<"obj">>}
  /\ \A op \in {"if", "unless"} : Operands(op) = {<<type>> : type \in RegTypes}
  /\ \A op \in {"goto", "prepargs"} : Operands(op) = {<<>>}
BY DEF Operands

(* The registers an instruction is given are of the types it takes.           *)
LEMMA RegistersFit ==
  ASSUME NEW C, NEW B, NEW V, IInv(C, B, V), status = "compiling",
         NEW args, AreRegisters(C[N], args), NEW op, TypesOf(C[N], args) \in Operands(op)
  PROVE  /\ Registers(args) \in Seq(Int) /\ Len(Registers(args)) = Len(args) /\ Len(args) \in Nat
         /\ \A in : in.args = Registers(args) /\ in.op = op => Fits(frame[Top], in)
<1>1. args \in Seq(DOMAIN C[N].kinds) /\ \A i \in DOMAIN args : IsRegisterOf(C[N], args[i])
  BY Zenon DEF AreRegisters
<1>2. Len(args) \in Nat /\ DOMAIN args = 1..Len(args)
  BY <1>1, LenProperties
<1>3. \A i \in DOMAIN args : /\ loc[args[i]] \in Nat /\ IsLocal(frame[Top], loc[args[i]])
                             /\ TypeOf(loc[args[i]]) = C[N].kinds[args[i]].type
                             /\ U16(loc[args[i]]) = loc[args[i]]
  BY <1>1, RegisterFits
<1>4. PICK rs : rs = Registers(args)
  OBVIOUS
<1>5. DOMAIN rs = DOMAIN args /\ \A i \in DOMAIN args : rs[i] = loc[args[i]]
  BY <1>3, <1>4 DEF Registers
<1>6. rs = [i \in 1..Len(args) |-> U16(loc[args[i]])]
  BY <1>2, <1>4 DEF Registers
<1>7. rs \in Seq(Int) /\ Len(rs) = Len(args)
  <2>1. \A i \in 1..Len(args) : U16(loc[args[i]]) \in Int
    BY <1>2, <1>3
  <2> QED
    BY <1>2, <1>6, <2>1, IsASeq, LenProperties
<1>8. ASSUME NEW in, in.args = rs, in.op = op
      PROVE  Fits(frame[Top], in)
  <2>1. \A j \in DOMAIN in.args : IsLocal(frame[Top], in.args[j])
    BY <1>3, <1>5, <1>8
  <2>2. [j \in DOMAIN in.args |-> frame[Top].locals[in.args[j] + 1]] = TypesOf(C[N], args)
    BY <1>3, <1>5, <1>8 DEF TypesOf, TypeOf
  <2> QED
    BY <1>8, <2>1, <2>2 DEF Fits
<1> QED
  BY <1>2, <1>4, <1>7, <1>8

LEMMA OneRegister ==
  ASSUME NEW c, NEW v, IsRegisterOf(c, v)
  PROVE  AreRegisters(c, <<v>>) /\ TypesOf(c, <<v>>) = <<c.kinds[v].type>>
<1>1. PICK D : D = DOMAIN c.kinds
  OBVIOUS
<1>2. v \in D
  BY <1>1 DEF IsRegisterOf, Known
<1>3. <<v>> \in Seq(D)
  BY <1>2
<1>4. DOMAIN <<v>> = 1..1 /\ <<v>>[1] = v
  OBVIOUS
<1>5. AreRegisters(c, <<v>>)
  BY <1>1, <1>3, <1>4 DEF AreRegisters
<1>6. PICK x : x = c.kinds[v].type
  OBVIOUS
<1>7. TypesOf(c, <<v>>) = [i \in 1..1 |-> x]
  BY <1>4, <1>6 DEF TypesOf
<1>8. [i \in 1..1 |-> x] = <<x>>
  OBVIOUS
<1> QED
  BY <1>5, <1>6, <1>7, <1>8

LEMMA HeldRegister ==
  ASSUME NEW c, NEW v, NEW type, Holds(c, v, type)
  PROVE  IsRegisterOf(c, v) /\ c.kinds[v].type = type
BY DEF Holds, IsRegisterOf, Register, Kind, Known

LEMMA NoRegister ==
  ASSUME NEW c
  PROVE  AreRegisters(c, <<>>) /\ TypesOf(c, <<>>) = <<>> /\ Registers(<<>>) = <<>>
BY DEF AreRegisters, TypesOf, Registers

(* An instruction that is no jump, with operands no patch rewrites.           *)
LEMMA PlainStep ==
  ASSUME NEW C, NEW B, NEW V, IInv(C, B, V), status = "compiling",
         NEW t, NEW op \in STRING, NEW args, NEW target \in Int, NEW extra \in Int,
         NEW str \in STRING, NEW by \in Nat, NEW imm \in Nat,
         AreRegisters(C[N], args), TypesOf(C[N], args) \in Operands(op), ~ IsJump(op),
         Resume(t, loc, lab),
         SetTop(Asm(frame[Top], Made(op, Registers(args), 0, target, extra, str, by), imm)),
         frames' = frames, calls' = calls, status' = status, UnitOK',
         <<t, Emits(C[N], op)>> \in Typings[V[N]]
  PROVE  Inv'
<1>1. Size \in Nat
  BY Now
<1>2. PICK rs : rs = Registers(args)
  OBVIOUS
<1>3. PICK in, slot : in = Made(op, rs, slot, target, extra, str, by) /\ slot = 0
  OBVIOUS
<1>4. rs \in Seq(Int)
  BY <1>2, RegistersFit
<1>5. \A i : i.args = rs /\ i.op = op => Fits(frame[Top], i)
  BY <1>2, RegistersFit
<1>6. /\ in \in Instruction /\ in.at = Size /\ in.op = op /\ in.args = rs /\ in.slot = 0
  BY <1>1, <1>3, <1>4 DEF Made, Instruction
<1>7. Fits(frame[Top], in) /\ SetTop(Asm(frame[Top], in, imm))
  BY <1>2, <1>3, <1>5, <1>6
<1> QED
  BY <1>6, <1>7, EmitStep

LEMMA ActId ==
  ASSUME NEW C, NEW B, NEW V, IInv(C, B, V), status = "compiling"
  PROVE  Act.id \in Nat /\ \A i \in DOMAIN acts : acts[i].id \in Nat
<1>1. Stacked(C, B) /\ acts # <<>>
  BY DEF IInv, StatusOK
<1>2. IsAct(Act)
  BY <1>1, Running
<1>3. \A i \in DOMAIN acts : IsAct(acts[i])
  BY <1>1, Zenon DEF Stacked
<1> QED
  BY <1>2, <1>3 DEF IsAct

LEMMA EmitOpStep ==
  ASSUME NEW C, NEW B, NEW V, IInv(C, B, V), Emit
  PROVE  Inv'
<1>1. /\ status = "compiling" /\ Op.op = "emit" /\ Resume(Tail(Act.todo), loc, lab)
      /\ frames' = frames /\ cu' = cu /\ calls' = calls /\ status' = status
  BY DEF Emit, Does, Proceed, Continue
<1>2. PICK op, args, target, extra, str, imm :
        /\ op = Op.name /\ args = Op.args /\ target = Op.val /\ extra = Op.extra /\ str = Op.str
        /\ imm = Op.imm
  OBVIOUS
<1>3. /\ op \in STRING /\ ~ IsJump(op) /\ target \in Int /\ extra \in Int /\ str \in STRING
      /\ imm \in Nat /\ AreRegisters(C[N], args) /\ TypesOf(C[N], args) \in Operands(op)
  BY <1>1, <1>2, Discipline, Zenon DEF Constrained
<1>4. PICK by : by = Act.id
  OBVIOUS
<1>5. by \in Nat
  BY <1>1, <1>4, ActId
<1>6. SetTop(Asm(frame[Top], Made(op, Registers(args), 0, target, extra, str, by), imm))
  <2>1. PICK in : in = [Emitted(op, Registers(args)) EXCEPT !.target = target, !.extra = extra,
                                                            !.str = str]
    OBVIOUS
  <2>2. in = Made(op, Registers(args), 0, target, extra, str, by)
    BY <1>4, <2>1, EmittedValues, Zenon
  <2>3. SetTop(Asm(frame[Top], in, imm))
    BY <1>2, <2>1 DEF Emit
  <2> QED
    BY <2>2, <2>3
<1>7. UnitOK'
  BY <1>1, <1>6, Now, TopUnit, UnitSame
<1>8. PICK t : t = Tail(Act.todo)
  OBVIOUS
<1>9. <<t, Emits(C[N], op)>> \in Typings[V[N]]
  <2>1. <<Tail(Act.todo), Emits(C[N], Op.name)>> \in Onward(Act.todo, C[N])
    BY <1>1, Zenon DEF Onward, Op
  <2> QED
    BY <1>1, <1>2, <1>8, <2>1, Discipline
<1>10. Resume(t, loc, lab)
  BY <1>1, <1>8
<1> QED
  BY <1>1, <1>3, <1>5, <1>6, <1>7, <1>9, <1>10, PlainStep

LEMMA AccessLexicalStep ==
  ASSUME NEW C, NEW B, NEW V, IInv(C, B, V), AccessLexical
  PROVE  Inv'
<1>1. /\ status = "compiling" /\ Op.op = "access" /\ Resume(Tail(Act.todo), loc, lab)
      /\ frames' = frames /\ cu' = cu /\ calls' = calls /\ status' = status
  BY DEF AccessLexical, Does, Proceed, Continue
<1>2. PICK op, reg, args, target, extra :
        /\ op = Op.instr /\ reg = Op.reg /\ args = <<reg>> /\ target = U16(loc[Op.lex])
        /\ extra = U16(loc[Op.outer])
  OBVIOUS
<1>3. /\ op \in {"getlex", "bindlex"} /\ Holds(C[N], reg, "obj")
      /\ Known(C[N], Op.lex) /\ Known(C[N], Op.outer)
  BY <1>1, <1>2, Discipline, Zenon DEF Constrained
<1>4. target \in Int /\ extra \in Int
  <2>1. loc[Op.lex] \in Int /\ loc[Op.outer] \in Int
    BY <1>1, <1>3, KnownFits
  <2>2. target \in 0..(Word - 1) /\ extra \in 0..(Word - 1)
    BY <1>2, <2>1, U16Nat
  <2> QED
    BY <2>2, WordAssumption
<1>5. AreRegisters(C[N], args) /\ TypesOf(C[N], args) = <<"obj">>
  <2>1. IsRegisterOf(C[N], reg) /\ C[N].kinds[reg].type = "obj"
    BY <1>3, HeldRegister
  <2> QED
    BY <1>2, <2>1, OneRegister
<1>6. Operands(op) = {<<"obj">>} /\ ~ IsJump(op) /\ op \in STRING
  BY <1>3, TheirOperands, LiteralsAssumption DEF IsJump, IsBranch
<1>7. PICK by, str, imm : by = Act.id /\ str = NoName /\ imm = 4
  OBVIOUS
<1>8. by \in Nat /\ str \in STRING /\ imm \in Nat
  <2>1. by \in Nat /\ imm \in Nat
    BY <1>1, <1>7, ActId
  <2>2. str \in STRING
    BY <1>7, NoNameString
  <2> QED
    BY <2>1, <2>2
<1>9. SetTop(Asm(frame[Top], Made(op, Registers(args), 0, target, extra, str, by), imm))
  <2>1. PICK in : in = [Emitted(op, Registers(args)) EXCEPT !.target = target, !.extra = extra]
    OBVIOUS
  <2>2. in = Made(op, Registers(args), 0, target, extra, str, by)
    BY <1>7, <2>1, EmittedOperands, Zenon
  <2>3. SetTop(Asm(frame[Top], in, imm))
    BY <1>2, <1>7, <2>1 DEF AccessLexical
  <2> QED
    BY <2>2, <2>3
<1>10. UnitOK'
  BY <1>1, <1>9, Now, TopUnit, UnitSame
<1>11. PICK t : t = Tail(Act.todo)
  OBVIOUS
<1>12. <<t, Emits(C[N], op)>> \in Typings[V[N]]
  <2>1. <<Tail(Act.todo), Emits(C[N], Op.instr)>> \in Onward(Act.todo, C[N])
    BY <1>1, Zenon DEF Onward, Op
  <2> QED
    BY <1>1, <1>2, <1>11, <2>1, Discipline
<1>13. Resume(t, loc, lab) /\ TypesOf(C[N], args) \in Operands(op)
  BY <1>1, <1>5, <1>6, <1>11
<1> QED
  BY <1>1, <1>4, <1>5, <1>6, <1>8, <1>9, <1>10, <1>12, <1>13, PlainStep

(* The activation a throw belongs to, or 0.                                   *)
LEMMA InnermostNat ==
  ASSUME NEW C, NEW B, NEW V, IInv(C, B, V), status = "compiling"
  PROVE  InnermostLoop \in Nat
<1> DEFINE inside == {i \in DOMAIN acts : "start_offset" \in DOMAIN acts[i].loc}
<1>1. Len(acts) \in Nat /\ DOMAIN acts = 1..Len(acts)
  BY SeqFields DEF IInv, Stacked
<1>2. \A i \in DOMAIN acts : acts[i].id \in Nat
  BY ActId
<1>3. CASE inside = {}
  BY <1>3 DEF InnermostLoop
<1>4. CASE inside # {}
  <2>1. inside \subseteq Nat /\ \A i \in inside : i <= Len(acts)
    BY <1>1
  <2>2. \E i \in inside : \A j \in inside : j <= i
    BY <1>1, <1>4, <2>1, MaxNat
  <2>3. (CHOOSE i \in inside : \A j \in inside : j <= i) \in inside
    BY <2>2
  <2>4. (CHOOSE i \in inside : \A j \in inside : j <= i) \in DOMAIN acts
    BY <2>3
  <2>5. InnermostLoop = acts[CHOOSE i \in inside : \A j \in inside : j <= i].id
    BY <1>4 DEF InnermostLoop
  <2> HIDE DEF inside
  <2> QED
    BY <1>2, <2>4, <2>5
<1> QED
  BY <1>3, <1>4

LEMMA ThrowStep ==
  ASSUME NEW C, NEW B, NEW V, IInv(C, B, V), Throw
  PROVE  Inv'
<1>1. /\ status = "compiling" /\ Op.op = "throw" /\ Resume(Tail(Act.todo), loc, lab)
      /\ frames' = frames /\ cu' = cu /\ calls' = calls /\ status' = status
  BY DEF Throw, Does, Proceed, Continue
<1>2. PICK op, reg, args : op = Op.category /\ reg = Op.dst /\ args = <<reg>>
  OBVIOUS
<1>3. IsThrow(op) /\ Holds(C[N], reg, "obj")
  BY <1>1, <1>2, Discipline, Zenon DEF Constrained
<1>4. AreRegisters(C[N], args) /\ TypesOf(C[N], args) = <<"obj">>
  <2>1. IsRegisterOf(C[N], reg) /\ C[N].kinds[reg].type = "obj"
    BY <1>3, HeldRegister
  <2> QED
    BY <1>2, <2>1, OneRegister
<1>5. Operands(op) = {<<"obj">>} /\ ~ IsJump(op) /\ op \in STRING
  BY <1>3, TheirOperands, LiteralsAssumption DEF IsJump, IsBranch, IsThrow
<1>6. PICK by, str, imm, target, extra :
        by = InnermostLoop /\ str = NoName /\ imm = 8 /\ target = 0 /\ extra = 0
  OBVIOUS
<1>7. by \in Nat /\ str \in STRING /\ imm \in Nat /\ target \in Int /\ extra \in Int
  <2>1. InnermostLoop \in Nat
    BY <1>1, InnermostNat
  <2>2. str \in STRING
    BY <1>6, NoNameString
  <2>3. by \in Nat /\ imm \in Nat /\ target \in Int /\ extra \in Int
    BY <1>6, <2>1
  <2> QED
    BY <2>2, <2>3
<1>8. SetTop(Asm(frame[Top], Made(op, Registers(args), 0, target, extra, str, by), imm))
  <2>1. PICK in : in = [Emitted(op, Registers(args)) EXCEPT !.by = by]
    OBVIOUS
  <2>2. in = Made(op, Registers(args), 0, target, extra, str, by)
    BY <1>6, <2>1, EmittedBy, ZenonT(30)
  <2>3. SetTop(Asm(frame[Top], in, imm))
    BY <1>2, <1>6, <2>1 DEF Throw
  <2> QED
    BY <2>2, <2>3
<1>9. UnitOK'
  BY <1>1, <1>8, Now, TopUnit, UnitSame
<1>10. PICK t : t = Tail(Act.todo)
  OBVIOUS
<1>11. <<t, Emits(C[N], op)>> \in Typings[V[N]]
  <2>1. <<Tail(Act.todo), Emits(C[N], Op.category)>> \in Onward(Act.todo, C[N])
    BY <1>1, Zenon DEF Onward, Op
  <2> QED
    BY <1>1, <1>2, <1>10, <2>1, Discipline
<1>12. Resume(t, loc, lab) /\ TypesOf(C[N], args) \in Operands(op)
  BY <1>1, <1>4, <1>5, <1>10
<1> QED
  BY <1>1, <1>4, <1>5, <1>7, <1>8, <1>9, <1>11, <1>12, PlainStep

LEMMA WvalStep ==
  ASSUME NEW C, NEW B, NEW V, IInv(C, B, V), Wval
  PROVE  Inv'
<1>1. /\ status = "compiling" /\ Op.op = "wval" /\ Resume(Tail(Act.todo), loc, lab)
      /\ frames' = frames /\ cu' = cu /\ calls' = calls /\ status' = status
  BY DEF Wval, Does, Proceed, Continue
<1>2. PICK op, reg, args, target : /\ op = "wval" /\ reg = Op.dst /\ args = <<reg>>
                                   /\ target = loc[Op.sc]
  OBVIOUS
<1>3. Holds(C[N], reg, "obj") /\ Known(C[N], Op.sc)
  BY <1>1, <1>2, Discipline, Zenon DEF Constrained
<1>4. AreRegisters(C[N], args) /\ TypesOf(C[N], args) = <<"obj">>
  <2>1. IsRegisterOf(C[N], reg) /\ C[N].kinds[reg].type = "obj"
    BY <1>3, HeldRegister
  <2> QED
    BY <1>2, <2>1, OneRegister
<1>5. Operands(op) = {<<"obj">>} /\ ~ IsJump(op) /\ op \in STRING
  BY <1>2, TheirOperands, LiteralsAssumption, Zenon DEF IsJump, IsBranch
<1>6. PICK by, str, imm, extra : by = Act.id /\ str = NoName /\ imm = 4 /\ extra = 0
  OBVIOUS
<1>7. by \in Nat /\ str \in STRING /\ imm \in Nat /\ extra \in Int /\ target \in Int
  <2>1. by \in Nat /\ imm \in Nat /\ extra \in Int
    BY <1>1, <1>6, ActId
  <2>2. str \in STRING
    BY <1>6, NoNameString
  <2>3. target \in Int
    BY <1>1, <1>2, <1>3, KnownFits
  <2> QED
    BY <2>1, <2>2, <2>3
<1>8. SetTop(Asm(frame[Top], Made(op, Registers(args), 0, target, extra, str, by), imm))
  <2>1. PICK in : in = [Emitted(op, Registers(args)) EXCEPT !.target = target]
    OBVIOUS
  <2>2. in = Made(op, Registers(args), 0, target, extra, str, by)
    BY <1>6, <2>1, EmittedTarget, Zenon
  <2>3. SetTop(Asm(frame[Top], in, imm))
    BY <1>2, <1>6, <2>1 DEF Wval
  <2> QED
    BY <2>2, <2>3
<1>9. UnitOK'
  BY <1>1, <1>8, Now, TopUnit, UnitSame
<1>10. PICK t : t = Tail(Act.todo)
  OBVIOUS
<1>11. <<t, Emits(C[N], op)>> \in Typings[V[N]]
  <2>1. <<Tail(Act.todo), Emits(C[N], "wval")>> \in Onward(Act.todo, C[N])
    BY <1>1, Zenon DEF Onward, Op
  <2> QED
    BY <1>1, <1>2, <1>10, <2>1, Discipline
<1>12. Resume(t, loc, lab) /\ TypesOf(C[N], args) \in Operands(op)
  BY <1>1, <1>4, <1>5, <1>10
<1> QED
  BY <1>1, <1>4, <1>5, <1>7, <1>8, <1>9, <1>11, <1>12, PlainStep

(* A callsite of registers is one of types.                                   *)
LEMMA FlagsTyped ==
  ASSUME NEW C, NEW B, NEW V, IInv(C, B, V), status = "compiling",
         NEW args, AreRegisters(C[N], args)
  PROVE  Flags(args) \in Seq(RegTypes)
<1>1. args \in Seq(DOMAIN C[N].kinds) /\ \A i \in DOMAIN args : IsRegisterOf(C[N], args[i])
  BY Zenon DEF AreRegisters
<1>2. Len(args) \in Nat /\ DOMAIN args = 1..Len(args)
  BY <1>1, LenProperties
<1>3. \A i \in 1..Len(args) : TypeOf(loc[args[i]]) \in RegTypes
  BY <1>1, <1>2, RegisterFits
<1>4. Flags(args) = [i \in 1..Len(args) |-> TypeOf(loc[args[i]])]
  BY <1>2 DEF Flags
<1> QED
  BY <1>2, <1>3, <1>4, IsASeq

LEMMA CallsitePushed ==
  ASSUME UnitOK, DOMAIN frame' = DOMAIN frame, NEW flags \in Seq(RegTypes),
         cu' = [cu EXCEPT !.callsites = Append(@, flags)]
  PROVE  UnitOK'
<1>1. /\ cu.callsites \in Seq(Seq(RegTypes)) /\ cu.max_callsite_size \in Nat
      /\ cu.current_class_how \in Nat /\ IsSeq(cu.scs)
  BY UnitFields
<1>2. Append(cu.callsites, flags) \in Seq(Seq(RegTypes))
  BY <1>1, AppendProperties
<1>3. cu' = [callsites |-> Append(cu.callsites, flags), max_callsite_size |-> cu.max_callsite_size,
             scs |-> cu.scs, current_class_how |-> cu.current_class_how]
  BY DEF UnitOK
<1>4. /\ cu'.scs = cu.scs /\ cu'.current_class_how = cu.current_class_how
      /\ cu' \in [callsites : Seq(Seq(RegTypes)), max_callsite_size : Nat,
                  scs : {cu'.scs}, current_class_how : Nat]
  BY <1>1, <1>2, <1>3
<1>5. /\ IsSeq(cu'.scs) /\ \A i \in DOMAIN cu'.scs : IsObject(cu'.scs[i])
      /\ cu'.current_class_how \in {0} \cup Classes(cu'.scs)
      /\ MethodsIn(cu'.scs, DOMAIN frame')
  BY <1>4 DEF UnitOK
<1> QED
  BY <1>4, <1>5, Zenon DEF UnitOK

LEMMA PrepArgsStep ==
  ASSUME NEW C, NEW B, NEW V, IInv(C, B, V), PrepArgs
  PROVE  Inv'
<1>1. /\ status = "compiling" /\ Op.op = "prepargs" /\ Resume(Tail(Act.todo), loc, lab)
      /\ frames' = frames /\ calls' = calls /\ status' = status
  BY DEF PrepArgs, Does, Continue
<1>2. PICK op, args, flags, same, sites :
        /\ op = "prepargs" /\ args = <<>> /\ flags = Flags(Op.args) /\ same = SameCallsite(flags)
        /\ sites = cu.callsites
  OBVIOUS
<1>3. AreRegisters(C[N], Op.args)
  BY <1>1, Discipline, Zenon DEF Constrained
<1>4. flags \in Seq(RegTypes)
  BY <1>1, <1>2, <1>3, FlagsTyped
<1>5. UnitOK /\ Len(sites) \in Nat /\ DOMAIN sites = 1..Len(sites)
  <2>1. UnitOK
    BY <1>1, Now
  <2> QED
    BY <1>2, <2>1, UnitFields, LenProperties
<1>6. PICK no : no = IF same = {} THEN Len(sites) ELSE SetMin(same) - 1
  OBVIOUS
<1>7. no \in Int
  <2>1. CASE same = {}
    BY <1>5, <1>6, <2>1
  <2>2. CASE same # {}
    <3>1. same \subseteq Nat
      BY <1>2, <1>5 DEF SameCallsite
    <3>2. \E x \in same : \A y \in same : x <= y
      BY <2>2, <3>1, MinNat
    <3>3. PICK m : m = SetMin(same)
      OBVIOUS
    <3>4. m \in same
      BY <3>2, <3>3 DEF SetMin
    <3>5. no = m - 1
      BY <1>6, <2>2, <3>3
    <3> QED
      BY <3>1, <3>4, <3>5
  <2> QED
    BY <2>1, <2>2
<1>8. PICK target, by, str, imm, extra :
        target = U16(no) /\ by = Act.id /\ str = NoName /\ imm = 2 /\ extra = 0
  OBVIOUS
<1>9. by \in Nat /\ str \in STRING /\ imm \in Nat /\ extra \in Int /\ target \in Int
  <2>1. by \in Nat /\ imm \in Nat /\ extra \in Int
    BY <1>1, <1>8, ActId
  <2>2. str \in STRING
    BY <1>8, NoNameString
  <2>3. target \in 0..(Word - 1)
    BY <1>7, <1>8, U16Nat
  <2>4. target \in Int
    BY <2>3, WordAssumption
  <2> QED
    BY <2>1, <2>2, <2>4
<1>10. AreRegisters(C[N], args) /\ TypesOf(C[N], args) = <<>> /\ Registers(args) = args
  BY <1>2, NoRegister
<1>11. Operands(op) = {<<>>} /\ ~ IsJump(op) /\ op \in STRING
  BY <1>2, TheirOperands, LiteralsAssumption, Zenon DEF IsJump, IsBranch
<1>12. /\ cu' = IF same = {} THEN [cu EXCEPT !.callsites = Append(@, flags)] ELSE cu
       /\ SetTop(Asm(frame[Top], [Emitted(op, args) EXCEPT !.target = target], imm))
  BY <1>2, <1>6, <1>8 DEF PrepArgs
<1>13. SetTop(Asm(frame[Top], Made(op, Registers(args), 0, target, extra, str, by), imm))
  <2>1. PICK in : in = [Emitted(op, args) EXCEPT !.target = target]
    OBVIOUS
  <2>2. in = Made(op, args, 0, target, extra, str, by)
    BY <1>8, <2>1, EmittedTarget, Zenon
  <2> QED
    BY <1>10, <1>12, <2>1, <2>2
<1>14. UnitOK'
  <2>1. DOMAIN frame' = DOMAIN frame
    BY <1>13, TopUnit
  <2>2. CASE same = {}
    BY <1>4, <1>5, <1>12, <2>1, <2>2, CallsitePushed
  <2>3. CASE same # {}
    BY <1>5, <1>12, <2>1, <2>3, UnitSame
  <2> QED
    BY <2>2, <2>3
<1>15. PICK t : t = Tail(Act.todo)
  OBVIOUS
<1>16. <<t, Emits(C[N], op)>> \in Typings[V[N]]
  <2>1. <<Tail(Act.todo), Emits(C[N], "prepargs")>> \in Onward(Act.todo, C[N])
    BY <1>1, Zenon DEF Onward, Op
  <2> QED
    BY <1>1, <1>2, <1>15, <2>1, Discipline
<1>17. Resume(t, loc, lab) /\ TypesOf(C[N], args) \in Operands(op)
  BY <1>1, <1>10, <1>11, <1>15
<1> QED
  BY <1>1, <1>9, <1>10, <1>11, <1>13, <1>14, <1>16, <1>17, PlainStep

(* The offset of the frame number taken is kept.                              *)
LEMMA GetCodeStep ==
  ASSUME NEW C, NEW B, NEW V, IInv(C, B, V), GetCode
  PROVE  Inv'
<1>1. /\ status = "compiling" /\ Op.op = "getcode"
      /\ frames' = frames /\ cu' = cu /\ calls' = calls /\ status' = status
  BY DEF GetCode, Does, Proceed
<1>2. PICK op, reg, args, no, d, size :
        /\ op = "getcode" /\ reg = Op.dst /\ args = <<reg>>
        /\ no = IF Op.frame = "0" THEN 1 ELSE loc[Op.frame]
        /\ d = C[N].depth /\ size = Size
  OBVIOUS
<1>3. Holds(C[N], reg, "obj") /\ (Op.frame = "0" \/ Known(C[N], Op.frame))
  BY <1>1, <1>2, Discipline, Zenon DEF Constrained
<1>4. AreRegisters(C[N], args) /\ TypesOf(C[N], args) = <<"obj">>
  <2>1. IsRegisterOf(C[N], reg) /\ C[N].kinds[reg].type = "obj"
    BY <1>3, HeldRegister
  <2> QED
    BY <1>2, <2>1, OneRegister
<1>5. Operands(op) = {<<"obj">>} /\ op \in STRING
  BY <1>2, TheirOperands, LiteralsAssumption, Zenon
<1>6. ~ IsJump(op) /\ ~ IsReturn(op)
  BY <1>2 DEF IsJump, IsBranch, IsReturn
<1>7. /\ IsContext(C[N]) /\ d \in Nat /\ size \in Nat /\ size = frame[Top].bytecode_size
      /\ frame[Top] \in KijiFrame /\ Len(frame) \in Nat
  BY <1>1, <1>2, Now
<1>8. PICK target, slot : target = FrameOperand(no) /\ slot = size + 4
  OBVIOUS
<1>9. target \in Int /\ slot \in Nat /\ slot # 0
  <2>1. no \in Int
    BY <1>1, <1>2, <1>3, KnownFits
  <2>2. no - 1 \in Int
    BY <2>1
  <2>3. PICK x : x = U16(no - 1)
    OBVIOUS
  <2>4. x \in 0..(Word - 1)
    BY <2>2, <2>3, U16Nat
  <2>5. target = x + 1
    BY <1>8, <2>3 DEF FrameOperand
  <2> QED
    BY <1>7, <1>8, <2>4, <2>5, WordAssumption
<1>10. PICK by, str, imm, extra : by = Act.id /\ str = NoName /\ imm = 2 /\ extra = 0
  OBVIOUS
<1>11. by \in Nat /\ str \in STRING /\ imm \in Nat /\ extra \in Int
  <2>1. by \in Nat /\ imm \in Nat /\ extra \in Int
    BY <1>1, <1>10, ActId
  <2>2. str \in STRING
    BY <1>10, NoNameString
  <2> QED
    BY <2>1, <2>2
<1>12. PICK rs : rs = Registers(args)
  OBVIOUS
<1>13. rs \in Seq(Int) /\ Len(rs) = 1
  <2>1. Len(args) = 1
    BY <1>2
  <2>2. TypesOf(C[N], args) \in Operands(op)
    BY <1>4, <1>5
  <2> QED
    BY <1>1, <1>4, <1>12, <2>1, <2>2, RegistersFit
<1>14. PICK in : in = Made(op, rs, slot, target, extra, str, by)
  OBVIOUS
<1>15. /\ in \in Instruction /\ in.at = size /\ in.op = op /\ in.args = rs /\ in.slot = slot
  BY <1>2, <1>5, <1>7, <1>9, <1>11, <1>13, <1>14 DEF Made, Instruction
<1>16. Fits(frame[Top], in)
  <2>1. TypesOf(C[N], args) \in Operands(op)
    BY <1>4, <1>5
  <2>2. \A i : i.args = rs /\ i.op = op => Fits(frame[Top], i)
    BY <1>1, <1>4, <1>12, <2>1, RegistersFit
  <2> QED
    BY <1>15, <2>2
<1>17. SetTop(Asm(frame[Top], in, imm)) /\ Resume(Tail(Act.todo), Assign(loc, "func_pos", slot), lab)
  <2>1. in = [Emitted(op, rs) EXCEPT !.slot = slot, !.target = target]
    BY <1>10, <1>14, EmittedJump, Zenon
  <2>2. size + 2 + 2 = slot
    BY <1>7, <1>8
  <2>3. SetTop(Asm(frame[Top], [Emitted("getcode", Registers(<<Op.dst>>)) EXCEPT
                                  !.slot = Size + 4, !.target = FrameOperand(no)], 2))
    BY <1>2, Zenon DEF GetCode
  <2>4. SetTop(Asm(frame[Top], in, imm))
    BY <1>2, <1>8, <1>10, <1>12, <2>1, <2>3, Zenon
  <2>5. Resume(Tail(Act.todo), Assign(loc, "func_pos", size + 2 + 2), lab)
    BY <1>2, Zenon DEF GetCode, ContinueSet
  <2> QED
    BY <2>2, <2>4, <2>5
<1>18. PICK s, T : s = Asm(frame[Top], in, imm) /\ T = After(B[N], d, s)
  <2>1. PICK s : s = Asm(frame[Top], in, imm)
    OBVIOUS
  <2>2. PICK T : T = After(B[N], d, s)
    OBVIOUS
  <2> QED
    BY <2>1, <2>2
<1>19. PICK ks, k, c : /\ ks = [v \in DOMAIN C[N].kinds |-> Past(C[N].kinds[v], d)]
                       /\ k = CodeOperand(d)
                       /\ c = Gets(Emits(C[N], op), "func_pos", CodeOperand(d))
  OBVIOUS
<1>20. /\ SamePlace(C[N], c) /\ c.code # "ended" /\ c.labels = C[N].labels
       /\ c.kinds = Assign(ks, "func_pos", k)
  <2>1. PICK e : e = Emits(C[N], op)
    OBVIOUS
  <2>2. /\ SamePlace(C[N], e) /\ e.code # "ended" /\ e.labels = C[N].labels /\ e.kinds = ks
    BY <1>2, <1>6, <1>7, <1>19, <2>1, EmitsContext
  <2>3. IsContext(e)
    BY <2>2 DEF SamePlace
  <2>4. /\ SamePlace(e, c) /\ c.code = e.code /\ c.labels = e.labels
        /\ c.kinds = Assign(e.kinds, "func_pos", k)
    BY <1>19, <2>1, <2>3, GetsContext
  <2> QED
    BY <2>2, <2>4 DEF SamePlace
<1>21. /\ Values(loc, ks, T, d, Len(frame)) /\ Labels(lab, C[N].labels, T, d)
  BY <1>1, <1>2, <1>11, <1>15, <1>18, <1>19, ValuesEmit
<1>22. FitsIn(slot, k, s, Len(frame)) /\ k.level = d /\ ~ IsMark(k)
  <2>1. in \in Instruction /\ imm \in Nat /\ frame[Top] \in KijiFrame /\ s = Asm(frame[Top], in, imm)
    BY <1>7, <1>11, <1>15, <1>18, Zenon
  <2>2. s \in KijiFrame /\ s.code[Len(s.code)] = in /\ Len(s.code) = Len(frame[Top].code) + 1
    BY <2>1, AsmFrame, ZenonT(30)
  <2>3. Len(s.code) \in DOMAIN s.code
    BY <1>7, <2>2, FrameFields
  <2>4. k.is = "operand" /\ k.level = d
    BY <1>19 DEF CodeOperand, Kind
  <2> QED
    BY <1>2, <1>9, <1>15, <2>2, <2>3, <2>4 DEF FitsIn, IsMark
<1>23. Values(Assign(loc, "func_pos", slot), c.kinds, T, d, Len(frame))
  <2>1. T[d] = s
    BY <1>7, <1>18 DEF After
  <2>2. k.level \in 0..d
    BY <1>7, <1>22
  <2>3. FitsIn(slot, k, T[k.level], Len(frame))
    BY <1>22, <2>1
  <2>4. Values(Assign(loc, "func_pos", slot), Assign(ks, "func_pos", k), T, d, Len(frame))
    BY <1>7, <1>21, <1>22, <2>2, <2>3, ValuesGets
  <2> QED
    BY <1>20, <2>4
<1>24. Within(in, size + 2 + 2 * Len(in.args) + imm)
  <2>1. imm = 2 /\ in.at = size /\ in.slot = size + 4 /\ size \in Nat
    BY <1>7, <1>8, <1>10, <1>15, Zenon
  <2>2. PICK n : n = Len(in.args)
    OBVIOUS
  <2>3. n = 1
    BY <1>13, <1>15, <2>2, Zenon
  <2> QED
    BY <2>1, <2>2, <2>3 DEF Within
<1>25. UnitOK'
  BY <1>1, <1>17, Now, TopUnit, UnitSame
<1>26. PICK t, lc : t = Tail(Act.todo) /\ lc = Assign(loc, "func_pos", slot)
  OBVIOUS
<1>27. <<t, c>> \in Typings[V[N]]
  <2>1. <<Tail(Act.todo), Gets(Emits(C[N], "getcode"), "func_pos", CodeOperand(C[N].depth))>>
          \in Onward(Act.todo, C[N])
    BY <1>1, Zenon DEF Onward, Op
  <2> QED
    BY <1>1, <1>2, <1>19, <1>26, <2>1, Discipline
<1>28. \A level \in Nat : Pending(lab, C[N].labels, level) \subseteq Pending(lab, c.labels, level)
  BY <1>20
<1>29. /\ Resume(t, lc, lab) /\ SetTop(Asm(frame[Top], in, imm))
       /\ Values(lc, c.kinds, After(B[N], C[N].depth, Asm(frame[Top], in, imm)), C[N].depth, Len(frame))
       /\ Labels(lab, c.labels, After(B[N], C[N].depth, Asm(frame[Top], in, imm)), C[N].depth)
       /\ in.at = Size /\ Within(in, Size + 2 + 2 * Len(in.args) + imm) /\ ~ IsJump(in.op)
  BY <1>2, <1>6, <1>15, <1>17, <1>18, <1>20, <1>21, <1>23, <1>24, <1>26
<1> QED
  BY <1>1, <1>11, <1>15, <1>16, <1>20, <1>25, <1>27, <1>28, <1>29, AppendStep
-----------------------------------------------------------------------------
(* Jumps.                                                                    *)

(* An address a label has, and one it has not yet, fit the operand.           *)
LEMMA LabelAddress ==
  ASSUME NEW C, NEW B, NEW V, IInv(C, B, V), status = "compiling", NEW l
  PROVE  Label(l).address \in Int
<1>1. Labels(lab, C[N].labels, Levels(B[N], C[N].depth), C[N].depth)
  BY Now
<1>2. CASE l \in DOMAIN lab
  <2>1. IsLabel(lab[l], C[N].labels[l], Levels(B[N], C[N].depth), C[N].depth)
    BY <1>1, <1>2, Zenon DEF Labels
  <2>2. lab[l] \in [address : Int, reserved : SUBSET Nat]
    BY <2>1, Zenon DEF IsLabel
  <2> QED
    BY <1>2, <2>2 DEF Label
<1>3. CASE l \notin DOMAIN lab
  BY <1>3 DEF Label, Unsolved
<1> QED
  BY <1>2, <1>3

(* A place code can jump to is not past its end.                              *)
LEMMA LandsBelow ==
  ASSUME NEW r, WellFormed(r), NEW x, Lands(r, x)
  PROVE  x <= r.bytecode_size
<1>1. r.bytecode_size \in Nat
  BY IsFrame, FrameFields
<1>2. \A i \in DOMAIN r.code : r.code[i].at < r.bytecode_size /\ r.code[i].at \in Nat
  <2>1. \A i \in DOMAIN r.code : Within(r.code[i], r.bytecode_size)
    BY Zenon DEF WellFormed, Ordered
  <2>2. \A i \in DOMAIN r.code : r.code[i] \in Instruction
    BY IsFrame, FrameFields
  <2> QED
    BY <2>1, <2>2, InstructionFields DEF Within
<1> QED
  BY <1>1, <1>2 DEF Lands, Starts

IsName(op) == op \in STRING

(* An instruction with the operand a label will patch, unless the label has   *)
(* its address: then it must be there already.                               *)
LEMMA JumpOpStep ==
  ASSUME NEW C, NEW B, NEW V, IInv(C, B, V), status = "compiling",
         NEW t, NEW op, IsName(op), NEW args, NEW slot, NEW target \in Int, NEW extra \in Int,
         NEW imm \in Nat, NEW l,
         AreRegisters(C[N], args), TypesOf(C[N], args) \in Operands(op), ~ IsReturn(op),
         slot \in Size + 2 .. Size + 2 + 2 * Len(args) + imm - 1,
         Resume(t, loc, Reserve(l, slot)),
         SetTop(Asm(frame[Top], Made(op, Registers(args), slot, target, extra, NoName, Act.id), imm)),
         frames' = frames, cu' = cu, calls' = calls, status' = status,
         <<t, Jumps(C[N], op, l)>> \in Typings[V[N]],
         IsFree(C[N], l) \/ IsPending(C[N], l) \/ IsPut(C[N], l),
         IsPut(C[N], l) /\ Label(l).address \in Nat /\ Label(l).address <= Size
           /\ (ForwardOnly \/ Size < Word) => target = Label(l).address
  PROVE  Inv'
<1>1. PICK size : size = Size
  OBVIOUS
<1>2. size \in Nat /\ size = frame[Top].bytecode_size /\ frame[Top] \in KijiFrame /\ WellFormed(frame[Top])
  BY <1>1, Now
<1>3. PICK rs : rs = Registers(args)
  OBVIOUS
<1>4. rs \in Seq(Int) /\ Len(rs) = Len(args) /\ Len(args) \in Nat
  BY <1>3, RegistersFit
<1>5. \A i : i.args = rs /\ i.op = op => Fits(frame[Top], i)
  BY <1>3, RegistersFit
<1>6. PICK by, str : by = Act.id /\ str = NoName
  OBVIOUS
<1>7. by \in Nat
  BY <1>6, ActId
<1>8. str \in STRING
  BY <1>6, NoNameString
<1>9. slot \in Nat /\ size + 2 <= slot /\ slot < size + 2 + 2 * Len(args) + imm
  <2>1. PICK n : n = Len(args)
    OBVIOUS
  <2>2. slot \in size + 2 .. size + 2 + 2 * n + imm - 1
    BY <1>1, <2>1, Zenon
  <2>3. size \in Nat /\ n \in Nat
    BY <1>2, <1>4, <2>1, Zenon
  <2>4. slot \in Nat /\ size + 2 <= slot /\ slot < size + 2 + 2 * n + imm
    BY <2>2, <2>3
  <2> QED
    BY <2>1, <2>4, Zenon
<1>10. PICK in : in = Made(op, rs, slot, target, extra, str, by)
  OBVIOUS
<1>11. /\ in \in Instruction /\ in.at = size /\ in.op = op /\ in.args = rs /\ in.slot = slot
       /\ in.target = target
  BY <1>1, <1>2, <1>4, <1>7, <1>8, <1>9, <1>10 DEF Made, Instruction, IsName
<1>12. Fits(frame[Top], in) /\ SetTop(Asm(frame[Top], in, imm))
  BY <1>3, <1>5, <1>6, <1>10, <1>11
<1>13. Within(in, size + 2 + 2 * Len(in.args) + imm)
  <2>1. PICK n : n = Len(in.args)
    OBVIOUS
  <2>2. n = Len(args)
    BY <1>4, <1>11, <2>1, Zenon
  <2>3. in.at = size /\ in.slot = slot
    BY <1>11, Zenon
  <2>4. n \in Nat /\ size \in Nat /\ imm \in Nat
    BY <1>2, <1>4, <2>2, Zenon
  <2>5. slot \in Nat /\ size + 2 <= slot /\ slot < size + 2 + 2 * n + imm
    BY <1>9, <2>2, Zenon
  <2>6. size < size + 2 + 2 * n + imm /\ size < slot
    BY <2>4, <2>5
  <2> QED
    BY <2>1, <2>3, <2>5, <2>6, Zenon DEF Within
<1>14. UnitOK'
  BY <1>12, Now, TopUnit, UnitSame
<1>15. Short(Asm(frame[Top], in, imm)) => ForwardOnly \/ size < Word
  <2>1. PICK after : after = Asm(frame[Top], in, imm).bytecode_size
    OBVIOUS
  <2>2. after = size + 2 + 2 * Len(in.args) + imm
    <3>1. in \in Instruction /\ frame[Top] \in KijiFrame /\ size = frame[Top].bytecode_size
      BY <1>2, <1>11
    <3> QED
      BY <2>1, <3>1, AsmFrame
  <2>3. size < after
    BY <1>2, <1>13, <2>2, <1>11 DEF Within
  <2>4. Short(Asm(frame[Top], in, imm)) <=> ForwardOnly \/ after <= Word
    BY <2>1 DEF Short
  <2>5. after \in Int
    BY <1>2, <1>4, <1>11, <2>2, SMTT(30)
  <2> QED
    BY <1>2, <2>3, <2>4, <2>5, WordAssumption
<1>16. Lands(frame[Top], Label(l).address) => Label(l).address <= size
  BY <1>2, LandsBelow
<1>17. IsPut(C[N], l) /\ Label(l).address \in Nat /\ Lands(frame[Top], Label(l).address)
         /\ Short(Asm(frame[Top], in, imm)) => in.target = Label(l).address
  BY <1>1, <1>11, <1>15, <1>16
<1>18. Resume(t, loc, Reserve(l, in.slot)) /\ <<t, Jumps(C[N], in.op, l)>> \in Typings[V[N]]
  BY <1>11
<1> QED
  BY <1>1, <1>11, <1>12, <1>13, <1>14, <1>17, <1>18, JumpStep

(* `goto': the address of a label, known or -1, is written as it is.          *)
LEMMA GotoStep ==
  ASSUME NEW C, NEW B, NEW V, IInv(C, B, V), Goto
  PROVE  Inv'
<1>1. /\ status = "compiling" /\ Op.op = "goto"
      /\ frames' = frames /\ cu' = cu /\ calls' = calls /\ status' = status
  BY DEF Goto, Does, Proceed
<1>2. PICK op, l, args, t, size, slot :
        op = "goto" /\ l = Op.label /\ args = <<>> /\ t = Tail(Act.todo) /\ size = Size /\ slot = size + 2
  OBVIOUS
<1>3. IsFree(C[N], l) \/ IsPending(C[N], l) \/ IsPut(C[N], l)
  BY <1>1, <1>2, Discipline, Zenon DEF Constrained
<1>4. AreRegisters(C[N], args) /\ TypesOf(C[N], args) = <<>> /\ Registers(args) = <<>>
  BY <1>2, NoRegister
<1>5. TypesOf(C[N], args) \in Operands(op) /\ IsName(op)
  BY <1>2, <1>4, TheirOperands, LiteralsAssumption, Zenon DEF IsName
<1>6. ~ IsReturn(op)
  BY <1>2 DEF IsReturn
<1>7. PICK target, extra, imm : target = Label(l).address /\ extra = 0 /\ imm = 4
  OBVIOUS
<1>8. target \in Int /\ extra \in Int /\ imm \in Nat
  BY <1>1, <1>7, LabelAddress
<1>9. size \in Nat
  BY <1>1, <1>2, Now
<1>10. Resume(t, loc, Reserve(l, slot))
  BY <1>2, Zenon DEF Goto
<1>11. SetTop(Asm(frame[Top], Made(op, Registers(args), slot, target, extra, NoName, Act.id), imm))
  <2>1. SetTop(Asm(frame[Top], [Emitted("goto", <<>>) EXCEPT
                                  !.slot = Size + 2, !.target = Label(Op.label).address], 4))
    BY Zenon DEF Goto
  <2>2. SetTop(Asm(frame[Top], [Emitted(op, Registers(args)) EXCEPT !.slot = slot, !.target = target], imm))
    BY <1>2, <1>4, <1>7, <2>1, Zenon
  <2> QED
    BY <1>7, <2>2, EmittedJump, Zenon
<1>12. <<t, Jumps(C[N], op, l)>> \in Typings[V[N]]
  <2>1. <<Tail(Act.todo), Jumps(C[N], "goto", Op.label)>> \in Onward(Act.todo, C[N])
    BY <1>1, Zenon DEF Onward, Op
  <2> QED
    BY <1>1, <1>2, <2>1, Discipline
<1>13. slot \in Size + 2 .. Size + 2 + 2 * Len(args) + imm - 1
  <2>1. Len(args) = 0
    BY <1>2
  <2>2. PICK n : n = Len(args)
    OBVIOUS
  <2>3. size = Size /\ slot = size + 2 /\ imm = 4
    BY <1>2, <1>7, Zenon
  <2> QED
    BY <1>9, <2>1, <2>2, <2>3
<1> QED
  BY <1>1, <1>3, <1>4, <1>5, <1>6, <1>7, <1>8, <1>10, <1>11, <1>12, <1>13, JumpOpStep

(* `if' and `unless': the address is narrowed to 16 bits, which only a label  *)
(* put before the branch can show.                                          *)
LEMMA BranchOfKnown ==
  ASSUME NEW C, NEW B, NEW V, IInv(C, B, V), Branch, IsRegisterOf(C[N], Op.on)
  PROVE  Inv'
<1>1. status = "compiling" /\ Op.op = "branch"
  BY DEF Branch, Does
<1>2. PICK op, l, reg, args, t, size, slot :
        /\ op = Op.name /\ l = Op.label /\ reg = Op.on /\ args = <<reg>> /\ t = Tail(Act.todo)
        /\ size = Size /\ slot = size + 2 + 2
  OBVIOUS
<1>3. /\ IsBranch(op) /\ IsRegisterOf(C[N], reg)
      /\ IsFree(C[N], l) \/ IsPending(C[N], l) \/ IsPut(C[N], l)
  BY <1>1, <1>2, Discipline, Zenon DEF Constrained
<1>4. IsRegister(loc[reg]) /\ C[N].kinds[reg].type \in RegTypes
  BY <1>1, <1>3, RegisterFits
<1>5. AreRegisters(C[N], args) /\ TypesOf(C[N], args) = <<C[N].kinds[reg].type>>
  BY <1>2, <1>3, OneRegister
<1>6. TypesOf(C[N], args) \in Operands(op) /\ IsName(op)
  <2>1. op \in {"if", "unless"}
    BY <1>3 DEF IsBranch
  <2>2. Operands(op) = {<<type>> : type \in RegTypes}
    BY <2>1, TheirOperands, Zenon
  <2>3. IsName(op)
    BY <2>1, LiteralsAssumption, Zenon DEF IsName
  <2> QED
    BY <1>4, <1>5, <2>2, <2>3, Zenon
<1>7. ~ IsReturn(op)
  BY <1>3 DEF IsReturn, IsBranch
<1>8. PICK target, extra, imm : target = U16(Label(l).address) /\ extra = 0 /\ imm = 4
  OBVIOUS
<1>9. target \in Int /\ extra \in Int /\ imm \in Nat
  <2>1. Label(l).address \in Int
    BY <1>1, LabelAddress
  <2>2. target \in 0..(Word - 1)
    BY <1>8, <2>1, U16Nat
  <2> QED
    BY <1>8, <2>2, WordAssumption
<1>10. /\ SetTop(Asm(frame[Top], [Emitted(Op.name, Registers(<<Op.on>>)) EXCEPT
                                    !.slot = Size + 2 + 2, !.target = U16(Label(Op.label).address)], 4))
       /\ Resume(Tail(Act.todo), loc, Reserve(Op.label, Size + 2 + 2))
       /\ frames' = frames /\ cu' = cu /\ calls' = calls /\ status' = status
  BY <1>2, <1>4, Zenon DEF Branch, Proceed
<1>11. Resume(t, loc, Reserve(l, slot))
  BY <1>2, <1>10, Zenon
<1>12. SetTop(Asm(frame[Top], Made(op, Registers(args), slot, target, extra, NoName, Act.id), imm))
  <2>1. SetTop(Asm(frame[Top], [Emitted(op, Registers(args)) EXCEPT !.slot = slot, !.target = target], imm))
    BY <1>2, <1>8, <1>10, Zenon
  <2> QED
    BY <1>8, <2>1, EmittedJump, Zenon
<1>13. <<t, Jumps(C[N], op, l)>> \in Typings[V[N]]
  <2>1. <<Tail(Act.todo), Jumps(C[N], Op.name, Op.label)>> \in Onward(Act.todo, C[N])
    BY <1>1, Zenon DEF Onward, Op
  <2> QED
    BY <1>1, <1>2, <2>1, Discipline
<1>14. slot \in Size + 2 .. Size + 2 + 2 * Len(args) + imm - 1
  <2>1. Len(args) = 1
    BY <1>2
  <2>2. PICK n : n = Len(args)
    OBVIOUS
  <2>3. size = Size /\ slot = size + 2 + 2 /\ imm = 4
    BY <1>2, <1>8, Zenon
  <2>4. size \in Nat
    BY <1>1, <1>2, Now
  <2> QED
    BY <2>1, <2>2, <2>3, <2>4
<1>15. IsPut(C[N], l) /\ Label(l).address \in Nat /\ Label(l).address <= Size
         /\ (ForwardOnly \/ Size < Word) => target = Label(l).address
  <2> SUFFICES ASSUME IsPut(C[N], l), Label(l).address \in Nat, Label(l).address <= Size,
                      ForwardOnly \/ Size < Word
               PROVE  target = Label(l).address
    OBVIOUS
  <2>1. ~ ForwardOnly
    <3>1. <<Act.todo, C[N]>> \in Typings[V[N]] /\ V[N] \in DOMAIN Typings
      BY <1>1, Discipline
    <3>2. Act.todo[1].op = "branch" /\ Act.todo[1].label = l
      BY <1>1, <1>2 DEF Op
    <3> QED
      BY <3>1, <3>2 DEF ForwardOnly
  <2>2. PICK a : a = Label(l).address
    OBVIOUS
  <2>3. size \in Nat /\ size < Word /\ a \in Nat /\ a <= size
    BY <1>1, <1>2, <2>1, <2>2, Now, Zenon
  <2>4. a \in 0..(Word - 1)
    BY <2>3, WordAssumption
  <2> QED
    BY <1>8, <2>2, <2>4, U16Small
<1> QED
  BY <1>1, <1>3, <1>5, <1>6, <1>7, <1>9, <1>10, <1>11, <1>12, <1>13, <1>14, <1>15, JumpOpStep

LEMMA BranchStep ==
  ASSUME NEW C, NEW B, NEW V, IInv(C, B, V), Branch
  PROVE  Inv'
<1>1. status = "compiling" /\ Op.op = "branch"
  BY DEF Branch, Does
<1>2. Known(C[N], Op.on) /\ IsFreeVariable(Op.on)
  BY <1>1, Discipline, Zenon DEF Constrained
<1>3. CASE IsRegisterOf(C[N], Op.on)
  BY <1>3, BranchOfKnown
<1>4. CASE ~ IsRegister(loc[Op.on])
  BY <1>4, StopStep DEF Branch
<1>5. CASE ~ IsRegisterOf(C[N], Op.on) /\ IsRegister(loc[Op.on])
  <2>1. TypeOf(loc[Op.on]) \in RegTypes
    BY <1>1, <1>2, <1>5, LocalType
  <2>2. Onward(Act.todo, C[N]) = Checked(Act.todo, C[N], RegTypes)
    BY <1>1, <1>5, Zenon DEF Onward, Op
  <2>3. <<Act.todo, Gets(C[N], Op.on, Register(TypeOf(loc[Op.on]), C[N].depth))>>
           \in Onward(Act.todo, C[N])
    BY <2>1, <2>2, Zenon DEF Checked, Op
  <2>4. PICK D : IInv(D, B, V) /\ IsRegisterOf(D[N], Op.on)
    BY <1>1, <1>2, <1>5, <2>3, Discipline, Refined
  <2> QED
    BY <2>4, BranchOfKnown
<1> QED
  BY <1>3, <1>4, <1>5

(* The jump over the default of an optional parameter.                        *)
LEMMA ParamOptionalStep ==
  ASSUME NEW C, NEW B, NEW V, IInv(C, B, V), ParamOptional
  PROVE  Inv'
<1>1. /\ status = "compiling" /\ Op.op = "paramop"
      /\ frames' = frames /\ cu' = cu /\ calls' = calls /\ status' = status
  BY DEF ParamOptional, Does, Proceed
<1>2. PICK op, l, reg, args, t, size, slot :
        /\ op = "param_op_o" /\ l = Op.label /\ reg = Op.on /\ args = <<reg>> /\ t = Tail(Act.todo)
        /\ size = Size /\ slot = size + 1 + 1 + 2 + 2
  OBVIOUS
<1>3. Holds(C[N], reg, "obj") /\ Op.index \in Int /\ (IsFree(C[N], l) \/ IsPending(C[N], l))
  BY <1>1, <1>2, Discipline, Zenon DEF Constrained
<1>4. AreRegisters(C[N], args) /\ TypesOf(C[N], args) = <<"obj">>
  <2>1. IsRegisterOf(C[N], reg) /\ C[N].kinds[reg].type = "obj"
    BY <1>3, HeldRegister
  <2> QED
    BY <1>2, <2>1, OneRegister
<1>5. TypesOf(C[N], args) \in Operands(op) /\ IsName(op)
  BY <1>2, <1>4, TheirOperands, LiteralsAssumption, Zenon DEF IsName
<1>6. ~ IsReturn(op)
  BY <1>2 DEF IsReturn
<1>7. PICK target, extra, imm : target = 0 /\ extra = Op.index /\ imm = 6
  OBVIOUS
<1>8. target \in Int /\ extra \in Int /\ imm \in Nat
  BY <1>3, <1>7
<1>9. Resume(t, loc, Reserve(l, slot))
  BY <1>2, Zenon DEF ParamOptional
<1>10. SetTop(Asm(frame[Top], Made(op, Registers(args), slot, target, extra, NoName, Act.id), imm))
  <2>1. SetTop(Asm(frame[Top], [Emitted("param_op_o", Registers(<<Op.on>>)) EXCEPT
                                  !.slot = Size + 1 + 1 + 2 + 2, !.extra = Op.index], 6))
    BY Zenon DEF ParamOptional
  <2>2. SetTop(Asm(frame[Top], [Emitted(op, Registers(args)) EXCEPT !.slot = slot, !.extra = extra], imm))
    BY <1>2, <1>7, <2>1, Zenon
  <2> QED
    BY <1>7, <2>2, EmittedParam, Zenon
<1>11. <<t, Jumps(C[N], op, l)>> \in Typings[V[N]]
  <2>1. <<Tail(Act.todo), Jumps(C[N], "param_op_o", Op.label)>> \in Onward(Act.todo, C[N])
    BY <1>1, Zenon DEF Onward, Op
  <2> QED
    BY <1>1, <1>2, <2>1, Discipline
<1>12. slot \in Size + 2 .. Size + 2 + 2 * Len(args) + imm - 1
  <2>1. Len(args) = 1
    BY <1>2
  <2>2. PICK n : n = Len(args)
    OBVIOUS
  <2>3. size = Size /\ slot = size + 1 + 1 + 2 + 2 /\ imm = 6
    BY <1>2, <1>7, Zenon
  <2>4. size \in Nat
    BY <1>1, <1>2, Now
  <2> QED
    BY <2>1, <2>2, <2>3, <2>4
<1>13. ~ IsPut(C[N], l)
  BY <1>3 DEF IsFree, IsPending, IsPut, Target
<1> QED
  BY <1>1, <1>3, <1>4, <1>5, <1>6, <1>8, <1>9, <1>10, <1>11, <1>12, <1>13, JumpOpStep

-----------------------------------------------------------------------------
(* The steps that change the handlers in progress or the stack of frames.     *)

LEMMA StartValues ==
  ASSUME NEW S, NEW n
  PROVE  /\ Values([UNKNOWN_REG |-> UNKNOWN_REG, zero |-> 0], [UNKNOWN_REG |-> Unknown, zero |-> Integer],
                   S, 0, n)
         /\ Labels(<<>>, <<>>, S, 0)
<1>1. Values([UNKNOWN_REG |-> UNKNOWN_REG, zero |-> 0], [UNKNOWN_REG |-> Unknown, zero |-> Integer],
             S, 0, n)
  BY DEF Values, FitsIn, IsMark, Unknown, Integer, Kind, UNKNOWN_REG
<1>2. Labels(<<>>, <<>>, S, 0)
  BY DEF Labels
<1> QED
  BY <1>1, <1>2

Put(s, i, e) == [s EXCEPT ![i] = e]

LEMMA Replaced ==
  ASSUME NEW s, IsSeq(s), NEW i \in DOMAIN s, NEW e
  PROVE  /\ IsSeq(Put(s, i, e)) /\ Len(Put(s, i, e)) = Len(s)
         /\ DOMAIN Put(s, i, e) = DOMAIN s /\ Put(s, i, e)[i] = e
         /\ \A j \in DOMAIN s : j # i => Put(s, i, e)[j] = s[j]
BY ExceptIsSeq DEF Put

LEMMA NewActivation ==
  ASSUME NEW script, NEW dst, NEW id \in Nat
  PROVE  LET a == Activation(script, dst, id) IN
         /\ IsAct(a) /\ a.todo = script /\ a.dst = dst /\ a.id = id /\ a.lab = <<>>
         /\ a.loc = [UNKNOWN_REG |-> UNKNOWN_REG, zero |-> 0]
BY DEF Activation, IsAct

(* The handler of a child begins: its caller waits for the value.             *)
LEMMA ChildStep ==
  ASSUME NEW C, NEW B, NEW V, IInv(C, B, V), Child
  PROVE  Inv'
<1>1. /\ status = "compiling" /\ Op.op = "child"
      /\ acts' = Append([acts EXCEPT ![N].todo = Tail(@)],
                        Activation(Script(Op.node), Op.dst, calls + 1))
      /\ calls' = calls + 1 /\ frame' = frame /\ frames' = frames /\ cu' = cu /\ status' = status
  BY DEF Child, Does, N
<1>2. /\ Stacked(C, B) /\ Judged(C, V) /\ Active(C, B) /\ Filled(C, B) /\ UnitOK /\ StatusOK
      /\ acts # <<>>
  BY <1>1 DEF IInv, StatusOK
<1>3. PICK n, d, c, node, dst, ret, t :
        /\ n = N /\ d = C[n].depth /\ c = Waits(C[n]) /\ node = Op.node /\ dst = Op.dst
        /\ ret = Results(node) /\ t = Tail(Act.todo)
  OBVIOUS
<1>4. /\ n \in Nat /\ n >= 1 /\ DOMAIN acts = 1..n /\ n \in DOMAIN acts
      /\ Act = acts[n] /\ IsAct(acts[n]) /\ loc = acts[n].loc /\ lab = acts[n].lab
      /\ IsContext(C[n]) /\ d \in Nat /\ B[n] \in Nat /\ B[n] > 0
      /\ Len(frames) \in Nat /\ DOMAIN frames = 1..Len(frames)
      /\ Len(frames) = B[n] + d
  BY <1>2, <1>3, Running
<1>5. Top = frames[B[n] + d]
  BY <1>2, <1>3, Running
<1>6. \A i \in 1..n : /\ C[i].depth \in Nat /\ B[i] \in Nat /\ B[i] > 0
                      /\ B[i] + C[i].depth <= Len(frames)
                      /\ i # n => B[i] + C[i].depth <= B[n]
  BY <1>2, <1>3, <1>4, Running
<1>7. /\ C[n].code # "none" /\ IsFreeVariable(dst) /\ \A k \in ret : Givable(k)
  BY <1>1, <1>3, Discipline, Zenon DEF Constrained
<1>8. /\ V[n] \in DOMAIN Typings /\ node \in DOMAIN Typings
      /\ <<Script(node), Start(ret)>> \in Typings[node]
      /\ \A k \in ret : <<t, Gets(c, dst, Given(C[n], k))>> \in Typings[V[n]]
  <2>1. TypesNode(Typings, node) /\ V[n] \in DOMAIN Typings
    BY <1>1, <1>3, Discipline
  <2>2. \A s \in Onward(Act.todo, C[n]) : s \in Typings[V[n]]
    BY <1>1, <1>3, Discipline
  <2>3. Onward(Act.todo, C[n]) = {<<Tail(Act.todo), Gets(Waits(C[n]), Op.dst, Given(C[n], k))>> : k \in Results(Op.node)}
    BY <1>1, Zenon DEF Onward, Op
  <2>4. \A k \in ret : <<t, Gets(c, dst, Given(C[n], k))>> \in Onward(Act.todo, C[n])
    BY <1>3, <2>3, Zenon
  <2> QED
    BY <1>3, <2>1, <2>2, <2>4 DEF TypesNode
<1>9. /\ SamePlace(C[n], c) /\ IsContext(c) /\ c.depth = d /\ c.code = GoesOn(C[n].code) /\ c.labels = C[n].labels
      /\ c.kinds = [v \in DOMAIN C[n].kinds |-> Later(C[n].kinds[v], d)] /\ c.of = C[n].of /\ c.ret = C[n].ret
  BY <1>3, <1>4, WaitsContext DEF SamePlace
<1>10. PICK a, b : a = Activation(Script(node), dst, calls + 1) /\ b = [acts[n] EXCEPT !.todo = t]
  OBVIOUS
<1>11. calls \in Nat
  BY <1>2 DEF StatusOK
<1>12. /\ IsAct(a) /\ a.todo = Script(node) /\ a.dst = dst /\ a.id = calls + 1 /\ a.lab = <<>>
       /\ a.loc = [UNKNOWN_REG |-> UNKNOWN_REG, zero |-> 0]
  BY <1>10, <1>11, NewActivation
<1>13. IsAct(b) /\ b.todo = t /\ b.loc = loc /\ b.lab = lab /\ b.dst = acts[n].dst /\ b.id = acts[n].id
  BY <1>4, <1>10 DEF IsAct
<1>14. /\ IsSeq(acts') /\ N' = n + 1 /\ DOMAIN acts' = 1..(n + 1) /\ acts'[n + 1] = a /\ acts'[n] = b
       /\ \A i \in 1..n : i # n => acts'[i] = acts[i]
  <2>1. PICK waiting : waiting = Put(acts, n, b)
    OBVIOUS
  <2>2. acts' = Append(waiting, a)
    BY <1>1, <1>3, <1>4, <1>10, <2>1 DEF Put
  <2>3. IsSeq(acts) /\ Len(acts) = n /\ DOMAIN acts = 1..n /\ n \in DOMAIN acts
    BY <1>2, <1>3, <1>4, Zenon DEF Stacked, N
  <2>4. /\ IsSeq(waiting) /\ Len(waiting) = n /\ DOMAIN waiting = 1..n /\ waiting[n] = b
        /\ \A i \in 1..n : i # n => waiting[i] = acts[i]
    <3>1. IsSeq(acts) /\ n \in DOMAIN acts
      BY <2>3
    <3>2. /\ IsSeq(waiting) /\ Len(waiting) = Len(acts) /\ DOMAIN waiting = DOMAIN acts
          /\ waiting[n] = b /\ \A i \in DOMAIN acts : i # n => waiting[i] = acts[i]
      BY <2>1, <3>1, Replaced
    <3> QED
      BY <2>3, <3>2, Zenon
  <2>5. PICK m : m = Len(waiting)
    OBVIOUS
  <2>6. /\ IsSeq(acts') /\ Len(acts') = m + 1 /\ DOMAIN acts' = 1..(m + 1) /\ acts'[m + 1] = a
        /\ \A i \in 1..m : acts'[i] = waiting[i]
    BY <2>2, <2>4, <2>5, AppendSeq
  <2> QED
    BY <1>4, <2>4, <2>5, <2>6 DEF N
<1>15. PICK D : D = [i \in 1..(n + 1) |-> IF i = n + 1 THEN Start(ret) ELSE IF i = n THEN c ELSE C[i]]
  OBVIOUS
<1>16. PICK E : E = [i \in 1..(n + 1) |-> IF i = n + 1 THEN B[n] + d ELSE B[i]]
  OBVIOUS
<1>17. PICK W : W = [i \in 1..(n + 1) |-> IF i = n + 1 THEN node ELSE V[i]]
  OBVIOUS
<1>18. /\ DOMAIN D = 1..(n + 1) /\ D[n + 1] = Start(ret) /\ D[n] = c
       /\ \A i \in 1..n : i # n => D[i] = C[i]
       /\ \A i \in 1..n : D[i].depth = C[i].depth /\ D[i].labels = C[i].labels /\ D[i].ret = C[i].ret
                          /\ D[i].of = C[i].of
  BY <1>3, <1>4, <1>9, <1>15
<1>19. /\ DOMAIN E = 1..(n + 1) /\ E[n + 1] = B[n] + d /\ \A i \in 1..n : E[i] = B[i]
  BY <1>4, <1>16
<1>20. W[n + 1] = node /\ \A i \in 1..n : W[i] = V[i]
  BY <1>4, <1>17
<1>21. /\ IsContext(Start(ret)) /\ Start(ret).of = "node" /\ Start(ret).depth = 0
       /\ Start(ret).code = "some" /\ Start(ret).ret = ret /\ Start(ret).labels = <<>>
       /\ Start(ret).kinds = [UNKNOWN_REG |-> Unknown, zero |-> Integer]
  BY StartContext
<1>22. Stacked(D, E)'
  <2>1. /\ frames' \in Seq(Nat) /\ Len(frames') >= 1 /\ frames'[1] = 1
        /\ \A i \in DOMAIN frames' : frames'[i] \in DOMAIN frame'
        /\ \A i, j \in DOMAIN frames' : i < j => frames'[i] < frames'[j]
    BY <1>1, <1>2 DEF Stacked
  <2>2. acts' # <<>> /\ E[1] = 1 /\ Len(frames') = E[N'] + D[N'].depth
    BY <1>1, <1>2, <1>4, <1>14, <1>18, <1>19, <1>21, SMTT(30) DEF Stacked
  <2>3. \A i \in 1..n : /\ IsAct(acts[i]) /\ IsContext(C[i]) /\ B[i] \in Nat \ {0}
                        /\ C[i].of = "program" <=> i = 1
                        /\ acts[i].id <= calls /\ acts[i].id \in Nat
    <3>1. \A i \in DOMAIN acts : /\ IsAct(acts[i]) /\ IsContext(C[i]) /\ B[i] \in Nat \ {0}
                                 /\ C[i].of = "program" <=> i = 1
                                 /\ acts[i].id <= calls
      BY <1>2, Zenon DEF Stacked
    <3> QED
      BY <1>1, <1>4, <3>1, ActId
  <2>4. \A i \in DOMAIN acts' : /\ IsAct(acts'[i]) /\ IsContext(D[i]) /\ E[i] \in Nat \ {0}
                                /\ D[i].of = "program" <=> i = 1
                                /\ acts'[i].id <= calls'
    <3> SUFFICES ASSUME NEW i \in 1..(n + 1)
                 PROVE  /\ IsAct(acts'[i]) /\ IsContext(D[i]) /\ E[i] \in Nat \ {0}
                        /\ D[i].of = "program" <=> i = 1
                        /\ acts'[i].id <= calls'
      BY <1>14
    <3>1. CASE i = n + 1
      BY <1>1, <1>4, <1>11, <1>12, <1>14, <1>18, <1>19, <1>21, <3>1
    <3>2. CASE i \in 1..n
      <4>1. acts'[i].id = acts[i].id /\ IsAct(acts'[i])
        BY <1>13, <1>14, <2>3, <3>2
      <4>2. acts[i].id <= calls + 1
        BY <1>11, <2>3, <3>2
      <4>3. D[i].of = C[i].of /\ E[i] = B[i]
        BY <1>18, <1>19, <3>2
      <4>4. IsContext(D[i])
        BY <1>9, <1>18, <2>3, <3>2
      <4>5. acts'[i].id <= calls'
        BY <1>1, <4>1, <4>2
      <4>6. E[i] \in Nat \ {0} /\ (D[i].of = "program" <=> i = 1)
        BY <2>3, <3>2, <4>3, Zenon
      <4> QED
        BY <4>1, <4>4, <4>5, <4>6
    <3> QED
      BY <1>4, <3>1, <3>2
  <2>5. \A i, j \in DOMAIN acts' : i < j => E[i] + D[i].depth <= E[j]
    <3>1. \A i, j \in 1..n : i < j => B[i] + C[i].depth <= B[j]
      BY <1>2, <1>4, Zenon DEF Stacked
    <3>2. \A i \in 1..n : E[i] + D[i].depth <= E[n + 1]
      BY <1>3, <1>4, <1>6, <1>18, <1>19
    <3> QED
      BY <1>4, <1>14, <1>18, <1>19, <3>1, <3>2
  <2>6. \A i, j \in DOMAIN acts' : j = i + 1 => E[j] = E[i] + D[i].depth
    <3>1. \A i, j \in 1..n : j = i + 1 => B[j] = B[i] + C[i].depth
      BY <1>2, <1>4, Zenon DEF Stacked
    <3>2. ASSUME NEW i \in 1..(n + 1), NEW j \in 1..(n + 1), j = i + 1
          PROVE  E[j] = E[i] + D[i].depth
      <4>1. i \in 1..n
        BY <1>4, <3>2
      <4>2. CASE j \in 1..n
        <5>1. E[i] = B[i] /\ E[j] = B[j] /\ D[i].depth = C[i].depth
          BY <1>18, <1>19, <4>1, <4>2
        <5> QED
          BY <3>1, <3>2, <4>1, <4>2, <5>1, Zenon
      <4>3. CASE i = n /\ j = n + 1
        BY <1>3, <1>4, <1>18, <1>19, <4>1, <4>3
      <4> QED
        BY <1>4, <3>2, <4>2, <4>3
    <3> QED
      BY <1>4, <1>14, <3>2
  <2> QED
    BY <1>14, <1>18, <1>19, <2>1, <2>2, <2>4, <2>5, <2>6, Zenon DEF Stacked
<1>23. Values(loc, c.kinds, Levels(B[n], d), d, Len(frame)) /\ NoneHere(c.kinds, d)
  <2>1. Values(loc, C[n].kinds, Levels(B[n], d), d, Len(frame)) /\ Len(frame) \in Nat
    BY <1>1, <1>3, Now
  <2> QED
    BY <1>4, <1>9, <2>1, ValuesWait
<1>24. Judged(D, W)'
  <2>1. \A i \in 1..n : V[i] \in DOMAIN Typings
    BY <1>2, <1>4, Zenon DEF Judged
  <2>2. \A i, j \in 1..n : j = i + 1 =>
          /\ IsFreeVariable(acts[j].dst) /\ NoneHere(C[i].kinds, C[i].depth) /\ C[i].code # "ended"
          /\ \A k \in C[j].ret :
               /\ Givable(k)
               /\ <<acts[i].todo, Gets(C[i], acts[j].dst, Given(C[i], k))>> \in Typings[V[i]]
    BY <1>2, <1>4, Zenon DEF Judged
  <2>3. \A i \in DOMAIN acts' : W[i] \in DOMAIN Typings
    BY <1>4, <1>8, <1>14, <1>20, <2>1
  <2>4. <<Act'.todo, D[N']>> \in Typings[W[N']]
    BY <1>8, <1>12, <1>14, <1>18, <1>20 DEF Act, N
  <2>5. \A i, j \in DOMAIN acts' : j = i + 1 =>
          /\ IsFreeVariable(acts'[j].dst) /\ NoneHere(D[i].kinds, D[i].depth) /\ D[i].code # "ended"
          /\ \A k \in D[j].ret :
               /\ Givable(k)
               /\ <<acts'[i].todo, Gets(D[i], acts'[j].dst, Given(D[i], k))>> \in Typings[W[i]]
    <3> SUFFICES ASSUME NEW i \in 1..(n + 1), NEW j \in 1..(n + 1), j = i + 1
                 PROVE  /\ IsFreeVariable(acts'[j].dst) /\ NoneHere(D[i].kinds, D[i].depth)
                        /\ D[i].code # "ended"
                        /\ \A k \in D[j].ret :
                             /\ Givable(k)
                             /\ <<acts'[i].todo, Gets(D[i], acts'[j].dst, Given(D[i], k))>>
                                  \in Typings[W[i]]
      BY <1>14
    <3>1. CASE i = n
      <4>1. j = n + 1
        BY <3>1
      <4>2. acts'[j].dst = dst /\ D[j].ret = ret
        BY <1>12, <1>14, <1>18, <1>21, <4>1
      <4>3. acts'[i].todo = t /\ D[i] = c /\ W[i] = V[n] /\ c.depth = d
        BY <1>4, <1>9, <1>13, <1>14, <1>18, <1>20, <3>1
      <4>4. c.code # "ended"
        BY <1>9 DEF GoesOn
      <4>5. \A k : Given(c, k) = Given(C[n], k)
        BY <1>3, <1>9 DEF Given
      <4> QED
        BY <1>7, <1>8, <1>23, <4>2, <4>3, <4>4, <4>5
    <3>2. CASE i # n
      <4>1. i \in 1..n /\ j \in 1..n
        BY <1>4, <3>2
      <4>2. acts'[i] = acts[i] /\ D[i] = C[i] /\ W[i] = V[i]
        BY <1>14, <1>18, <1>20, <3>2, <4>1
      <4>3. acts'[j].dst = acts[j].dst /\ D[j].ret = C[j].ret
        BY <1>13, <1>14, <1>18, <4>1
      <4> QED
        BY <2>2, <4>1, <4>2, <4>3
    <3> QED
      BY <3>1, <3>2
  <2> QED
    BY <2>3, <2>4, <2>5, Zenon DEF Judged
<1>25. Active(D, E)'
  <2>1. \A i \in 1..n :
          /\ Values(acts[i].loc, C[i].kinds, Levels(B[i], C[i].depth), C[i].depth, Len(frame))
          /\ Labels(acts[i].lab, C[i].labels, Levels(B[i], C[i].depth), C[i].depth)
    BY <1>2, <1>4, Zenon DEF Active
  <2>2. \A x, y : Levels(x, y)' = Levels(x, y)
    BY <1>1 DEF Levels
  <2>3. ASSUME NEW i \in 1..(n + 1)
        PROVE  /\ Values(acts'[i].loc, D[i].kinds, Levels(E[i], D[i].depth)', D[i].depth, Len(frame'))
               /\ Labels(acts'[i].lab, D[i].labels, Levels(E[i], D[i].depth)', D[i].depth)
    <3>1. CASE i = n + 1
      BY <1>12, <1>14, <1>18, <1>21, <3>1, StartValues
    <3>2. CASE i = n
      <4>1. acts'[i].loc = loc /\ acts'[i].lab = lab /\ D[i] = c /\ E[i] = B[n]
        BY <1>4, <1>13, <1>14, <1>18, <1>19, <3>2
      <4>2. Labels(lab, c.labels, Levels(B[n], d), d)
        BY <1>3, <1>4, <1>9, <2>1
      <4>3. c.depth = d /\ Levels(E[i], D[i].depth)' = Levels(B[n], d) /\ Len(frame') = Len(frame)
        BY <1>1, <1>9, <2>2, <4>1
      <4> QED
        BY <1>23, <4>1, <4>2, <4>3
    <3>3. CASE i # n /\ i # n + 1
      <4>1. i \in 1..n
        BY <1>4, <3>3
      <4>2. acts'[i] = acts[i] /\ D[i] = C[i] /\ E[i] = B[i]
        BY <1>14, <1>18, <1>19, <3>3, <4>1
      <4> QED
        BY <1>1, <2>1, <2>2, <4>1, <4>2
    <3> QED
      BY <3>1, <3>2, <3>3
  <2> QED
    BY <1>14, <2>3, Zenon DEF Active
<1>26. \A f : Owed(C, B, f) \subseteq Owed(D, E, f)'
  <2> SUFFICES ASSUME NEW f, NEW s \in Owed(C, B, f)
               PROVE  s \in Owed(D, E, f)'
    OBVIOUS
  <2>1. s \in Nat /\ \E i \in DOMAIN acts : \E l \in 0..C[i].depth :
          frames[B[i] + l] = f /\ s \in Pending(acts[i].lab, C[i].labels, l)
    BY DEF Owed
  <2>2. PICK i \in 1..n : \E l \in 0..C[i].depth :
          frames[B[i] + l] = f /\ s \in Pending(acts[i].lab, C[i].labels, l)
    BY <1>4, <2>1
  <2>3. PICK l \in 0..C[i].depth : frames[B[i] + l] = f /\ s \in Pending(acts[i].lab, C[i].labels, l)
    BY <2>2
  <2>4. acts'[i].lab = acts[i].lab /\ i \in DOMAIN acts'
    BY <1>4, <1>13, <1>14, SMTT(30)
  <2>5. l \in 0..D[i].depth /\ frames'[E[i] + l] = f /\ s \in Pending(acts'[i].lab, D[i].labels, l)
    BY <1>1, <1>18, <1>19, <2>3, <2>4
  <2> QED
    BY <2>1, <2>4, <2>5 DEF Owed
<1>27. Filled(D, E)'
  <2>1. /\ \A f \in DOMAIN frame : /\ WellFormed(frame[f]) /\ frame[f].outer \in 0..(f - 1)
                                   /\ Settled(frame[f], Owed(C, B, f))
                                   /\ ~ OnStack(f) => Complete(frame[f], {})
        /\ \A i \in DOMAIN frames : i < Len(frames) => frame[frames[i]].bytecode_size > 0
        /\ \A i \in DOMAIN acts : i > 1 => frame[frames[B[i]]].bytecode_size > 0
        /\ C[n].code # "none" => frame[Top].bytecode_size > 0
        /\ IsSeq(frame)
    BY <1>2, <1>3, Zenon DEF Filled
  <2>2. \A f \in DOMAIN frame' : /\ WellFormed(frame'[f]) /\ frame'[f].outer \in 0..(f - 1)
                                 /\ Settled(frame'[f], Owed(D, E, f)')
                                 /\ ~ OnStack(f)' => Complete(frame'[f], {})
    BY <1>1, <1>26, <2>1, MoreOwed DEF OnStack
  <2>3. \A i \in DOMAIN frames' : i < Len(frames') => frame'[frames'[i]].bytecode_size > 0
    BY <1>1, <2>1
  <2>4. \A i \in DOMAIN acts' : i > 1 => frame'[frames'[E[i]]].bytecode_size > 0
    BY <1>1, <1>4, <1>5, <1>7, <1>14, <1>19, <2>1, SMTT(30)
  <2>5. acts' # <<>> /\ D[N'].code = "some" /\ frame'[Top'].bytecode_size > 0
    BY <1>1, <1>4, <1>7, <1>14, <1>18, <1>21, <2>1 DEF Top
  <2> QED
    BY <1>1, <2>1, <2>2, <2>3, <2>4, <2>5, Zenon DEF Filled
<1>28. UnitOK' /\ StatusOK'
  <2>1. UnitOK'
    BY <1>1, <1>2, UnitSame
  <2>2. acts' # <<>>
    BY <1>4, <1>14
  <2> QED
    BY <1>1, <1>2, <1>11, <2>1, <2>2 DEF StatusOK
<1> QED
  BY <1>22, <1>24, <1>25, <1>27, <1>28, Zenon DEF IInv, Inv

LEMMA NothingPending ==
  ASSUME NEW c, NEW lb, NonePending(c)
  PROVE  Pending(lb, c.labels, c.depth) = {}
BY DEF NonePending, Pending

(* The program's own handler returns: nothing is left to do, and the one      *)
(* frame on the stack is complete.                                          *)
LEMMA LastReturn ==
  ASSUME NEW C, NEW B, NEW V, IInv(C, B, V), Return, N = 1
  PROVE  Inv'
<1>1. /\ status = "compiling" /\ Op.op = "return" /\ acts' = <<>> /\ status' = "done"
      /\ frame' = frame /\ frames' = frames /\ cu' = cu /\ calls' = calls
  BY DEF Return, Does, N
<1>2. /\ Stacked(C, B) /\ Judged(C, V) /\ Active(C, B) /\ Filled(C, B) /\ UnitOK /\ StatusOK
      /\ acts # <<>>
  BY <1>1 DEF IInv, StatusOK
<1>3. /\ DOMAIN acts = {1} /\ IsContext(C[1]) /\ B[1] = 1 /\ Act = acts[1] /\ lab = acts[1].lab
      /\ Len(frames) = B[1] + C[1].depth /\ Top = frames[B[1] + C[1].depth]
      /\ DOMAIN frames = 1..Len(frames)
  <2>1. B[1] = 1
    BY <1>2, Zenon DEF Stacked
  <2> QED
    BY <1>2, <2>1, Running
<1>4. C[1].of = "program"
  <2>1. \A i \in DOMAIN acts : C[i].of = "program" <=> i = 1
    BY <1>2, Zenon DEF Stacked
  <2> QED
    BY <1>3, <2>1
<1>5. C[1].depth = 0 /\ NonePending(C[1]) /\ C[1].code = "ended"
  BY <1>1, <1>4, Discipline, Zenon DEF Constrained
<1>6. Len(frames) = 1 /\ Top = 1 /\ frames[1] = 1 /\ DOMAIN frames = {1}
  <2>1. frames[1] = 1
    BY <1>2, Zenon DEF Stacked
  <2> QED
    BY <1>3, <1>5, <2>1
<1>7. \A f : Owed(C, B, f) = {}
  <2>1. Pending(lab, C[1].labels, C[1].depth) = {}
    BY <1>5, NothingPending
  <2> QED
    BY <1>3, <1>5, <2>1 DEF Owed
<1>8. \A f : Owed(<<>>, <<>>, f)' = {}
  BY <1>1 DEF Owed
<1>9. Stacked(<<>>, <<>>)'
  <2>1. /\ frames' \in Seq(Nat) /\ Len(frames') >= 1 /\ frames'[1] = 1
        /\ \A i \in DOMAIN frames' : frames'[i] \in DOMAIN frame'
        /\ \A i, j \in DOMAIN frames' : i < j => frames'[i] < frames'[j]
    BY <1>1, <1>2 DEF Stacked
  <2>2. IsSeq(<<>>)
    BY DEF IsSeq
  <2> QED
    BY <1>1, <1>6, <2>1, <2>2 DEF Stacked
<1>10. Judged(<<>>, <<>>)' /\ Active(<<>>, <<>>)'
  BY <1>1 DEF Judged, Active
<1>11. Filled(<<>>, <<>>)'
  <2>1. /\ \A f \in DOMAIN frame : /\ WellFormed(frame[f]) /\ frame[f].outer \in 0..(f - 1)
                                   /\ Settled(frame[f], Owed(C, B, f))
                                   /\ ~ OnStack(f) => Complete(frame[f], {})
        /\ \A i \in DOMAIN frames : i < Len(frames) => frame[frames[i]].bytecode_size > 0
        /\ C[N].code = "ended" => Complete(frame[Top], Owed(C, B, Top))
        /\ IsSeq(frame)
    BY <1>2, Zenon DEF Filled
  <2>2. \A f \in DOMAIN frame' : /\ WellFormed(frame'[f]) /\ frame'[f].outer \in 0..(f - 1)
                                 /\ Settled(frame'[f], Owed(<<>>, <<>>, f)')
                                 /\ ~ OnStack(f)' => Complete(frame'[f], {})
    <3>1. \A f : OnStack(f)' <=> OnStack(f)
      BY <1>1 DEF OnStack
    <3>2. \A f : Owed(<<>>, <<>>, f)' = Owed(C, B, f)
      BY <1>7, <1>8
    <3>3. \A f \in DOMAIN frame : Settled(frame[f], Owed(<<>>, <<>>, f)')
      BY <2>1, <3>2
    <3> QED
      BY <1>1, <2>1, <3>1, <3>3, Zenon
  <2>3. Complete(frame[1], {})
    BY <1>5, <1>6, <1>7, <2>1
  <2> QED
    BY <1>1, <1>6, <2>1, <2>2, <2>3 DEF Filled
<1>12. UnitOK' /\ StatusOK'
  <2>1. UnitOK'
    BY <1>1, <1>2, UnitSame
  <2> QED
    BY <1>1, <1>2, <2>1 DEF StatusOK
<1> QED
  BY <1>9, <1>10, <1>11, <1>12, Zenon DEF IInv, Inv

(* A value fits its caller's variable as it fits the callee's: the callee's    *)
(* own frame is the one on top for the caller.                               *)
LEMMA GivenFits ==
  ASSUME NEW x, NEW k, NEW r, NEW n, Givable(k), FitsIn(x, k, r, n), NEW c, IsContext(c), NEW S,
         S[c.depth] = r
  PROVE  LET g == Given(c, k)
         IN g.level \in 0..c.depth /\ ~ IsMark(g) /\ FitsIn(x, g, S[g.level], n)
<1>1. c.depth \in Nat
  BY ContextFields
<1>2. CASE k.is = "register"
  <2>1. PICK g : g = Given(c, k)
    OBVIOUS
  <2>2. g.is = "register" /\ g.type = k.type /\ g.level = c.depth
    BY <1>2, <2>1 DEF Given, Register, Kind
  <2>3. FitsIn(x, g, r, n)
    BY <1>2, <2>2 DEF FitsIn
  <2> QED
    BY <1>1, <2>1, <2>2, <2>3 DEF IsMark
<1>3. CASE k.is # "register"
  <2>1. Given(c, k) = k /\ k.is \in {"unknown", "integer", "frame"} /\ k.level = 0
    BY <1>3 DEF Given, Givable
  <2>2. \A s : FitsIn(x, k, s, n)
    BY <2>1 DEF FitsIn
  <2> QED
    BY <1>1, <2>1, <2>2 DEF IsMark
<1> QED
  BY <1>2, <1>3

(* A handler returns to the one that called it.                               *)
LEMMA InnerReturn ==
  ASSUME NEW C, NEW B, NEW V, IInv(C, B, V), Return, N # 1
  PROVE  Inv'
<1>1. /\ status = "compiling" /\ Op.op = "return"
      /\ frame' = frame /\ frames' = frames /\ cu' = cu /\ calls' = calls /\ status' = status
  BY DEF Return, Does, N
<1>2. /\ Stacked(C, B) /\ Judged(C, V) /\ Active(C, B) /\ Filled(C, B) /\ UnitOK /\ StatusOK
      /\ acts # <<>>
  BY <1>1 DEF IInv, StatusOK
<1>3. PICK n, c, src, dst : n = N /\ c = C[n] /\ src = Op.src /\ dst = Act.dst
  OBVIOUS
<1>4. PICK m : m = n - 1
  OBVIOUS
<1>5. /\ n \in Nat /\ n > 1 /\ m \in Nat /\ m > 0 /\ n = m + 1
      /\ DOMAIN acts = 1..n /\ n \in DOMAIN acts /\ m \in DOMAIN acts
      /\ Act = acts[n] /\ loc = acts[n].loc /\ lab = acts[n].lab
  <2>1. N \in Nat /\ N >= 1 /\ DOMAIN acts = 1..N /\ Act = acts[N] /\ loc = Act.loc /\ lab = Act.lab
    BY <1>2, Running
  <2> QED
    BY <1>3, <1>4, <2>1
<1>6. \A i \in 1..n : IsAct(acts[i]) /\ IsContext(C[i]) /\ C[i].depth \in Nat /\ B[i] \in Nat /\ B[i] > 0
  <2>1. \A i \in DOMAIN acts : IsAct(acts[i]) /\ IsContext(C[i])
    BY <1>2, Zenon DEF Stacked
  <2>2. \A i \in DOMAIN acts : C[i].depth \in Nat /\ B[i] \in Nat /\ B[i] > 0
    BY <1>2, Running
  <2> QED
    BY <1>5, <2>1, <2>2
<1>7. /\ c.depth = 0 /\ NonePending(c) /\ KindOf(c, src) \in c.ret
  <2>1. c.depth = 0 /\ NonePending(c) /\ (IF c.of = "program" THEN c.code = "ended" ELSE KindOf(c, src) \in c.ret)
    BY <1>1, <1>3, Discipline, Zenon DEF Constrained
  <2>2. \A i \in DOMAIN acts : C[i].of = "program" <=> i = 1
    BY <1>2, Zenon DEF Stacked
  <2>3. c.of # "program"
    BY <1>3, <1>5, <2>2
  <2> QED
    BY <2>1, <2>3
<1>8. B[n] = B[m] + C[m].depth /\ Len(frames) = B[n] /\ Top = frames[B[n]]
  <2>1. \A i, j \in DOMAIN acts : j = i + 1 => B[j] = B[i] + C[i].depth
    BY <1>2, Zenon DEF Stacked
  <2>2. Len(frames) = B[n] + c.depth /\ Top = frames[B[n] + c.depth]
    BY <1>2, <1>3, Running
  <2>3. B[n] = B[m] + C[m].depth
    BY <1>5, <2>1
  <2>4. B[n] + c.depth = B[n]
    BY <1>5, <1>6, <1>7
  <2> QED
    BY <2>2, <2>3, <2>4
<1>9. PICK x \in ReadOf(src) :
        acts' = [SubSeq(acts, 1, Len(acts) - 1) EXCEPT
                   ![Len(SubSeq(acts, 1, Len(acts) - 1))].loc = Assign(@, Act.dst, x)]
  BY <1>3 DEF Return, N
<1>10. PICK k, g, h : k = KindOf(c, src) /\ g = Given(C[m], k) /\ h = Gets(C[m], dst, g)
  OBVIOUS
<1>11. /\ IsFreeVariable(dst) /\ NoneHere(C[m].kinds, C[m].depth) /\ C[m].code # "ended"
       /\ Givable(k) /\ <<acts[m].todo, h>> \in Typings[V[m]]
  <2>1. \A i, j \in DOMAIN acts : j = i + 1 =>
          /\ IsFreeVariable(acts[j].dst) /\ NoneHere(C[i].kinds, C[i].depth) /\ C[i].code # "ended"
          /\ \A p \in C[j].ret :
               /\ Givable(p)
               /\ <<acts[i].todo, Gets(C[i], acts[j].dst, Given(C[i], p))>> \in Typings[V[i]]
    BY <1>2, Zenon DEF Judged
  <2>2. /\ IsFreeVariable(acts[n].dst) /\ NoneHere(C[m].kinds, C[m].depth) /\ C[m].code # "ended"
        /\ \A p \in C[n].ret :
             /\ Givable(p)
             /\ <<acts[m].todo, Gets(C[m], acts[n].dst, Given(C[m], p))>> \in Typings[V[m]]
    BY <1>5, <2>1
  <2> QED
    BY <1>3, <1>5, <1>7, <1>10, <2>2
<1>12. FitsIn(x, k, frame[Top], Len(frame))
  <2>1. CASE Known(c, src)
    <3>1. /\ loc[src] \in Int /\ k = c.kinds[src]
          /\ k.level = c.depth => FitsIn(loc[src], k, frame[Top], Len(frame))
      BY <1>1, <1>3, <1>10, <2>1, KnownFits DEF KindOf
    <3>2. src \in DOMAIN loc
      <4>1. Values(loc, c.kinds, Levels(B[n], c.depth), c.depth, Len(frame))
        BY <1>1, <1>3, Now
      <4> QED
        BY <2>1, <4>1 DEF Values, Known
    <3> QED
      BY <1>7, <1>9, <1>11, <3>1, <3>2 DEF ReadOf, Givable
  <2>2. CASE ~ Known(c, src)
    <3>1. k = Integer
      BY <1>10, <2>2 DEF KindOf
    <3>2. src \notin DOMAIN loc
      <4>1. Values(loc, c.kinds, Levels(B[n], c.depth), c.depth, Len(frame))
        BY <1>1, <1>3, Now
      <4> QED
        BY <2>2, <4>1 DEF Values, Known
    <3>3. x \in Int
      BY <1>9, <3>2, GarbageAssumption DEF ReadOf
    <3> QED
      BY <3>1, <3>3, IntegerFits
  <2> QED
    BY <2>1, <2>2
<1>13. PICK b : b = [acts[m] EXCEPT !.loc = Assign(acts[m].loc, dst, x)]
  OBVIOUS
<1>14. /\ IsAct(b) /\ b.todo = acts[m].todo /\ b.loc = Assign(acts[m].loc, dst, x) /\ b.lab = acts[m].lab
       /\ b.dst = acts[m].dst /\ b.id = acts[m].id
  <2>1. IsAct(acts[m])
    BY <1>5, <1>6
  <2> QED
    BY <1>13, <2>1 DEF IsAct
<1>15. /\ IsSeq(acts') /\ N' = m /\ DOMAIN acts' = 1..m /\ acts'[m] = b
       /\ \A i \in 1..m : i # m => acts'[i] = acts[i]
  <2>1. PICK rest : rest = SubSeq(acts, 1, Len(acts) - 1)
    OBVIOUS
  <2>2. IsSeq(acts) /\ Len(acts) = n
    BY <1>2, <1>3, Zenon DEF Stacked, N
  <2>3. /\ IsSeq(rest) /\ Len(rest) = m /\ DOMAIN rest = 1..m /\ \A i \in 1..m : rest[i] = acts[i]
    BY <1>2, <1>4, <2>1, <2>2, FrontSeq
  <2>4. acts' = Put(rest, m, b)
    <3>1. acts' = [rest EXCEPT ![m].loc = Assign(@, dst, x)]
      BY <1>3, <1>9, <2>1, <2>3
    <3>2. rest[m] = acts[m]
      BY <1>5, <2>3
    <3> QED
      BY <1>13, <3>1, <3>2 DEF Put
  <2>5. IsSeq(rest) /\ m \in DOMAIN rest
    BY <1>5, <2>3
  <2>6. /\ IsSeq(acts') /\ Len(acts') = Len(rest) /\ DOMAIN acts' = DOMAIN rest /\ acts'[m] = b
        /\ \A i \in DOMAIN rest : i # m => acts'[i] = rest[i]
    BY <2>4, <2>5, Replaced
  <2> QED
    BY <2>3, <2>6 DEF N
<1>16. PICK D : D = [i \in 1..m |-> IF i = m THEN h ELSE C[i]]
  OBVIOUS
<1>17. PICK E : E = [i \in 1..m |-> B[i]]
  OBVIOUS
<1>18. /\ SamePlace(C[m], h) /\ h.code = C[m].code /\ h.labels = C[m].labels
       /\ h.kinds = Assign(C[m].kinds, dst, g) /\ IsContext(h)
  <2>1. IsContext(C[m])
    BY <1>5, <1>6
  <2>2. /\ SamePlace(C[m], h) /\ h.code = C[m].code /\ h.labels = C[m].labels
        /\ h.kinds = Assign(C[m].kinds, dst, g)
    BY <1>10, <2>1, GetsContext
  <2> QED
    BY <2>2 DEF SamePlace
<1>19. /\ DOMAIN D = 1..m /\ D[m] = h /\ \A i \in 1..m : i # m => D[i] = C[i]
       /\ \A i \in 1..m : /\ D[i].depth = C[i].depth /\ D[i].labels = C[i].labels
                          /\ D[i].ret = C[i].ret /\ D[i].of = C[i].of /\ IsContext(D[i])
       /\ DOMAIN E = 1..m /\ \A i \in 1..m : E[i] = B[i]
  BY <1>5, <1>6, <1>16, <1>17, <1>18 DEF SamePlace
<1>20. \A i \in 1..m : i \in 1..n
  BY <1>5
<1>21. Stacked(D, E)'
  <2>1. /\ frames' \in Seq(Nat) /\ Len(frames') >= 1 /\ frames'[1] = 1
        /\ \A i \in DOMAIN frames' : frames'[i] \in DOMAIN frame'
        /\ \A i, j \in DOMAIN frames' : i < j => frames'[i] < frames'[j]
    BY <1>1, <1>2 DEF Stacked
  <2>2. acts' # <<>> /\ E[1] = 1 /\ Len(frames') = E[N'] + D[N'].depth
    <3>1. B[1] = 1
      BY <1>2, Zenon DEF Stacked
    <3>2. 1 \in DOMAIN acts' /\ E[1] = B[1]
      BY <1>5, <1>15, <1>19
    <3>3. E[m] = B[m] /\ D[m].depth = C[m].depth
      BY <1>5, <1>19
    <3>4. acts' # <<>>
      BY <3>2
    <3>5. E[1] = 1 /\ Len(frames') = E[N'] + D[N'].depth
      BY <1>1, <1>8, <1>15, <3>1, <3>2, <3>3, Zenon
    <3> QED
      BY <3>4, <3>5
  <2>3. \A i \in DOMAIN acts : /\ IsAct(acts[i]) /\ IsContext(C[i]) /\ B[i] \in Nat \ {0}
                               /\ C[i].of = "program" <=> i = 1
                               /\ acts[i].id <= calls
    BY <1>2, Zenon DEF Stacked
  <2>4. \A i \in 1..m : acts'[i].id = acts[i].id /\ IsAct(acts'[i])
    BY <1>5, <1>14, <1>15, <1>20, <2>3
  <2>5. \A i \in DOMAIN acts' : /\ IsAct(acts'[i]) /\ IsContext(D[i]) /\ E[i] \in Nat \ {0}
                                /\ D[i].of = "program" <=> i = 1
                                /\ acts'[i].id <= calls'
    <3> SUFFICES ASSUME NEW i \in 1..m
                 PROVE  /\ IsAct(acts'[i]) /\ IsContext(D[i]) /\ E[i] \in Nat \ {0}
                        /\ D[i].of = "program" <=> i = 1
                        /\ acts'[i].id <= calls'
      BY <1>15
    <3>1. i \in DOMAIN acts
      BY <1>5, <1>20
    <3> QED
      BY <1>1, <1>19, <2>3, <2>4, <3>1, Zenon
  <2>6. \A i, j \in DOMAIN acts' : i < j => E[i] + D[i].depth <= E[j]
    <3>1. \A i, j \in DOMAIN acts : i < j => B[i] + C[i].depth <= B[j]
      BY <1>2, Zenon DEF Stacked
    <3> QED
      BY <1>5, <1>15, <1>19, <1>20, <3>1
  <2>7. \A i, j \in DOMAIN acts' : j = i + 1 => E[j] = E[i] + D[i].depth
    <3>1. \A i, j \in DOMAIN acts : j = i + 1 => B[j] = B[i] + C[i].depth
      BY <1>2, Zenon DEF Stacked
    <3> QED
      BY <1>5, <1>15, <1>19, <1>20, <3>1
  <2> QED
    BY <1>15, <1>19, <2>1, <2>2, <2>5, <2>6, <2>7, Zenon DEF Stacked
<1>22. Judged(D, V)'
  <2>1. \A i \in DOMAIN acts : V[i] \in DOMAIN Typings
    BY <1>2, Zenon DEF Judged
  <2>2. \A i, j \in DOMAIN acts : j = i + 1 =>
          /\ IsFreeVariable(acts[j].dst) /\ NoneHere(C[i].kinds, C[i].depth) /\ C[i].code # "ended"
          /\ \A p \in C[j].ret :
               /\ Givable(p)
               /\ <<acts[i].todo, Gets(C[i], acts[j].dst, Given(C[i], p))>> \in Typings[V[i]]
    BY <1>2, Zenon DEF Judged
  <2>3. \A i \in DOMAIN acts' : V[i] \in DOMAIN Typings
    BY <1>5, <1>15, <1>20, <2>1
  <2>4. <<Act'.todo, D[N']>> \in Typings[V[N']]
    <3>1. Act' = b /\ D[N'] = h /\ N' = m
      BY <1>15, <1>19 DEF Act, N
    <3> QED
      BY <1>11, <1>14, <3>1
  <2>5. \A i, j \in DOMAIN acts' : j = i + 1 =>
          /\ IsFreeVariable(acts'[j].dst) /\ NoneHere(D[i].kinds, D[i].depth) /\ D[i].code # "ended"
          /\ \A p \in D[j].ret :
               /\ Givable(p)
               /\ <<acts'[i].todo, Gets(D[i], acts'[j].dst, Given(D[i], p))>> \in Typings[V[i]]
    <3> SUFFICES ASSUME NEW i \in 1..m, NEW j \in 1..m, j = i + 1
                 PROVE  /\ IsFreeVariable(acts'[j].dst) /\ NoneHere(D[i].kinds, D[i].depth)
                        /\ D[i].code # "ended"
                        /\ \A p \in D[j].ret :
                             /\ Givable(p)
                             /\ <<acts'[i].todo, Gets(D[i], acts'[j].dst, Given(D[i], p))>>
                                  \in Typings[V[i]]
      BY <1>15
    <3>1. i # m /\ i \in DOMAIN acts /\ j \in DOMAIN acts
      BY <1>5
    <3>2. acts'[i] = acts[i] /\ D[i] = C[i] /\ D[j].ret = C[j].ret
      BY <1>15, <1>19, <3>1
    <3>3. acts'[j].dst = acts[j].dst
      BY <1>14, <1>15
    <3> QED
      BY <2>2, <3>1, <3>2, <3>3
  <2> QED
    BY <2>3, <2>4, <2>5, Zenon DEF Judged
<1>23. Active(D, E)'
  <2>1. \A i \in DOMAIN acts :
          /\ Values(acts[i].loc, C[i].kinds, Levels(B[i], C[i].depth), C[i].depth, Len(frame))
          /\ Labels(acts[i].lab, C[i].labels, Levels(B[i], C[i].depth), C[i].depth)
    BY <1>2, Zenon DEF Active
  <2>2. \A p, y : Levels(p, y)' = Levels(p, y)
    BY <1>1 DEF Levels
  <2>3. PICK S, d : S = Levels(B[m], C[m].depth) /\ d = C[m].depth
    OBVIOUS
  <2>4. d \in Nat /\ IsContext(C[m]) /\ B[m] \in Nat
    BY <1>5, <1>6, <2>3
  <2>5. S[d] = frame[Top]
    BY <1>8, <2>3, <2>4 DEF Levels
  <2>6. g.level \in 0..d /\ ~ IsMark(g) /\ FitsIn(x, g, S[g.level], Len(frame))
    BY <1>10, <1>11, <1>12, <2>3, <2>4, <2>5, GivenFits
  <2>7. Len(frame) \in Nat
    BY <1>1, Now
  <2>8. Values(acts[m].loc, C[m].kinds, S, d, Len(frame))
    BY <1>5, <2>1, <2>3
  <2>9. dst # "start_offset"
    BY <1>11 DEF IsFreeVariable
  <2>10. Values(Assign(acts[m].loc, dst, x), Assign(C[m].kinds, dst, g), S, d, Len(frame))
    BY <2>4, <2>6, <2>7, <2>8, <2>9, ValuesGets
  <2>11. ASSUME NEW i \in 1..m
         PROVE  /\ Values(acts'[i].loc, D[i].kinds, Levels(E[i], D[i].depth)', D[i].depth, Len(frame'))
                /\ Labels(acts'[i].lab, D[i].labels, Levels(E[i], D[i].depth)', D[i].depth)
    <3>1. i \in DOMAIN acts /\ E[i] = B[i] /\ D[i].depth = C[i].depth /\ D[i].labels = C[i].labels
      BY <1>5, <1>19
    <3>2. acts'[i].lab = acts[i].lab
      BY <1>14, <1>15
    <3>3. Levels(E[i], D[i].depth)' = Levels(B[i], C[i].depth) /\ Len(frame') = Len(frame)
      BY <1>1, <2>2, <3>1
    <3>4. Values(acts'[i].loc, D[i].kinds, Levels(B[i], C[i].depth), C[i].depth, Len(frame))
      <4>1. CASE i = m
        BY <1>14, <1>15, <1>18, <1>19, <2>3, <2>10, <4>1
      <4>2. CASE i # m
        BY <1>15, <1>19, <2>1, <3>1, <4>2
      <4> QED
        BY <4>1, <4>2
    <3> QED
      BY <2>1, <3>1, <3>2, <3>3, <3>4
  <2> QED
    BY <1>15, <2>11, Zenon DEF Active
<1>24. \A f : Owed(C, B, f) \subseteq Owed(D, E, f)'
  <2> SUFFICES ASSUME NEW f, NEW s \in Owed(C, B, f)
               PROVE  s \in Owed(D, E, f)'
    OBVIOUS
  <2>1. s \in Nat /\ \E i \in DOMAIN acts : \E l \in 0..C[i].depth :
          frames[B[i] + l] = f /\ s \in Pending(acts[i].lab, C[i].labels, l)
    BY DEF Owed
  <2>2. PICK i \in 1..n : \E l \in 0..C[i].depth :
          frames[B[i] + l] = f /\ s \in Pending(acts[i].lab, C[i].labels, l)
    BY <1>5, <2>1
  <2>3. PICK l \in 0..C[i].depth : frames[B[i] + l] = f /\ s \in Pending(acts[i].lab, C[i].labels, l)
    BY <2>2
  <2>4. i \in 1..m
    <3>1. Pending(lab, c.labels, c.depth) = {}
      BY <1>7, NothingPending
    <3>2. ASSUME i = n PROVE FALSE
      <4>1. l = c.depth
        BY <1>3, <1>7, <2>3, <3>2
      <4> QED
        BY <1>3, <1>5, <2>3, <3>1, <3>2, <4>1
    <3> QED
      BY <1>5, <3>2
  <2>5. acts'[i].lab = acts[i].lab /\ i \in DOMAIN acts'
    BY <1>14, <1>15, <2>4
  <2>6. l \in 0..D[i].depth /\ frames'[E[i] + l] = f /\ s \in Pending(acts'[i].lab, D[i].labels, l)
    BY <1>1, <1>19, <2>3, <2>4, <2>5
  <2> QED
    BY <2>1, <2>5, <2>6 DEF Owed
<1>25. Filled(D, E)'
  <2>1. /\ \A f \in DOMAIN frame : /\ WellFormed(frame[f]) /\ frame[f].outer \in 0..(f - 1)
                                   /\ Settled(frame[f], Owed(C, B, f))
                                   /\ ~ OnStack(f) => Complete(frame[f], {})
        /\ \A i \in DOMAIN frames : i < Len(frames) => frame[frames[i]].bytecode_size > 0
        /\ \A i \in DOMAIN acts : i > 1 => frame[frames[B[i]]].bytecode_size > 0
        /\ IsSeq(frame)
    BY <1>2, Zenon DEF Filled
  <2>2. \A f \in DOMAIN frame' : /\ WellFormed(frame'[f]) /\ frame'[f].outer \in 0..(f - 1)
                                 /\ Settled(frame'[f], Owed(D, E, f)')
                                 /\ ~ OnStack(f)' => Complete(frame'[f], {})
    BY <1>1, <1>24, <2>1, MoreOwed DEF OnStack
  <2>3. \A i \in DOMAIN frames' : i < Len(frames') => frame'[frames'[i]].bytecode_size > 0
    BY <1>1, <2>1
  <2>4. \A i \in DOMAIN acts' : i > 1 => frame'[frames'[E[i]]].bytecode_size > 0
    BY <1>1, <1>5, <1>15, <1>19, <1>20, <2>1
  <2>5. acts' # <<>> /\ D[N'].code # "ended" /\ frame'[Top'].bytecode_size > 0
    <3>1. frame[Top].bytecode_size > 0
      BY <1>5, <1>8, <2>1
    <3>2. acts' # <<>> /\ D[N'].code = C[m].code
      BY <1>5, <1>15, <1>18, <1>19
    <3> QED
      BY <1>1, <1>11, <3>1, <3>2 DEF Top
  <2> QED
    BY <1>1, <2>1, <2>2, <2>3, <2>4, <2>5, Zenon DEF Filled
<1>26. UnitOK' /\ StatusOK'
  <2>1. UnitOK'
    BY <1>1, <1>2, UnitSame
  <2>2. acts' # <<>>
    BY <1>5, <1>15
  <2> QED
    BY <1>1, <1>2, <2>1, <2>2 DEF StatusOK
<1> QED
  BY <1>21, <1>22, <1>23, <1>25, <1>26, Zenon DEF IInv, Inv

LEMMA ReturnStep ==
  ASSUME NEW C, NEW B, NEW V, IInv(C, B, V), Return
  PROVE  Inv'
BY LastReturn, InnerReturn

LEMMA UnitMore ==
  ASSUME UnitOK, cu' = cu, DOMAIN frame \subseteq DOMAIN frame'
  PROVE  UnitOK'
<1>1. MethodsIn(cu.scs, DOMAIN frame')
  BY DEF UnitOK, MethodsIn
<1> QED
  BY <1>1 DEF UnitOK

(* A frame is pushed: its code is empty, and the handler's labels are those   *)
(* of the frames below.                                                     *)
LEMMA PushFrameStep ==
  ASSUME NEW C, NEW B, NEW V, IInv(C, B, V), PushFrame
  PROVE  Inv'
<1>1. /\ status = "compiling" /\ Op.op = "pushframe"
      /\ frame' = Append(frame, NewFrame(Top)) /\ frames' = Append(frames, Len(frame) + 1)
      /\ Resume(Tail(Act.todo), Assign(loc, Op.dst, Len(frame) + 1), lab)
      /\ cu' = cu /\ calls' = calls /\ status' = status
  BY DEF PushFrame, Does, Proceed, ContinueSet
<1>2. /\ Stacked(C, B) /\ Judged(C, V) /\ Active(C, B) /\ Filled(C, B) /\ UnitOK /\ StatusOK
      /\ acts # <<>>
  BY <1>1 DEF IInv, StatusOK
<1>3. PICK n, c, dst, t, top, q : n = N /\ c = C[n] /\ dst = Op.dst /\ t = Tail(Act.todo)
        /\ top = Top /\ q = Len(frame)
  OBVIOUS
<1>4. PICK d, size, fresh : d = c.depth /\ size = Len(frames) /\ fresh = NewFrame(top)
  OBVIOUS
<1>5. /\ n \in Nat /\ n >= 1 /\ DOMAIN acts = 1..n /\ n \in DOMAIN acts
      /\ Act = acts[n] /\ IsAct(acts[n]) /\ loc = acts[n].loc /\ lab = acts[n].lab
      /\ IsContext(c) /\ d \in Nat /\ B[n] \in Nat /\ B[n] > 0
  BY <1>2, <1>3, <1>4, Running
<1>6. size \in Nat /\ DOMAIN frames = 1..size /\ size >= 1
  BY <1>2, <1>3, <1>4, Running
<1>7. size = B[n] + d
  BY <1>2, <1>3, <1>4, Running
<1>8. /\ top = frames[size] /\ top \in DOMAIN frame /\ q \in Nat /\ DOMAIN frame = 1..q /\ IsSeq(frame)
  <2>1. Top = frames[B[n] + d] /\ Top \in DOMAIN frame
    BY <1>2, <1>3, <1>4, Running
  <2>2. IsSeq(frame)
    BY <1>2, Zenon DEF Filled
  <2> QED
    BY <1>3, <1>6, <1>7, <2>1, <2>2, SeqFields
<1>9. \A i \in 1..n : /\ IsAct(acts[i]) /\ IsContext(C[i]) /\ C[i].depth \in Nat /\ B[i] \in Nat
                      /\ B[i] > 0 /\ B[i] + C[i].depth <= size
  <2>1. \A i \in DOMAIN acts : IsAct(acts[i]) /\ IsContext(C[i])
    BY <1>2, Zenon DEF Stacked
  <2>2. \A i \in DOMAIN acts : C[i].depth \in Nat /\ B[i] \in Nat /\ B[i] > 0 /\ B[i] + C[i].depth <= size
    BY <1>2, <1>4, Running
  <2> QED
    BY <1>5, <2>1, <2>2
<1>10. c.code # "none" /\ IsFreeVariable(dst)
  BY <1>1, <1>3, Discipline, Zenon DEF Constrained
<1>11. PICK x, h : x = q + 1 /\ h = Opens(c, dst)
  OBVIOUS
<1>12. <<t, h>> \in Typings[V[n]] /\ V[n] \in DOMAIN Typings
  <2>1. <<Tail(Act.todo), Opens(C[N], Op.dst)>> \in Onward(Act.todo, C[N])
    BY <1>1, Zenon DEF Onward, Op
  <2> QED
    BY <1>1, <1>3, <1>11, <2>1, Discipline
<1>13. /\ IsContext(h) /\ h.of = c.of /\ h.depth = d + 1 /\ h.ret = c.ret
       /\ h.code = "none" /\ h.labels = c.labels /\ h.kinds = Assign(c.kinds, dst, FrameNumber)
  BY <1>4, <1>5, <1>11, OpensContext
<1>14. PICK b : b = Resumed(acts[n], t, Assign(loc, dst, x), lab)
  OBVIOUS
<1>15. /\ IsAct(b) /\ b.todo = t /\ b.loc = Assign(loc, dst, x) /\ b.lab = lab
       /\ b.dst = acts[n].dst /\ b.id = acts[n].id
  BY <1>5, <1>14, ActFields
<1>16. /\ IsSeq(acts') /\ N' = n /\ DOMAIN acts' = 1..n /\ acts'[n] = b
       /\ \A i \in 1..n : i # n => acts'[i] = acts[i]
  <2>1. acts' = Put(acts, n, b)
    BY <1>1, <1>3, <1>5, <1>11, <1>14 DEF Resume, Put, Resumed, N
  <2>2. IsSeq(acts) /\ n \in DOMAIN acts
    BY <1>2, <1>5, Zenon DEF Stacked
  <2>3. /\ IsSeq(acts') /\ Len(acts') = Len(acts) /\ DOMAIN acts' = DOMAIN acts /\ acts'[n] = b
        /\ \A i \in DOMAIN acts : i # n => acts'[i] = acts[i]
    BY <2>1, <2>2, Replaced
  <2> QED
    BY <1>3, <1>5, <2>3, Zenon DEF N
<1>17. /\ IsSeq(frame') /\ Len(frame') = x /\ DOMAIN frame' = 1..x /\ frame'[x] = fresh
       /\ x \in Nat /\ \A f \in 1..q : frame'[f] = frame[f] /\ f \in 1..x /\ f < x
  BY <1>1, <1>3, <1>4, <1>8, <1>11, AppendSeq
<1>18. /\ Len(frames') = size + 1 /\ DOMAIN frames' = 1..(size + 1) /\ frames'[size + 1] = x
       /\ \A i \in 1..size : frames'[i] = frames[i] /\ i \in 1..(size + 1)
       /\ Top' = x
  <2>1. IsSeq(frames)
    BY <1>2 DEF Stacked, IsSeq
  <2>2. /\ Len(frames') = size + 1 /\ DOMAIN frames' = 1..(size + 1) /\ frames'[size + 1] = x
        /\ \A i \in 1..size : frames'[i] = frames[i]
    BY <1>1, <1>3, <1>4, <1>11, <2>1, AppendSeq
  <2> QED
    BY <1>6, <1>7, <2>2 DEF Top
<1>19. \A i \in 1..size : frames[i] \in 1..q /\ frames[i] \in Nat
  <2>1. \A i \in DOMAIN frames : frames[i] \in DOMAIN frame
    BY <1>2, Zenon DEF Stacked
  <2> QED
    BY <1>6, <1>7, <1>8, <2>1
<1>20. PICK D : D = [C EXCEPT ![n] = h]
  OBVIOUS
<1>21. /\ DOMAIN D = 1..n /\ D[n] = h /\ \A i \in 1..n : i # n => D[i] = C[i]
       /\ \A i \in 1..n : D[i].labels = C[i].labels /\ D[i].ret = C[i].ret /\ D[i].of = C[i].of
                          /\ IsContext(D[i])
       /\ D[n].depth = d + 1 /\ \A i \in 1..n : i # n => D[i].depth = C[i].depth
  <2>1. DOMAIN C = 1..n
    BY <1>2, <1>5, Zenon DEF Stacked
  <2>2. DOMAIN D = 1..n /\ D[n] = h /\ \A i \in 1..n : i # n => D[i] = C[i]
    BY <1>5, <1>20, <2>1
  <2> QED
    BY <1>3, <1>9, <1>13, <2>2
<1>22. Stacked(D, B)'
  <2>1. frames' \in Seq(Nat) /\ Len(frames') >= 1 /\ frames'[1] = 1
    <3>1. frames \in Seq(Nat) /\ size >= 1 /\ frames[1] = 1
      BY <1>2, <1>4, Zenon DEF Stacked
    <3>2. frames' \in Seq(Nat)
      BY <1>1, <1>3, <1>8, <3>1
    <3> QED
      BY <1>5, <1>18, <3>1, <3>2
  <2>2. \A i \in DOMAIN frames' : frames'[i] \in DOMAIN frame'
    BY <1>6, <1>7, <1>17, <1>18, <1>19
  <2>3. \A i, j \in DOMAIN frames' : i < j => frames'[i] < frames'[j]
    <3>1. \A i, j \in DOMAIN frames : i < j => frames[i] < frames[j]
      BY <1>2, Zenon DEF Stacked
    <3> QED
      BY <1>6, <1>7, <1>17, <1>18, <1>19, <3>1
  <2>4. B[1] = 1 /\ acts' # <<>> /\ Len(frames') = B[N'] + D[N'].depth /\ DOMAIN B = DOMAIN acts'
    <3>1. B[1] = 1 /\ DOMAIN B = DOMAIN acts
      BY <1>2, Zenon DEF Stacked
    <3>2. size + 1 = B[n] + (d + 1)
      <4>1. B[n] \in Nat /\ d \in Nat
        BY <1>5, Zenon
      <4> QED
        BY <1>7, <4>1
    <3>3. acts' # <<>>
      BY <1>5, <1>16
    <3> QED
      BY <1>5, <1>16, <1>18, <1>21, <3>1, <3>2, <3>3, Zenon
  <2>5. \A i \in DOMAIN acts : /\ IsAct(acts[i]) /\ IsContext(C[i]) /\ B[i] \in Nat \ {0}
                               /\ C[i].of = "program" <=> i = 1
                               /\ acts[i].id <= calls
    BY <1>2, Zenon DEF Stacked
  <2>6. \A i \in 1..n : acts'[i].id = acts[i].id /\ IsAct(acts'[i])
    BY <1>5, <1>9, <1>15, <1>16
  <2>7. \A i \in DOMAIN acts' : /\ IsAct(acts'[i]) /\ IsContext(D[i]) /\ B[i] \in Nat \ {0}
                                /\ D[i].of = "program" <=> i = 1
                                /\ acts'[i].id <= calls'
    BY <1>1, <1>5, <1>16, <1>21, <2>5, <2>6, ZenonT(30)
  <2>8. \A i, j \in DOMAIN acts' : i < j => B[i] + D[i].depth <= B[j]
    <3>1. \A i, j \in DOMAIN acts : i < j => B[i] + C[i].depth <= B[j]
      BY <1>2, Zenon DEF Stacked
    <3> QED
      BY <1>5, <1>16, <1>21, <3>1
  <2>9. \A i, j \in DOMAIN acts' : j = i + 1 => B[j] = B[i] + D[i].depth
    <3>1. \A i, j \in DOMAIN acts : j = i + 1 => B[j] = B[i] + C[i].depth
      BY <1>2, Zenon DEF Stacked
    <3> QED
      BY <1>5, <1>16, <1>21, <3>1
  <2> QED
    BY <1>16, <1>21, <2>1, <2>2, <2>3, <2>4, <2>7, <2>8, <2>9, Zenon DEF Stacked
<1>23. Judged(D, V)'
  <2>1. \A i \in DOMAIN acts' : V[i] \in DOMAIN Typings
    <3>1. \A i \in DOMAIN acts : V[i] \in DOMAIN Typings
      BY <1>2, Zenon DEF Judged
    <3> QED
      BY <1>5, <1>16, <3>1
  <2>2. \A i, j \in DOMAIN acts : j = i + 1 =>
          /\ IsFreeVariable(acts[j].dst) /\ NoneHere(C[i].kinds, C[i].depth) /\ C[i].code # "ended"
          /\ \A k \in C[j].ret :
               /\ Givable(k)
               /\ <<acts[i].todo, Gets(C[i], acts[j].dst, Given(C[i], k))>> \in Typings[V[i]]
    BY <1>2, Zenon DEF Judged
  <2>3. <<Act'.todo, D[N']>> \in Typings[V[N']]
    <3>1. Act' = b /\ D[N'] = h /\ N' = n
      BY <1>16, <1>21 DEF Act, N
    <3> QED
      BY <1>12, <1>15, <3>1
  <2>4. \A i, j \in DOMAIN acts' : j = i + 1 =>
          /\ IsFreeVariable(acts'[j].dst) /\ NoneHere(D[i].kinds, D[i].depth) /\ D[i].code # "ended"
          /\ \A k \in D[j].ret :
               /\ Givable(k)
               /\ <<acts'[i].todo, Gets(D[i], acts'[j].dst, Given(D[i], k))>> \in Typings[V[i]]
    <3> SUFFICES ASSUME NEW i \in 1..n, NEW j \in 1..n, j = i + 1
                 PROVE  /\ IsFreeVariable(acts'[j].dst) /\ NoneHere(D[i].kinds, D[i].depth)
                        /\ D[i].code # "ended"
                        /\ \A k \in D[j].ret :
                             /\ Givable(k)
                             /\ <<acts'[i].todo, Gets(D[i], acts'[j].dst, Given(D[i], k))>>
                                  \in Typings[V[i]]
      BY <1>16
    <3>1. i # n
      BY <1>5
    <3>2. acts'[i] = acts[i] /\ D[i] = C[i] /\ D[j].ret = C[j].ret
      BY <1>16, <1>21, <3>1
    <3>3. acts'[j].dst = acts[j].dst
      BY <1>15, <1>16
    <3> QED
      BY <1>5, <2>2, <3>2, <3>3
  <2> QED
    BY <2>1, <2>3, <2>4, Zenon DEF Judged
<1>24. \A i \in 1..n : \A l \in 0..C[i].depth :
         /\ B[i] + l \in 1..size /\ frames'[B[i] + l] = frames[B[i] + l]
         /\ frames[B[i] + l] \in 1..q /\ frame'[frames[B[i] + l]] = frame[frames[B[i] + l]]
         /\ frame[frames[B[i] + l]] \in KijiFrame
  <2>1. \A f \in DOMAIN frame : WellFormed(frame[f])
    BY <1>2, Zenon DEF Filled
  <2> SUFFICES ASSUME NEW i \in 1..n, NEW l \in 0..C[i].depth
               PROVE  /\ B[i] + l \in 1..size /\ frames'[B[i] + l] = frames[B[i] + l]
                      /\ frames[B[i] + l] \in 1..q /\ frame'[frames[B[i] + l]] = frame[frames[B[i] + l]]
                      /\ frame[frames[B[i] + l]] \in KijiFrame
    OBVIOUS
  <2>2. B[i] + l \in 1..size
    BY <1>5, <1>6, <1>7, <1>9, SMTT(30)
  <2>3. frames[B[i] + l] \in 1..q
    BY <1>19, <2>2
  <2> QED
    BY <1>8, <1>17, <1>18, <2>1, <2>2, <2>3, IsFrame
<1>25. Active(D, B)'
  <2>1. \A i \in DOMAIN acts :
          /\ Values(acts[i].loc, C[i].kinds, Levels(B[i], C[i].depth), C[i].depth, Len(frame))
          /\ Labels(acts[i].lab, C[i].labels, Levels(B[i], C[i].depth), C[i].depth)
    BY <1>2, Zenon DEF Active
  <2>2. ASSUME NEW i \in 1..n, i # n
        PROVE  /\ Values(acts'[i].loc, D[i].kinds, Levels(B[i], D[i].depth)', D[i].depth, Len(frame'))
               /\ Labels(acts'[i].lab, D[i].labels, Levels(B[i], D[i].depth)', D[i].depth)
    <3>1. acts'[i] = acts[i] /\ D[i] = C[i] /\ i \in DOMAIN acts
      BY <1>5, <1>16, <1>21, <2>2
    <3>2. PICK e, S, ks, lc : e = C[i].depth /\ S = Levels(B[i], e) /\ ks = C[i].kinds /\ lc = acts[i].loc
      OBVIOUS
    <3>3. Levels(B[i], e)' = S
      <4>1. \A l \in 0..e : frame'[frames'[B[i] + l]] = frame[frames[B[i] + l]]
        BY <1>24, <3>2
      <4> QED
        BY <3>2, <4>1 DEF Levels
    <3>4. e \in Nat /\ \A l \in 0..e : S[l] \in KijiFrame
      BY <1>9, <1>24, <3>2 DEF Levels
    <3>5. Values(lc, ks, S, e, q) /\ Labels(acts[i].lab, C[i].labels, S, e)
      BY <1>3, <2>1, <3>1, <3>2
    <3>6. \A l \in 0..e : Grows(S[l], S[l])
      BY <3>4, GrowsSame
    <3>7. q <= x /\ x \in Nat /\ q \in Nat
      BY <1>8, <1>11
    <3>8. Values(lc, ks, S, e, x)
      BY <3>4, <3>5, <3>6, <3>7, ValuesLater
    <3> QED
      BY <1>17, <3>1, <3>2, <3>3, <3>5, <3>8
  <2>3. /\ Values(acts'[n].loc, D[n].kinds, Levels(B[n], D[n].depth)', D[n].depth, Len(frame'))
        /\ Labels(acts'[n].lab, D[n].labels, Levels(B[n], D[n].depth)', D[n].depth)
    <3>1. PICK S, T, ks : S = Levels(B[n], d) /\ T = Levels(B[n], d + 1)' /\ ks = c.kinds
      OBVIOUS
    <3>2. \A l \in 0..d : T[l] = S[l] /\ S[l] \in KijiFrame
      <4>1. \A l \in 0..d : S[l] = frame[frames[B[n] + l]]
        BY <3>1 DEF Levels
      <4>2. \A l \in 0..(d + 1) : T[l] = frame'[frames'[B[n] + l]]
        BY <3>1 DEF Levels
      <4>3. \A l \in 0..d : l \in 0..(d + 1)
        BY <1>5
      <4>4. \A l \in 0..d : /\ frame'[frames'[B[n] + l]] = frame[frames[B[n] + l]]
                            /\ frame[frames[B[n] + l]] \in KijiFrame
        BY <1>3, <1>4, <1>5, <1>24
      <4> QED
        BY <4>1, <4>2, <4>3, <4>4
    <3>3. Values(loc, ks, S, d, q) /\ Labels(lab, c.labels, S, d)
      BY <1>3, <1>4, <1>5, <2>1, <3>1
    <3>4. q <= x /\ x \in Nat /\ q \in Nat /\ d + 1 \in Nat /\ d <= d + 1
      BY <1>5, <1>8, <1>11
    <3>5. Values(loc, ks, T, d + 1, x)
      BY <1>5, <3>2, <3>3, <3>4, ValuesDeeper
    <3>6. FitsIn(x, FrameNumber, T[0], x) /\ ~ IsMark(FrameNumber) /\ FrameNumber.level = 0
      BY <1>11, <3>4 DEF FitsIn, IsMark, FrameNumber, Kind
    <3>7. Values(Assign(loc, dst, x), Assign(ks, dst, FrameNumber), T, d + 1, x)
      <4>1. dst # "start_offset" /\ FrameNumber.level \in 0..(d + 1)
        BY <1>5, <1>10, <3>6 DEF IsFreeVariable
      <4> QED
        BY <3>4, <3>5, <3>6, <4>1, ValuesGets
    <3>8. Labels(lab, c.labels, T, d + 1)
      <4>1. \A l \in 0..d : S[l] \in KijiFrame /\ T[l] \in KijiFrame /\ Grows(S[l], T[l])
        BY <3>2, GrowsSame
      <4> QED
        BY <1>5, <3>3, <3>4, <4>1, LabelsLater
    <3> QED
      BY <1>13, <1>15, <1>16, <1>17, <1>21, <3>1, <3>7, <3>8
  <2>4. \A i \in 1..n :
          /\ Values(acts'[i].loc, D[i].kinds, Levels(B[i], D[i].depth)', D[i].depth, Len(frame'))
          /\ Labels(acts'[i].lab, D[i].labels, Levels(B[i], D[i].depth)', D[i].depth)
    BY <2>2, <2>3
  <2> QED
    BY <1>16, <2>4, Zenon DEF Active
<1>26. \A f : Owed(C, B, f) \subseteq Owed(D, B, f)'
  <2> SUFFICES ASSUME NEW f, NEW s \in Owed(C, B, f)
               PROVE  s \in Owed(D, B, f)'
    OBVIOUS
  <2>1. s \in Nat /\ \E i \in DOMAIN acts : \E l \in 0..C[i].depth :
          frames[B[i] + l] = f /\ s \in Pending(acts[i].lab, C[i].labels, l)
    BY DEF Owed
  <2>2. PICK i \in 1..n : \E l \in 0..C[i].depth :
          frames[B[i] + l] = f /\ s \in Pending(acts[i].lab, C[i].labels, l)
    BY <1>5, <2>1
  <2>3. PICK l \in 0..C[i].depth : frames[B[i] + l] = f /\ s \in Pending(acts[i].lab, C[i].labels, l)
    BY <2>2
  <2>4. acts'[i].lab = acts[i].lab /\ i \in DOMAIN acts'
    BY <1>5, <1>15, <1>16
  <2>5. l \in 0..D[i].depth
    BY <1>3, <1>4, <1>5, <1>9, <1>21
  <2>6. frames'[B[i] + l] = f /\ s \in Pending(acts'[i].lab, D[i].labels, l)
    BY <1>21, <1>24, <2>3, <2>4
  <2> QED
    BY <2>1, <2>4, <2>5, <2>6 DEF Owed
<1>27. Filled(D, B)'
  <2>1. /\ \A f \in DOMAIN frame : /\ WellFormed(frame[f]) /\ frame[f].outer \in 0..(f - 1)
                                   /\ Settled(frame[f], Owed(C, B, f))
                                   /\ ~ OnStack(f) => Complete(frame[f], {})
        /\ \A i \in DOMAIN frames : i < Len(frames) => frame[frames[i]].bytecode_size > 0
        /\ \A i \in DOMAIN acts : i > 1 => frame[frames[B[i]]].bytecode_size > 0
        /\ C[N].code # "none" => frame[Top].bytecode_size > 0
    BY <1>2, Zenon DEF Filled
  <2>2. \A f \in 1..q : /\ WellFormed(frame'[f]) /\ frame'[f].outer \in 0..(f - 1)
                        /\ Settled(frame'[f], Owed(D, B, f)')
                        /\ ~ OnStack(f)' => Complete(frame'[f], {})
    <3>1. \A f : OnStack(f) => OnStack(f)'
      BY <1>5, <1>6, <1>7, <1>18 DEF OnStack
    <3>2. \A f \in 1..q : frame'[f] = frame[f]
      BY <1>17
    <3>3. \A f \in 1..q : Settled(frame[f], Owed(D, B, f)')
      BY <1>8, <1>26, <2>1, MoreOwed
    <3> QED
      BY <1>8, <2>1, <3>1, <3>2, <3>3, Zenon
  <2>3. /\ WellFormed(frame'[x]) /\ frame'[x].outer \in 0..(x - 1)
        /\ Settled(frame'[x], Owed(D, B, x)') /\ OnStack(x)'
    <3>1. top \in Nat /\ top \in 1..q /\ q = x - 1
      BY <1>8, <1>11
    <3>2. WellFormed(fresh) /\ fresh.outer = top /\ \A P : Settled(fresh, P)
      BY <1>4, <3>1, FreshFrame
    <3>3. OnStack(x)'
      BY <1>5, <1>6, <1>7, <1>18 DEF OnStack
    <3>4. top \in 0..(x - 1)
      BY <3>1
    <3> QED
      BY <1>17, <3>2, <3>3, <3>4
  <2>4. \A f \in DOMAIN frame' : /\ WellFormed(frame'[f]) /\ frame'[f].outer \in 0..(f - 1)
                                 /\ Settled(frame'[f], Owed(D, B, f)')
                                 /\ ~ OnStack(f)' => Complete(frame'[f], {})
    <3>1. \A f \in DOMAIN frame' : f \in 1..q \/ f = x
      BY <1>8, <1>11, <1>17
    <3> QED
      BY <2>2, <2>3, <3>1
  <2>5. \A i \in DOMAIN frames' : i < Len(frames') => frame'[frames'[i]].bytecode_size > 0
    <3>1. \A i \in 1..size : frame[frames[i]].bytecode_size > 0
      <4>1. frame[frames[size]].bytecode_size > 0
        BY <1>3, <1>8, <1>10, <2>1
      <4> QED
        BY <1>4, <1>5, <2>1, <4>1
    <3>2. \A i \in 1..size : frame'[frames'[i]] = frame[frames[i]]
      BY <1>17, <1>18, <1>19
    <3>3. \A i \in DOMAIN frames' : i < Len(frames') => i \in 1..size
      BY <1>5, <1>6, <1>7, <1>18
    <3> QED
      BY <3>1, <3>2, <3>3
  <2>6. \A i \in DOMAIN acts' : i > 1 => frame'[frames'[B[i]]].bytecode_size > 0
    <3>1. \A i \in 1..n : frame'[frames'[B[i]]] = frame[frames[B[i]]]
      <4>1. \A i \in 1..n : 0 \in 0..C[i].depth /\ B[i] + 0 = B[i]
        BY <1>9
      <4> QED
        BY <1>24, <4>1
    <3> QED
      BY <1>5, <1>16, <2>1, <3>1
  <2>7. acts' # <<>> /\ D[N'].code = "none"
    BY <1>5, <1>13, <1>16, <1>21
  <2> QED
    BY <1>17, <2>4, <2>5, <2>6, <2>7 DEF Filled
<1>28. UnitOK' /\ StatusOK'
  <2>1. UnitOK'
    BY <1>1, <1>2, <1>8, <1>17, UnitMore
  <2>2. acts' # <<>>
    BY <1>5, <1>16
  <2> QED
    BY <1>1, <1>2, <2>1, <2>2 DEF StatusOK
<1> QED
  BY <1>22, <1>23, <1>25, <1>27, <1>28, Zenon DEF IInv, Inv


LEMMA CompleteSettles ==
  ASSUME NEW r, NEW P, Complete(r, {})
  PROVE  Settled(r, P)
BY DEF Complete, Settled, Lands

(* A frame is popped: no jump in it waits for a label, so that it is complete. *)
LEMMA PopFrameStep ==
  ASSUME NEW C, NEW B, NEW V, IInv(C, B, V), PopFrame
  PROVE  Inv'
<1>1. /\ status = "compiling" /\ Op.op = "popframe"
      /\ frame' = frame /\ frames' = SubSeq(frames, 1, Len(frames) - 1)
      /\ Resume(Tail(Act.todo), loc, lab)
      /\ cu' = cu /\ calls' = calls /\ status' = status
  BY DEF PopFrame, Does, Proceed, Continue
<1>2. /\ Stacked(C, B) /\ Judged(C, V) /\ Active(C, B) /\ Filled(C, B) /\ UnitOK /\ StatusOK
      /\ acts # <<>>
  BY <1>1 DEF IInv, StatusOK
<1>3. PICK n, c, t, top, q : n = N /\ c = C[n] /\ t = Tail(Act.todo) /\ top = Top /\ q = Len(frame)
  OBVIOUS
<1>4. PICK d, size, bn : d = c.depth /\ size = Len(frames) /\ bn = B[n]
  OBVIOUS
<1>5. /\ n \in Nat /\ n >= 1 /\ DOMAIN acts = 1..n /\ n \in DOMAIN acts
      /\ Act = acts[n] /\ IsAct(acts[n]) /\ loc = acts[n].loc /\ lab = acts[n].lab /\ IsContext(c)
  BY <1>2, <1>3, Running
<1>6. c.depth > 0 /\ c.code = "ended" /\ NonePending(c)
  BY <1>1, <1>3, Discipline, Zenon DEF Constrained
<1>7. d \in Nat /\ bn \in Nat /\ bn > 0
  BY <1>2, <1>3, <1>4, Running
<1>8. PICK e, z : e = d - 1 /\ z = size - 1
  OBVIOUS
<1>9. /\ d > 0 /\ e \in Nat /\ d = e + 1 /\ size = bn + d /\ size \in Nat /\ z = bn + e
      /\ z \in Nat /\ z >= 1 /\ bn <= z /\ size = z + 1 /\ DOMAIN frames = 1..size
  <2>1. size = bn + d /\ DOMAIN frames = 1..size
    BY <1>2, <1>3, <1>4, Running
  <2>2. d > 0
    BY <1>4, <1>6
  <2> QED
    BY <1>7, <1>8, <2>1, <2>2
<1>10. top = frames[size] /\ top \in DOMAIN frame /\ q \in Nat /\ DOMAIN frame = 1..q /\ IsSeq(frame)
  <2>1. Top = frames[bn + d] /\ Top \in DOMAIN frame
    BY <1>2, <1>3, <1>4, Running
  <2>2. IsSeq(frame)
    BY <1>2, Zenon DEF Filled
  <2> QED
    BY <1>3, <1>9, <2>1, <2>2, SeqFields
<1>11. \A i \in 1..n : /\ IsAct(acts[i]) /\ IsContext(C[i]) /\ C[i].depth \in Nat /\ B[i] \in Nat
                       /\ B[i] > 0 /\ (i # n => B[i] + C[i].depth <= bn)
  <2>1. \A i \in DOMAIN acts : IsAct(acts[i]) /\ IsContext(C[i])
    BY <1>2, Zenon DEF Stacked
  <2>2. \A i \in DOMAIN acts : /\ C[i].depth \in Nat /\ B[i] \in Nat /\ B[i] > 0
                               /\ (i # n => B[i] + C[i].depth <= bn)
    BY <1>2, <1>3, <1>4, Running
  <2> QED
    BY <1>5, <2>1, <2>2
<1>12. PICK h : h = Closes(c)
  OBVIOUS
<1>13. <<t, h>> \in Typings[V[n]] /\ V[n] \in DOMAIN Typings
  <2>1. <<Tail(Act.todo), Closes(C[N])>> \in Onward(Act.todo, C[N])
    BY <1>1, Zenon DEF Onward, Op
  <2> QED
    BY <1>1, <1>3, <1>12, <2>1, Discipline
<1>14. /\ IsContext(h) /\ h.of = c.of /\ h.depth = e /\ h.ret = c.ret /\ h.code = "some"
       /\ h.kinds = [v \in DOMAIN c.kinds |-> Gone(c.kinds[v], d)]
       /\ h.labels = [l \in DOMAIN c.labels |->
                        IF c.labels[l].level = d THEN Target("dead", d) ELSE c.labels[l]]
  BY <1>4, <1>5, <1>6, <1>8, <1>12, ClosesContext
<1>15. PICK b : b = Resumed(acts[n], t, loc, lab)
  OBVIOUS
<1>16. /\ IsAct(b) /\ b.todo = t /\ b.loc = loc /\ b.lab = lab
       /\ b.dst = acts[n].dst /\ b.id = acts[n].id
  BY <1>5, <1>15, ActFields
<1>17. /\ IsSeq(acts') /\ N' = n /\ DOMAIN acts' = 1..n /\ acts'[n] = b
       /\ \A i \in 1..n : i # n => acts'[i] = acts[i]
  <2>1. acts' = Put(acts, n, b)
    BY <1>1, <1>3, <1>5, <1>15 DEF Resume, Put, Resumed, N
  <2>2. IsSeq(acts) /\ n \in DOMAIN acts
    BY <1>2, <1>5, Zenon DEF Stacked
  <2>3. /\ IsSeq(acts') /\ Len(acts') = Len(acts) /\ DOMAIN acts' = DOMAIN acts /\ acts'[n] = b
        /\ \A i \in DOMAIN acts : i # n => acts'[i] = acts[i]
    BY <2>1, <2>2, Replaced
  <2> QED
    BY <1>3, <1>5, <2>3, Zenon DEF N
<1>18. /\ frames' \in Seq(Nat) /\ Len(frames') = z /\ DOMAIN frames' = 1..z
       /\ \A i \in 1..z : frames'[i] = frames[i] /\ i \in 1..size /\ i < size
       /\ Top' = frames[z]
  <2>1. frames \in Seq(Nat)
    BY <1>2, Zenon DEF Stacked
  <2>2. IsSeq(frames) /\ frames # <<>>
    BY <1>4, <1>9, <2>1 DEF IsSeq
  <2>3. PICK rest : rest = SubSeq(frames, 1, Len(frames) - 1)
    OBVIOUS
  <2>4. Len(rest) = z /\ DOMAIN rest = 1..z /\ \A i \in 1..z : rest[i] = frames[i]
    BY <1>4, <1>8, <2>2, <2>3, FrontSeq
  <2>5. frames' = rest
    BY <1>1, <2>3
  <2>6. \A i \in 1..z : i \in 1..size /\ i < size
    BY <1>9
  <2>7. frames' \in Seq(Nat)
    BY <1>4, <1>8, <1>9, <2>1, <2>3, <2>5, SubSeqProperties, SMTT(30)
  <2>8. z \in 1..z
    BY <1>9
  <2> QED
    BY <2>4, <2>5, <2>6, <2>7, <2>8 DEF Top
<1>19. \A i \in 1..size : frames[i] \in DOMAIN frame
  BY <1>2, <1>9, Zenon DEF Stacked
<1>20. PICK D : D = [C EXCEPT ![n] = h]
  OBVIOUS
<1>21. /\ DOMAIN D = 1..n /\ D[n] = h /\ \A i \in 1..n : i # n => D[i] = C[i]
       /\ \A i \in 1..n : D[i].ret = C[i].ret /\ D[i].of = C[i].of /\ IsContext(D[i])
  <2>1. DOMAIN C = 1..n
    BY <1>2, <1>5, Zenon DEF Stacked
  <2>2. DOMAIN D = 1..n /\ D[n] = h /\ \A i \in 1..n : i # n => D[i] = C[i]
    BY <1>5, <1>20, <2>1
  <2> QED
    BY <1>3, <1>11, <1>14, <2>2
<1>22. Stacked(D, B)'
  <2>1. frames' \in Seq(Nat) /\ Len(frames') >= 1 /\ frames'[1] = 1
    <3>1. frames[1] = 1
      BY <1>2, Zenon DEF Stacked
    <3>2. 1 \in 1..z
      BY <1>9
    <3> QED
      BY <1>9, <1>18, <3>1, <3>2
  <2>2. \A i \in DOMAIN frames' : frames'[i] \in DOMAIN frame'
    BY <1>1, <1>18, <1>19
  <2>3. \A i, j \in DOMAIN frames' : i < j => frames'[i] < frames'[j]
    <3>1. \A i, j \in DOMAIN frames : i < j => frames[i] < frames[j]
      BY <1>2, Zenon DEF Stacked
    <3> QED
      BY <1>9, <1>18, <3>1
  <2>4. B[1] = 1 /\ acts' # <<>> /\ Len(frames') = B[N'] + D[N'].depth /\ DOMAIN B = DOMAIN acts'
    <3>1. B[1] = 1 /\ DOMAIN B = DOMAIN acts
      BY <1>2, Zenon DEF Stacked
    <3>2. acts' # <<>>
      BY <1>5, <1>17
    <3>3. Len(frames') = bn + e
      BY <1>9, <1>18
    <3> QED
      BY <1>4, <1>5, <1>14, <1>17, <1>21, <3>1, <3>2, <3>3, Zenon
  <2>5. \A i \in DOMAIN acts : /\ IsAct(acts[i]) /\ IsContext(C[i]) /\ B[i] \in Nat \ {0}
                               /\ C[i].of = "program" <=> i = 1
                               /\ acts[i].id <= calls
    BY <1>2, Zenon DEF Stacked
  <2>6. \A i \in 1..n : acts'[i].id = acts[i].id /\ IsAct(acts'[i])
    BY <1>5, <1>11, <1>16, <1>17
  <2>7. \A i \in DOMAIN acts' : /\ IsAct(acts'[i]) /\ IsContext(D[i]) /\ B[i] \in Nat \ {0}
                                /\ D[i].of = "program" <=> i = 1
                                /\ acts'[i].id <= calls'
    BY <1>1, <1>5, <1>17, <1>21, <2>5, <2>6, ZenonT(30)
  <2>8. \A i, j \in DOMAIN acts' : i < j => B[i] + D[i].depth <= B[j]
    <3>1. \A i, j \in DOMAIN acts : i < j => B[i] + C[i].depth <= B[j]
      BY <1>2, Zenon DEF Stacked
    <3>2. \A i, j \in 1..n : i < j => i # n
      BY <1>5
    <3> QED
      BY <1>5, <1>17, <1>21, <3>1, <3>2
  <2>9. \A i, j \in DOMAIN acts' : j = i + 1 => B[j] = B[i] + D[i].depth
    <3>1. \A i, j \in DOMAIN acts : j = i + 1 => B[j] = B[i] + C[i].depth
      BY <1>2, Zenon DEF Stacked
    <3>2. \A i, j \in 1..n : j = i + 1 => i # n
      BY <1>5
    <3> QED
      BY <1>5, <1>17, <1>21, <3>1, <3>2
  <2> QED
    BY <1>17, <1>21, <2>1, <2>2, <2>3, <2>4, <2>7, <2>8, <2>9, Zenon DEF Stacked
<1>23. Judged(D, V)'
  <2>1. \A i \in DOMAIN acts' : V[i] \in DOMAIN Typings
    <3>1. \A i \in DOMAIN acts : V[i] \in DOMAIN Typings
      BY <1>2, Zenon DEF Judged
    <3> QED
      BY <1>5, <1>17, <3>1
  <2>2. \A i, j \in DOMAIN acts : j = i + 1 =>
          /\ IsFreeVariable(acts[j].dst) /\ NoneHere(C[i].kinds, C[i].depth) /\ C[i].code # "ended"
          /\ \A k \in C[j].ret :
               /\ Givable(k)
               /\ <<acts[i].todo, Gets(C[i], acts[j].dst, Given(C[i], k))>> \in Typings[V[i]]
    BY <1>2, Zenon DEF Judged
  <2>3. <<Act'.todo, D[N']>> \in Typings[V[N']]
    <3>1. Act' = b /\ D[N'] = h /\ N' = n
      BY <1>17, <1>21 DEF Act, N
    <3> QED
      BY <1>13, <1>16, <3>1
  <2>4. \A i, j \in DOMAIN acts' : j = i + 1 =>
          /\ IsFreeVariable(acts'[j].dst) /\ NoneHere(D[i].kinds, D[i].depth) /\ D[i].code # "ended"
          /\ \A k \in D[j].ret :
               /\ Givable(k)
               /\ <<acts'[i].todo, Gets(D[i], acts'[j].dst, Given(D[i], k))>> \in Typings[V[i]]
    <3> SUFFICES ASSUME NEW i \in 1..n, NEW j \in 1..n, j = i + 1
                 PROVE  /\ IsFreeVariable(acts'[j].dst) /\ NoneHere(D[i].kinds, D[i].depth)
                        /\ D[i].code # "ended"
                        /\ \A k \in D[j].ret :
                             /\ Givable(k)
                             /\ <<acts'[i].todo, Gets(D[i], acts'[j].dst, Given(D[i], k))>>
                                  \in Typings[V[i]]
      BY <1>17
    <3>1. i # n
      BY <1>5
    <3>2. acts'[i] = acts[i] /\ D[i] = C[i] /\ D[j].ret = C[j].ret
      BY <1>17, <1>21, <3>1
    <3>3. acts'[j].dst = acts[j].dst
      BY <1>16, <1>17
    <3> QED
      BY <1>5, <2>2, <3>2, <3>3
  <2> QED
    BY <2>1, <2>3, <2>4, Zenon DEF Judged
<1>24. \A i \in 1..n : \A l \in 0..D[i].depth :
         l \in 0..C[i].depth /\ B[i] + l \in 1..z /\ frames'[B[i] + l] = frames[B[i] + l]
  <2>1. \A l \in 0..e : l \in 0..d /\ bn + l \in 1..z /\ frames'[bn + l] = frames[bn + l]
    <3>1. \A l \in 0..e : l \in 0..d /\ bn + l \in 1..z
      BY <1>7, <1>9
    <3> QED
      BY <1>18, <3>1, Zenon
  <2>2. ASSUME NEW i \in 1..n, i # n
        PROVE  \A l \in 0..C[i].depth : B[i] + l \in 1..z /\ frames'[B[i] + l] = frames[B[i] + l]
    <3>1. PICK x, y : x = B[i] /\ y = C[i].depth
      OBVIOUS
    <3>2. y \in Nat /\ x \in Nat /\ x > 0 /\ x + y <= bn
      BY <1>11, <2>2, <3>1
    <3>3. bn <= z /\ z \in Nat /\ bn \in Nat
      BY <1>7, <1>9, Zenon
    <3>4. \A l \in 0..y : x + l \in 1..z
      BY <3>2, <3>3
    <3> QED
      BY <1>18, <3>1, <3>4
  <2> QED
    BY <1>3, <1>4, <1>14, <1>21, <2>1, <2>2
<1>25. Active(D, B)'
  <2>1. \A i \in DOMAIN acts :
          /\ Values(acts[i].loc, C[i].kinds, Levels(B[i], C[i].depth), C[i].depth, Len(frame))
          /\ Labels(acts[i].lab, C[i].labels, Levels(B[i], C[i].depth), C[i].depth)
    BY <1>2, Zenon DEF Active
  <2>2. ASSUME NEW i \in 1..n, i # n
        PROVE  /\ Values(acts'[i].loc, D[i].kinds, Levels(B[i], D[i].depth)', D[i].depth, Len(frame'))
               /\ Labels(acts'[i].lab, D[i].labels, Levels(B[i], D[i].depth)', D[i].depth)
    <3>1. acts'[i] = acts[i] /\ D[i] = C[i] /\ i \in DOMAIN acts
      BY <1>5, <1>17, <1>21, <2>2
    <3>2. Levels(B[i], D[i].depth)' = Levels(B[i], C[i].depth)
      <4>1. \A l \in 0..C[i].depth : frame'[frames'[B[i] + l]] = frame[frames[B[i] + l]]
        BY <1>1, <1>24, <3>1
      <4> QED
        BY <3>1, <4>1 DEF Levels
    <3> QED
      BY <1>1, <2>1, <3>1, <3>2
  <2>3. /\ Values(acts'[n].loc, D[n].kinds, Levels(B[n], D[n].depth)', D[n].depth, Len(frame'))
        /\ Labels(acts'[n].lab, D[n].labels, Levels(B[n], D[n].depth)', D[n].depth)
    <3>1. PICK S, T : S = Levels(bn, d) /\ T = Levels(bn, e)'
      OBVIOUS
    <3>2. \A l \in 0..e : T[l] = S[l]
      <4>1. \A l \in 0..d : S[l] = frame[frames[bn + l]]
        BY <3>1 DEF Levels
      <4>2. \A l \in 0..e : T[l] = frame'[frames'[bn + l]]
        BY <3>1 DEF Levels
      <4>3. \A l \in 0..e : l \in 0..d /\ frames'[bn + l] = frames[bn + l]
        BY <1>3, <1>4, <1>5, <1>14, <1>21, <1>24
      <4> QED
        BY <1>1, <4>1, <4>2, <4>3
    <3>3. Values(loc, c.kinds, S, d, q) /\ Labels(lab, c.labels, S, d)
      BY <1>3, <1>4, <1>5, <2>1, <3>1
    <3>4. d - 1 = e
      BY <1>9
    <3>5. Values(loc, h.kinds, T, e, q)
      BY <1>9, <1>10, <1>14, <3>2, <3>3, <3>4, ValuesGone
    <3>6. Labels(lab, h.labels, T, e)
      BY <1>9, <1>14, <3>2, <3>3, <3>4, LabelsGone
    <3>7. acts'[n].loc = loc /\ acts'[n].lab = lab /\ D[n] = h /\ h.depth = e /\ Len(frame') = q /\ B[n] = bn
      BY <1>1, <1>3, <1>4, <1>14, <1>16, <1>17, <1>21
    <3> QED
      BY <3>1, <3>5, <3>6, <3>7
  <2>4. \A i \in 1..n :
          /\ Values(acts'[i].loc, D[i].kinds, Levels(B[i], D[i].depth)', D[i].depth, Len(frame'))
          /\ Labels(acts'[i].lab, D[i].labels, Levels(B[i], D[i].depth)', D[i].depth)
    BY <2>2, <2>3
  <2> QED
    BY <1>17, <2>4, Zenon DEF Active
<1>26. ASSUME NEW f, NEW s \in Owed(C, B, f)
       PROVE  f # top /\ s \in Owed(D, B, f)'
  <2>1. s \in Nat /\ \E i \in DOMAIN acts : \E l \in 0..C[i].depth :
          frames[B[i] + l] = f /\ s \in Pending(acts[i].lab, C[i].labels, l)
    BY DEF Owed
  <2>2. PICK i \in 1..n : \E l \in 0..C[i].depth :
          frames[B[i] + l] = f /\ s \in Pending(acts[i].lab, C[i].labels, l)
    BY <1>5, <2>1
  <2>3. PICK l \in 0..C[i].depth : frames[B[i] + l] = f /\ s \in Pending(acts[i].lab, C[i].labels, l)
    BY <2>2
  <2>4. Pending(lab, c.labels, d) = {}
    BY <1>4, <1>6, NothingPending
  <2>5. l \in 0..D[i].depth /\ s \in Pending(acts'[i].lab, D[i].labels, l)
    <3>1. CASE i = n
      <4>1. l \in 0..d /\ s \in Pending(lab, c.labels, l)
        BY <1>3, <1>4, <1>5, <2>3, <3>1
      <4>2. l # d
        BY <2>4, <4>1
      <4>3. l \in 0..e
        BY <1>9, <4>1, <4>2
      <4>4. PICK S, T : S = Levels(bn, d) /\ T = [k \in 0..e |-> S[k]]
        OBVIOUS
      <4>5. Labels(lab, c.labels, S, d)
        BY <1>2, <1>3, <1>4, <1>5, <4>4, Zenon DEF Active
      <4>6. \A k \in 0..(d - 1) : T[k] = S[k] /\ d - 1 = e
        BY <1>9, <4>4
      <4>7. Pending(lab, c.labels, l) \subseteq Pending(lab, h.labels, l)
        <5>1. d \in Nat /\ d > 0 /\ d - 1 = e
          BY <1>9
        <5>2. \A level \in 0..(d - 1) : Pending(lab, c.labels, level) \subseteq Pending(lab, h.labels, level)
          BY <1>14, <4>5, <4>6, <5>1, LabelsGone
        <5> QED
          BY <4>3, <5>1, <5>2
      <4>8. acts'[n].lab = lab /\ D[n] = h /\ h.depth = e
        BY <1>14, <1>16, <1>17, <1>21
      <4> QED
        BY <3>1, <4>1, <4>3, <4>7, <4>8
    <3>2. CASE i # n
      <4>1. acts'[i] = acts[i] /\ D[i] = C[i]
        BY <1>17, <1>21, <3>2
      <4> QED
        BY <2>3, <4>1
    <3> QED
      BY <3>1, <3>2
  <2>6. B[i] + l \in 1..z /\ frames'[B[i] + l] = f
    BY <1>24, <2>3, <2>5
  <2>7. s \in Owed(D, B, f)'
    BY <1>17, <2>1, <2>5, <2>6 DEF Owed
  <2>8. f # top
    <3>1. \A j \in DOMAIN acts : \A m \in 0..C[j].depth : frames[B[j] + m] = Top <=> B[j] + m = Len(frames)
      BY <1>2, Running
    <3>2. B[i] + l # size
      BY <1>9, <2>6
    <3> QED
      BY <1>3, <1>4, <1>5, <2>3, <3>1, <3>2
  <2> QED
    BY <2>7, <2>8
<1>27. Filled(D, B)'
  <2>1. /\ \A f \in DOMAIN frame : /\ WellFormed(frame[f]) /\ frame[f].outer \in 0..(f - 1)
                                   /\ Settled(frame[f], Owed(C, B, f))
                                   /\ ~ OnStack(f) => Complete(frame[f], {})
        /\ \A i \in DOMAIN frames : i < Len(frames) => frame[frames[i]].bytecode_size > 0
        /\ \A i \in DOMAIN acts : i > 1 => frame[frames[B[i]]].bytecode_size > 0
        /\ C[N].code = "ended" => Complete(frame[Top], Owed(C, B, Top))
    BY <1>2, Zenon DEF Filled
  <2>2. Complete(frame[top], {})
    <3>1. Owed(C, B, top) = {}
      BY <1>26
    <3>2. Complete(frame[top], Owed(C, B, top))
      BY <1>3, <1>6, <2>1, Zenon
    <3> QED
      BY <3>1, <3>2
  <2>3. \A f \in DOMAIN frame : ~ OnStack(f)' => Complete(frame[f], {})
    <3>1. ASSUME NEW f \in DOMAIN frame, OnStack(f), ~ OnStack(f)'
          PROVE  f = top
      <4>1. PICK i \in 1..size : frames[i] = f
        BY <1>9, <3>1 DEF OnStack
      <4>2. i \notin 1..z
        BY <1>18, <3>1, <4>1 DEF OnStack
      <4>3. i = size
        BY <1>9, <4>1, <4>2
      <4> QED
        BY <1>10, <4>1, <4>3
    <3> QED
      BY <2>1, <2>2, <3>1
  <2>4. \A f \in DOMAIN frame : Settled(frame[f], Owed(D, B, f)')
    <3>1. ASSUME NEW f \in DOMAIN frame, f # top
          PROVE  Settled(frame[f], Owed(D, B, f)')
      <4>1. Owed(C, B, f) \subseteq Owed(D, B, f)'
        BY <1>26
      <4> QED
        BY <2>1, <4>1, MoreOwed
    <3>2. Settled(frame[top], Owed(D, B, top)')
      BY <2>2, CompleteSettles
    <3> QED
      BY <3>1, <3>2
  <2>5. \A f \in DOMAIN frame' : /\ WellFormed(frame'[f]) /\ frame'[f].outer \in 0..(f - 1)
                                 /\ Settled(frame'[f], Owed(D, B, f)')
                                 /\ ~ OnStack(f)' => Complete(frame'[f], {})
    BY <1>1, <2>1, <2>3, <2>4, Zenon
  <2>6. \A i \in 1..z : frame'[frames'[i]].bytecode_size > 0
    BY <1>1, <1>4, <1>9, <1>18, <2>1
  <2>7. \A i \in DOMAIN acts' : i > 1 => frame'[frames'[B[i]]].bytecode_size > 0
    <3>1. \A i \in 1..n : B[i] \in 1..z
      <4>1. bn \in 1..z
        BY <1>7, <1>9
      <4>2. ASSUME NEW i \in 1..n, i # n
            PROVE  B[i] \in 1..z
        <5>1. PICK x, y : x = B[i] /\ y = C[i].depth
          OBVIOUS
        <5>2. y \in Nat /\ x \in Nat /\ x > 0 /\ x + y <= bn
          BY <1>11, <4>2, <5>1
        <5>3. bn <= z /\ z \in Nat /\ bn \in Nat
          BY <1>7, <1>9, Zenon
        <5>4. x \in 1..z
          BY <5>2, <5>3
        <5> QED
          BY <5>1, <5>4
      <4> QED
        BY <1>4, <4>1, <4>2
    <3> QED
      BY <1>17, <2>6, <3>1
  <2>8. acts' # <<>> /\ D[N'].code = "some" /\ frame'[Top'].bytecode_size > 0
    <3>1. z \in 1..z
      BY <1>9
    <3>2. frame'[Top'].bytecode_size > 0
      BY <1>18, <2>6, <3>1
    <3> QED
      BY <1>5, <1>14, <1>17, <1>21, <3>2
  <2> QED
    BY <1>1, <1>10, <1>18, <2>5, <2>6, <2>7, <2>8 DEF Filled
<1>28. UnitOK' /\ StatusOK'
  <2>1. UnitOK'
    BY <1>1, <1>2 DEF UnitOK, MethodsIn
  <2>2. acts' # <<>>
    BY <1>5, <1>17
  <2> QED
    BY <1>1, <1>2, <2>1, <2>2 DEF StatusOK
<1> QED
  BY <1>22, <1>23, <1>25, <1>27, <1>28, Zenon DEF IInv, Inv


LEMMA Singleton ==
  ASSUME NEW e
  PROVE  /\ IsSeq(<<e>>) /\ Len(<<e>>) = 1 /\ DOMAIN <<e>> = {1} /\ <<e>>[1] = e /\ <<e>> # <<>>
<1>1. <<e>> \in Seq({e})
  OBVIOUS
<1>2. IsSeq(<<e>>)
  BY <1>1, Zenon DEF IsSeq
<1>3. Len(<<e>>) = 1 /\ <<e>>[1] = e /\ <<e>> # <<>>
  OBVIOUS
<1>4. DOMAIN <<e>> = {1}
  BY <1>2, <1>3, SeqFields
<1> QED
  BY <1>2, <1>3, <1>4

(* Nothing is compiled: the program's own handler is about to start.           *)
LEMMA InitInv ==
  ASSUME Init
  PROVE  Inv
<1>1. /\ program \in Programs /\ frame = <<NewFrame(0)>> /\ frames = <<1>>
      /\ cu = EmptyUnit /\ acts = <<Activation(MainScript(program), "void", 0)>>
      /\ calls = 0 /\ status = "compiling"
  BY DEF Init
<1>2. PICK p, a, r, c : /\ p = program /\ a = Activation(MainScript(program), "void", 0)
                        /\ r = NewFrame(0) /\ c = MainStart
  OBVIOUS
<1>3. PICK C, B, V : C = <<c>> /\ B = <<1>> /\ V = <<p>>
  OBVIOUS
<1>4. /\ frame = <<r>> /\ acts = <<a>> /\ IsAct(a) /\ a.todo = MainScript(p) /\ a.id = 0 /\ a.lab = <<>>
      /\ a.loc = [UNKNOWN_REG |-> UNKNOWN_REG, zero |-> 0]
  BY <1>1, <1>2, NewActivation
<1>5. /\ IsContext(c) /\ c.of = "program" /\ c.depth = 0 /\ c.code = "none" /\ c.labels = <<>>
      /\ c.kinds = [UNKNOWN_REG |-> Unknown, zero |-> Integer]
  BY <1>2, StartContext
<1>6. /\ DOMAIN acts = {1} /\ Len(acts) = 1 /\ acts[1] = a /\ acts # <<>> /\ N = 1
      /\ IsSeq(acts) /\ Act = a
  BY <1>4, Singleton DEF N, Act
<1>7. /\ DOMAIN frame = {1} /\ Len(frame) = 1 /\ frame[1] = r /\ IsSeq(frame)
  BY <1>4, Singleton
<1>8. /\ DOMAIN frames = {1} /\ Len(frames) = 1 /\ frames[1] = 1 /\ frames \in Seq(Nat) /\ Top = 1
  BY <1>1 DEF Top
<1>9. /\ DOMAIN C = {1} /\ DOMAIN B = {1} /\ DOMAIN V = {1} /\ C[1] = c /\ B[1] = 1 /\ V[1] = p
  BY <1>3
<1>10. WellFormed(r) /\ r.outer = 0 /\ \A P : Settled(r, P)
  BY <1>2, FreshFrame
<1>11. Stacked(C, B)
  <2>1. /\ \A i \in DOMAIN frames : frames[i] \in DOMAIN frame
        /\ \A i, j \in DOMAIN frames : i < j => frames[i] < frames[j]
    BY <1>7, <1>8
  <2>2. Len(frames) = B[N] + C[N].depth
    BY <1>5, <1>6, <1>8, <1>9
  <2>3. \A i \in DOMAIN acts : /\ IsAct(acts[i]) /\ IsContext(C[i]) /\ B[i] \in Nat \ {0}
                               /\ C[i].of = "program" <=> i = 1
                               /\ acts[i].id <= calls
    BY <1>1, <1>4, <1>5, <1>6, <1>9
  <2>4. /\ \A i, j \in DOMAIN acts : i < j => B[i] + C[i].depth <= B[j]
        /\ \A i, j \in DOMAIN acts : j = i + 1 => B[j] = B[i] + C[i].depth
    BY <1>6
  <2>5. Len(frames) >= 1
    BY <1>8
  <2> QED
    BY <1>6, <1>8, <1>9, <2>1, <2>2, <2>3, <2>4, <2>5, Zenon DEF Stacked
<1>12. Judged(C, V)
  <2>1. TypesProgram(Typings, p)
    BY <1>1, <1>2, TypingAssumption, Zenon DEF Covers
  <2>2. p \in DOMAIN Typings /\ <<a.todo, c>> \in Typings[p]
    BY <1>2, <1>4, <2>1 DEF TypesProgram
  <2>3. \A i, j \in DOMAIN acts : j # i + 1
    BY <1>6
  <2> QED
    BY <1>6, <1>9, <2>2, <2>3, Zenon DEF Judged
<1>13. Active(C, B)
  <2>1. /\ Values(a.loc, c.kinds, Levels(1, 0), 0, Len(frame))
        /\ Labels(a.lab, c.labels, Levels(1, 0), 0)
    BY <1>4, <1>5, StartValues
  <2> QED
    BY <1>5, <1>6, <1>9, <2>1 DEF Active
<1>14. Filled(C, B)
  <2>1. \A f \in DOMAIN frame : /\ WellFormed(frame[f]) /\ frame[f].outer \in 0..(f - 1)
                                /\ Settled(frame[f], Owed(C, B, f)) /\ OnStack(f)
    BY <1>7, <1>8, <1>10 DEF OnStack
  <2>2. \A i \in DOMAIN frames : ~ (i < Len(frames))
    BY <1>8
  <2>3. \A i \in DOMAIN acts : ~ (i > 1)
    BY <1>6
  <2>4. C[N].code = "none"
    BY <1>5, <1>6, <1>9
  <2> QED
    BY <1>6, <1>7, <2>1, <2>2, <2>3, <2>4 DEF Filled
<1>15. UnitOK /\ StatusOK
  <2>1. UnitOK
    <3>1. PICK k : k = Clargs
      OBVIOUS
    <3>2. cu.scs = <<k>> /\ cu.current_class_how = 0
      BY <1>1, <3>1 DEF EmptyUnit
    <3>3. cu \in [callsites : Seq(Seq(RegTypes)), max_callsite_size : Nat,
                  scs : {cu.scs}, current_class_how : Nat]
      BY <1>1 DEF EmptyUnit
    <3>4. IsObject(k) /\ k.methods = <<>>
      BY <3>1 DEF IsObject, Clargs
    <3>5. IsSeq(cu.scs) /\ DOMAIN cu.scs = {1} /\ cu.scs[1] = k
      BY <3>2, Singleton
    <3>6. MethodsIn(cu.scs, DOMAIN frame)
      BY <3>4, <3>5 DEF MethodsIn
    <3> QED
      BY <3>2, <3>3, <3>4, <3>5, <3>6 DEF UnitOK
  <2>2. StatusOK
    BY <1>1, <1>6 DEF StatusOK
  <2> QED
    BY <2>1, <2>2
<1> QED
  BY <1>11, <1>12, <1>13, <1>14, <1>15, Zenon DEF IInv, Inv

(* Every step keeps the invariant, with the contexts it leaves.               *)
LEMMA NextInv ==
  ASSUME Inv, [Next]_vars
  PROVE  Inv'
<1>1. PICK C, B, V : IInv(C, B, V)
  BY DEF Inv
<1>2. CASE UNCHANGED vars
  <2>1. UNCHANGED <<frame, frames, cu, acts, calls>> /\ StatusOK'
    BY <1>1, <1>2 DEF vars, IInv, StatusOK
  <2> QED
    BY <1>1, <2>1, Unchanged
<1>3. CASE Terminated
  BY <1>2, <1>3 DEF Terminated
<1>4. CASE Step
  <2>1. CASE Child
    BY <1>1, <2>1, ChildStep
  <2>2. CASE Return
    BY <1>1, <2>2, ReturnStep
  <2>3. CASE Set
    BY <1>1, <2>3, SetStep
  <2>4. CASE Narrow
    BY <1>1, <2>4, NarrowStep
  <2>5. CASE Switch
    BY <1>1, <2>5, SwitchStep
  <2>6. CASE IfUnknown
    BY <1>1, <2>6, IfUnknownStep
  <2>7. CASE AssertType
    BY <1>1, <2>7, AssertTypeStep
  <2>8. CASE Die
    BY <1>1, <2>8, DieStep
  <2>9. CASE PushLocal
    BY <1>1, <2>9, PushLocalStep
  <2>10. CASE PushLexical
    BY <1>1, <2>10, PushLexicalStep
  <2>11. CASE PushPackageVariable
    BY <1>1, <2>11, PushPackageVariableStep
  <2>12. CASE FindName
    BY <1>1, <2>12, FindNameStep
  <2>13. CASE AccessLexical
    BY <1>1, <2>13, AccessLexicalStep
  <2>14. CASE Emit
    BY <1>1, <2>14, EmitOpStep
  <2>15. CASE GetCode
    BY <1>1, <2>15, GetCodeStep
  <2>16. CASE PatchCode
    BY <1>1, <2>16, PatchCodeStep
  <2>17. CASE PushFrame
    BY <1>1, <2>17, PushFrameStep
  <2>18. CASE PopFrame
    BY <1>1, <2>18, PopFrameStep
  <2>19. CASE Goto
    BY <1>1, <2>19, GotoStep
  <2>20. CASE Branch
    BY <1>1, <2>20, BranchStep
  <2>21. CASE ParamOptional
    BY <1>1, <2>21, ParamOptionalStep
  <2>22. CASE PutLabel
    BY <1>1, <2>22, PutLabelStep
  <2>23. CASE LoopEnter
    BY <1>1, <2>23, LoopEnterStep
  <2>24. CASE LoopMark
    BY <1>1, <2>24, LoopMarkStep
  <2>25. CASE LoopLeave
    BY <1>1, <2>25, LoopLeaveStep
  <2>26. CASE Throw
    BY <1>1, <2>26, ThrowStep
  <2>27. CASE PrepArgs
    BY <1>1, <2>27, PrepArgsStep
  <2>28. CASE OpenClass
    BY <1>1, <2>28, OpenClassStep
  <2>29. CASE CloseClass
    BY <1>1, <2>29, CloseClassStep
  <2>30. CASE BindMethod
    BY <1>1, <2>30, BindMethodStep
  <2>31. CASE Wval
    BY <1>1, <2>31, WvalStep
  <2>32. CASE Finalize
    BY <1>1, <2>32, FinalizeStep
  <2> QED
    BY <1>4, <2>1, <2>2, <2>3, <2>4, <2>5, <2>6, <2>7, <2>8, <2>9, <2>10, <2>11, <2>12, <2>13,
       <2>14, <2>15, <2>16, <2>17, <2>18, <2>19, <2>20, <2>21, <2>22, <2>23, <2>24, <2>25,
       <2>26, <2>27, <2>28, <2>29, <2>30, <2>31, <2>32 DEF Step
<1> QED
  BY <1>2, <1>3, <1>4 DEF Next

(* Inv holds in every state of a compilation, of any programs whose handlers   *)
(* keep the discipline of module Typing.                                    *)
THEOREM Invariance == Spec => []Inv
<1>1. Init => Inv
  BY InitInv
<1>2. Inv /\ [Next]_vars => Inv'
  BY NextInv
<1> QED
  BY <1>1, <1>2, PTL DEF Spec
-----------------------------------------------------------------------------
(* What the invariant says of the properties of module Codegen.               *)

LEMMA SeqOver ==
  ASSUME NEW s, IsSeq(s), NEW S, \A i \in DOMAIN s : s[i] \in S
  PROVE  s \in Seq(S)
<1>1. PICK T : s \in Seq(T)
  BY DEF IsSeq
<1>2. PICK n \in Nat : s \in [1..n -> T]
  BY <1>1, SeqDef
<1>3. s \in [1..n -> S]
  BY <1>2
<1> QED
  BY <1>3, SeqDef

LEMMA FinishedComplete ==
  ASSUME Inv, NEW f \in DOMAIN frame, Finished(f)
  PROVE  Complete(frame[f], {}) /\ WellFormed(frame[f])
<1>1. PICK C, B, V : IInv(C, B, V)
  BY DEF Inv
<1>2. Stacked(C, B) /\ Filled(C, B) /\ StatusOK
  BY <1>1, Zenon DEF IInv
<1>3. /\ WellFormed(frame[f]) /\ (~ OnStack(f) => Complete(frame[f], {}))
      /\ acts = <<>> => Complete(frame[1], {})
  BY <1>2, Zenon DEF Filled
<1>4. CASE ~ OnStack(f)
  BY <1>3, <1>4
<1>5. CASE OnStack(f)
  <2>1. status = "done"
    BY <1>5 DEF Finished, OnStack
  <2>2. acts = <<>>
    BY <1>2, <2>1 DEF StatusOK
  <2>3. frames \in Seq(Nat) /\ Len(frames) = 1 /\ frames[1] = 1
    BY <1>2, <2>2, Zenon DEF Stacked
  <2>4. DOMAIN frames = {1}
    BY <2>3, LenProperties
  <2>5. f = 1
    BY <1>5, <2>3, <2>4 DEF OnStack
  <2> QED
    BY <1>3, <2>2, <2>5
<1> QED
  BY <1>4, <1>5

(* The frames, the stack of frames and the compilation unit stay of their     *)
(* types, the current class and every method's code refer to what is there,  *)
(* and every C local that is read holds a number.                           *)
THEOREM Typed == Spec => []TypeOK
<1>1. Inv => TypeOK
  <2> SUFFICES ASSUME Inv
               PROVE  TypeOK
    OBVIOUS
  <2>1. PICK C, B, V : IInv(C, B, V)
    BY DEF Inv
  <2>2. Stacked(C, B) /\ Active(C, B) /\ Filled(C, B) /\ UnitOK /\ StatusOK
    BY <2>1, Zenon DEF IInv
  <2>3. frame \in Seq(KijiFrame)
    <3>1. IsSeq(frame) /\ \A f \in DOMAIN frame : WellFormed(frame[f])
      BY <2>2, Zenon DEF Filled
    <3> QED
      BY <3>1, IsFrame, SeqOver
  <2>4. frames \in Seq(DOMAIN frame)
    <3>1. frames \in Seq(Nat) /\ \A i \in DOMAIN frames : frames[i] \in DOMAIN frame
      BY <2>2, Zenon DEF Stacked
    <3>2. IsSeq(frames)
      BY <3>1 DEF IsSeq
    <3> QED
      BY <3>1, <3>2, SeqOver
  <2>5. /\ cu.callsites \in Seq(Seq(RegTypes)) /\ cu.max_callsite_size \in Nat
        /\ cu.current_class_how \in {0} \cup {i \in DOMAIN cu.scs : cu.scs[i].class}
        /\ \A i \in DOMAIN cu.scs : \A m \in DOMAIN cu.scs[i].methods :
             cu.scs[i].methods[m] \in DOMAIN frame
    <3>1. cu.callsites \in Seq(Seq(RegTypes)) /\ cu.max_callsite_size \in Nat
      BY <2>2, UnitFields
    <3>2. cu.current_class_how \in {0} \cup Classes(cu.scs) /\ MethodsIn(cu.scs, DOMAIN frame)
      BY <2>2, Zenon DEF UnitOK
    <3> QED
      BY <3>1, <3>2, Zenon DEF Classes, MethodsIn
  <2>6. \A i \in DOMAIN acts : /\ \A v \in DOMAIN acts[i].loc : acts[i].loc[v] \in Int
                               /\ acts[i].id <= calls
    <3>1. \A i \in DOMAIN acts :
            Values(acts[i].loc, C[i].kinds, Levels(B[i], C[i].depth), C[i].depth, Len(frame))
      BY <2>2, Zenon DEF Active
    <3>2. \A i \in DOMAIN acts : acts[i].id <= calls
      BY <2>2, Zenon DEF Stacked
    <3> QED
      BY <3>1, <3>2, Zenon DEF Values, FitsIn
  <2>7. calls \in Nat /\ status \in {"compiling", "done", "assert", "abort", "panic", "exit"}
    BY <2>2 DEF StatusOK
  <2> QED
    BY <2>3, <2>4, <2>5, <2>6, <2>7, Zenon DEF TypeOK
<1> QED
  BY <1>1, Invariance, PTL

(* Every register of an instruction is a local of its own frame, of the type   *)
(* the instruction takes there.                                             *)
THEOREM RegistersAreTyped == Spec => []RegistersTyped
<1>1. Inv => RegistersTyped
  <2> SUFFICES ASSUME Inv, NEW f \in DOMAIN frame, Finished(f), NEW i \in DOMAIN frame[f].code
               PROVE  LET in == frame[f].code[i] IN
                      /\ \A j \in DOMAIN in.args : in.args[j] \in 0..(Len(frame[f].locals) - 1)
                      /\ [j \in DOMAIN in.args |-> frame[f].locals[in.args[j] + 1]] \in Operands(in.op)
    BY DEF RegistersTyped
  <2>1. WellFormed(frame[f])
    BY FinishedComplete
  <2>2. Fits(frame[f], frame[f].code[i])
    BY <2>1, Zenon DEF WellFormed, Fitting
  <2> QED
    BY <2>2, Zenon DEF Fits, IsLocal
<1> QED
  BY <1>1, Invariance, PTL

(* What a backward branch needs: its target is written in 16 bits.            *)
ShortJumps == ForwardOnly \/ \A f \in DOMAIN frame : frame[f].bytecode_size <= Word

(* A finished frame ends with a return, and its jumps land on instructions,   *)
(* unless a conditional jump goes back in a frame longer than 16 bits count.  *)
THEOREM JumpsAreResolved == Spec => [](ShortJumps => JumpsLand)
<1>1. Inv => (ShortJumps => JumpsLand)
  <2> SUFFICES ASSUME Inv, ShortJumps, NEW f \in DOMAIN frame, Finished(f)
               PROVE  LET code == frame[f].code IN
                      /\ code # <<>> /\ IsReturn(code[Len(code)].op)
                      /\ \A i \in DOMAIN code : IsJump(code[i].op) => IsStart(f, code[i].target)
    BY DEF JumpsLand
  <2>1. Complete(frame[f], {}) /\ Short(frame[f])
    BY FinishedComplete DEF ShortJumps, Short
  <2> QED
    BY <2>1 DEF Complete, Starts, IsStart
<1> QED
  BY <1>1, Invariance, PTL

(* The handlers of a loop resume on instructions: `next' inside it and `last' *)
(* after it.                                                                *)
THEOREM HandlersLand == Spec => []LoopsLand
<1>1. Inv => LoopsLand
  <2> SUFFICES ASSUME Inv, NEW f \in DOMAIN frame, Finished(f), NEW k \in DOMAIN frame[f].handlers,
                      frame[f].handlers[k].category # "redo"
               PROVE  LET h == frame[f].handlers[k] IN
                      /\ IsStart(f, h.goto_offset)
                      /\ Inside(h) <=> h.category = "next"
    BY DEF LoopsLand, Inside
  <2>1. Complete(frame[f], {}) /\ WellFormed(frame[f])
    BY FinishedComplete
  <2>2. Loops(frame[f], frame[f].handlers[k])
    BY <2>1, Zenon DEF WellFormed, Looping
  <2>3. Starts(frame[f], frame[f].handlers[k].goto_offset)
    BY <2>1, Zenon DEF Complete
  <2> QED
    BY <2>2, <2>3, Zenon DEF Loops, Starts, IsStart
<1> QED
  BY <1>1, Invariance, PTL
-----------------------------------------------------------------------------
(* For the proofs that go on from these: the state as values, and what a step *)
(* leaves of the frame on top.                                               *)

(* What holds of the frames fr, the stack fs of their numbers and the          *)
(* activations ac whatever the handlers are.                                  *)
Machine(fr, fs, ac) ==
  /\ IsSeq(fr) /\ \A f \in DOMAIN fr : fr[f] \in KijiFrame
  /\ Len(fs) \in Nat /\ DOMAIN fs = 1..Len(fs)
  /\ \A i \in DOMAIN fs : fs[i] \in DOMAIN fr /\ fs[i] \in Nat
  /\ \A i, j \in DOMAIN fs : i < j => fs[i] < fs[j]
  /\ IsSeq(ac) /\ \A i \in DOMAIN ac : IsAct(ac[i])

LEMMA MachineNow ==
  ASSUME NEW C, NEW B, NEW V, IInv(C, B, V),
         NEW fr, NEW fs, NEW ac, fr = frame, fs = frames, ac = acts
  PROVE  Machine(fr, fs, ac)
<1>1. Stacked(C, B) /\ Filled(C, B)
  BY Zenon DEF IInv
<1>2. IsSeq(frame) /\ \A f \in DOMAIN frame : frame[f] \in KijiFrame
  BY <1>1, IsFrame, Zenon DEF Filled
<1>3. /\ Len(frames) \in Nat /\ DOMAIN frames = 1..Len(frames)
      /\ \A i \in DOMAIN frames : frames[i] \in DOMAIN frame /\ frames[i] \in Nat
  BY <1>1 DEF Stacked
<1>4. \A i, j \in DOMAIN frames : i < j => frames[i] < frames[j]
  BY <1>1, Zenon DEF Stacked
<1>5. IsSeq(acts) /\ \A i \in DOMAIN acts : IsAct(acts[i])
  BY <1>1, Zenon DEF Stacked
<1> QED
  BY <1>2, <1>3, <1>4, <1>5, Zenon DEF Machine

LEMMA ActsSome ==
  ASSUME NEW C, NEW B, NEW V, IInv(C, B, V), status = "compiling"
  PROVE  acts # <<>> /\ frame[Top] \in KijiFrame /\ Top \in DOMAIN frame
BY Now, Discipline

LEMMA AssignKeeps ==
  ASSUME NEW f, NEW v, NEW x, NEW w \in DOMAIN f, w # v
  PROVE  w \in DOMAIN Assign(f, v, x) /\ Assign(f, v, x)[w] = f[w]
BY DEF Assign

(* The frame on top after a step that fills it: what it gets is well formed.  *)
LEMMA FramesThen ==
  ASSUME Inv'
  PROVE  \A f \in DOMAIN frame' : frame'[f] \in KijiFrame
<1>1. PICK C, B, V : IInv(C, B, V)'
  BY Zenon DEF Inv
<1>2. Filled(C, B)'
  BY <1>1, Zenon DEF IInv
<1>3. \A f \in DOMAIN frame' : WellFormed(frame'[f])
  BY <1>2, Zenon DEF Filled
<1> QED
  BY <1>3, IsFrame

LEMMA TopThen ==
  ASSUME NEW C, NEW B, NEW V, IInv(C, B, V), status = "compiling", Inv', NEW r, SetTop(r)
  PROVE  r \in KijiFrame /\ frame[Top] \in KijiFrame
<1>1. frame[Top] \in KijiFrame /\ Top \in DOMAIN frame
  BY ActsSome
<1>2. Top \in DOMAIN frame' /\ frame'[Top] = r
  BY <1>1 DEF SetTop
<1> QED
  BY <1>1, <1>2, FramesThen

Appends(r, s, in) ==
  /\ s.locals = r.locals /\ s.handlers = r.handlers
  /\ Len(s.code) = Len(r.code) + 1 /\ s.code[Len(s.code)] = in
  /\ \A i \in DOMAIN r.code : s.code[i] = r.code[i]

LEMMA AsmAppends ==
  ASSUME NEW r \in KijiFrame, NEW in, NEW imm
  PROVE  Appends(r, Asm(r, in, imm), in)
<1>1. PICK s : s = Asm(r, in, imm)
  OBVIOUS
<1>2. s.code = Append(r.code, in) /\ s.locals = r.locals /\ s.handlers = r.handlers
  BY <1>1 DEF Asm, KijiFrame
<1>3. IsSeq(r.code)
  BY FrameFields DEF IsSeq
<1>4. Appends(r, s, in)
  BY <1>2, <1>3, AppendSeq DEF Appends
<1> QED
  BY <1>1, <1>4

LEMMA SizeNow ==
  ASSUME NEW C, NEW B, NEW V, IInv(C, B, V), status = "compiling"
  PROVE  Size \in Nat
BY Now
=============================================================================
