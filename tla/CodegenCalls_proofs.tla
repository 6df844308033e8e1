------------------------ MODULE CodegenCalls_proofs ------------------------
(***************************************************************************)
(* Proof that an invoke of Codegen finds the arguments of its own call, for  *)
(* every tree, every Word and every set of handlers that keeps the           *)
(* disciplines of modules Typing and Calling.                               *)
(***************************************************************************)
EXTENDS Codegen_proofs, Calling

-----------------------------------------------------------------------------
(* The instructions of a frame record r that write the argument buffer.       *)

InBuffer(op) == IsArgument(op) \/ op = "prepargs"
Plain(in)    == ~ InBuffer(in.op) /\ ~ IsInvoke(in.op)

(* In frame s all that writes the buffer in frame r is as it was.             *)
SameInBuffer(a, b) ==
  b.op = a.op /\ b.by = a.by /\ b.slot = a.slot /\ (InBuffer(a.op) => b.target = a.target)
Lasts(r, s) ==
  /\ Len(r.locals) <= Len(s.locals) /\ \A i \in DOMAIN r.locals : s.locals[i] = r.locals[i]
  /\ Len(r.code) <= Len(s.code) /\ \A i \in DOMAIN r.code : SameInBuffer(r.code[i], s.code[i])
Plainly(r, s) == Lasts(r, s) /\ \A i \in DOMAIN s.code : i \notin DOMAIN r.code => Plain(s.code[i])
Unpatched(r)  == \A i \in DOMAIN r.code : InBuffer(r.code[i].op) => r.code[i].slot = 0

(* Before its instruction k, handler id has written an argument of a type in   *)
(* a slot, and prepared a callsite cs has the flags of; nobody has since.      *)
Last(S, i) == i \in S /\ \A j \in S : j <= i
Preps(r, k)         == {i \in 1..(k - 1) : r.code[i].op = "prepargs"}
Writers(r, k, slot) == {i \in 1..(k - 1) : IsArgument(r.code[i].op) /\ r.code[i].target = slot}
Written(r, k, slot, id, type) ==
  \E w : Last(Writers(r, k, slot), w) /\ r.code[w].by = id /\ ArgumentFlag(r.code[w].op) = type
Prepared(r, k, cs, id, flags) ==
  \E p : /\ Last(Preps(r, k), p) /\ r.code[p].by = id
         /\ r.code[p].target + 1 \in DOMAIN cs /\ cs[r.code[p].target + 1] = flags
Furnished(r, k, cs, id, flags) ==
  /\ Prepared(r, k, cs, id, flags)
  /\ \A slot \in DOMAIN flags : Written(r, k, slot - 1, id, flags[slot])
Attended(r, cs) ==
  \A k \in DOMAIN r.code : IsInvoke(r.code[k].op) => \E flags : Furnished(r, k, cs, r.code[k].by, flags)

(* The callsites ds are cs and maybe more.                                    *)
Longer(cs, ds) ==
  /\ DOMAIN cs \subseteq DOMAIN ds /\ \A i \in DOMAIN cs : ds[i] = cs[i]
  /\ Len(ds) <= Word => Len(cs) <= Word

LEMMA SameBefore ==
  ASSUME NEW r \in KijiFrame, NEW s \in KijiFrame, Lasts(r, s), NEW k \in 1..(Len(r.code) + 1)
  PROVE  /\ Preps(s, k) = Preps(r, k) /\ \A slot : Writers(s, k, slot) = Writers(r, k, slot)
         /\ \A i \in 1..(k - 1) : SameInBuffer(r.code[i], s.code[i])
<1>1. DOMAIN r.code = 1..Len(r.code) /\ Len(r.code) \in Nat
  BY FrameFields
<1>2. \A i \in 1..(k - 1) : SameInBuffer(r.code[i], s.code[i])
  BY <1>1 DEF Lasts
<1>3. Preps(s, k) = Preps(r, k)
  BY <1>2, Zenon DEF Preps, SameInBuffer
<1>4. ASSUME NEW slot
      PROVE  Writers(s, k, slot) = Writers(r, k, slot)
  <2>1. \A i \in 1..(k - 1) : IsArgument(r.code[i].op) =>
          s.code[i].op = r.code[i].op /\ s.code[i].target = r.code[i].target
    BY <1>2, Zenon DEF SameInBuffer, InBuffer
  <2>2. \A i \in 1..(k - 1) : s.code[i].op = r.code[i].op
    BY <1>2, Zenon DEF SameInBuffer
  <2> QED
    BY <2>1, <2>2 DEF Writers
<1> QED
  BY <1>2, <1>3, <1>4

LEMMA StaysBefore ==
  ASSUME NEW r \in KijiFrame, NEW s \in KijiFrame, Lasts(r, s), NEW k \in 1..(Len(r.code) + 1),
         NEW cs, NEW ds, Longer(cs, ds), NEW id
  PROVE  /\ \A slot, type : Written(r, k, slot, id, type) => Written(s, k, slot, id, type)
         /\ \A flags : Prepared(r, k, cs, id, flags) => Prepared(s, k, ds, id, flags)
<1>1. /\ Preps(s, k) = Preps(r, k) /\ \A slot : Writers(s, k, slot) = Writers(r, k, slot)
      /\ \A i \in 1..(k - 1) : SameInBuffer(r.code[i], s.code[i])
  BY SameBefore
<1>2. ASSUME NEW slot, NEW type, Written(r, k, slot, id, type)
      PROVE  Written(s, k, slot, id, type)
  <2>1. PICK w : /\ Last(Writers(r, k, slot), w) /\ r.code[w].by = id
                 /\ ArgumentFlag(r.code[w].op) = type
    BY <1>2 DEF Written
  <2>2. w \in 1..(k - 1)
    BY <2>1 DEF Last, Writers
  <2>3. s.code[w].op = r.code[w].op /\ s.code[w].by = r.code[w].by
    BY <1>1, <2>2 DEF SameInBuffer
  <2>4. Last(Writers(s, k, slot), w)
    BY <1>1, <2>1
  <2> QED
    BY <2>1, <2>3, <2>4, Zenon DEF Written
<1>3. ASSUME NEW flags, Prepared(r, k, cs, id, flags)
      PROVE  Prepared(s, k, ds, id, flags)
  <2>1. PICK p : /\ Last(Preps(r, k), p) /\ r.code[p].by = id
                 /\ r.code[p].target + 1 \in DOMAIN cs /\ cs[r.code[p].target + 1] = flags
    BY <1>3 DEF Prepared
  <2>2. p \in 1..(k - 1) /\ r.code[p].op = "prepargs"
    BY <2>1 DEF Last, Preps
  <2>3. s.code[p].target = r.code[p].target /\ s.code[p].by = r.code[p].by
    BY <1>1, <2>2 DEF SameInBuffer, InBuffer
  <2>4. Last(Preps(s, k), p)
    BY <1>1, <2>1
  <2>5. s.code[p].target + 1 \in DOMAIN ds /\ ds[s.code[p].target + 1] = flags
    BY <2>1, <2>3 DEF Longer
  <2> QED
    BY <2>1, <2>3, <2>4, <2>5, Zenon DEF Prepared
<1> QED
  BY <1>2, <1>3

(* Instructions that do not write the buffer change nothing of it.            *)
LEMMA StaysPlainly ==
  ASSUME NEW r \in KijiFrame, NEW s \in KijiFrame, Plainly(r, s),
         NEW cs, NEW ds, Longer(cs, ds), NEW id
  PROVE  LET k == Len(r.code) + 1
             m == Len(s.code) + 1
         IN /\ \A slot, type : Written(r, k, slot, id, type) => Written(s, m, slot, id, type)
            /\ \A flags : Prepared(r, k, cs, id, flags) => Prepared(s, m, ds, id, flags)
<1> DEFINE k == Len(r.code) + 1
           m == Len(s.code) + 1
<1>1. /\ DOMAIN r.code = 1..Len(r.code) /\ Len(r.code) \in Nat
      /\ DOMAIN s.code = 1..Len(s.code) /\ Len(s.code) \in Nat
      /\ Lasts(r, s) /\ Len(r.code) <= Len(s.code)
  BY FrameFields DEF Plainly, Lasts
<1>2. k \in 1..(Len(r.code) + 1)
  BY <1>1
<1>3. /\ \A slot, type : Written(r, k, slot, id, type) => Written(s, k, slot, id, type)
      /\ \A flags : Prepared(r, k, cs, id, flags) => Prepared(s, k, ds, id, flags)
  BY <1>1, <1>2, StaysBefore
<1>4. \A i \in 1..(m - 1) : i \notin 1..(k - 1) => ~ InBuffer(s.code[i].op)
  BY <1>1 DEF Plainly, Plain
<1>5. 1..(k - 1) \subseteq 1..(m - 1)
  BY <1>1
<1>6. Preps(s, m) = Preps(s, k) /\ \A slot : Writers(s, m, slot) = Writers(s, k, slot)
  <2> HIDE DEF k, m
  <2> QED
    BY <1>4, <1>5, Zenon DEF Preps, Writers, InBuffer
<1>7. /\ \A slot, type : Written(s, k, slot, id, type) => Written(s, m, slot, id, type)
      /\ \A flags : Prepared(s, k, ds, id, flags) => Prepared(s, m, ds, id, flags)
  BY <1>6, Zenon DEF Written, Prepared
<1> QED
  BY <1>3, <1>7

LEMMA AttendedStays ==
  ASSUME NEW r \in KijiFrame, NEW s \in KijiFrame, Lasts(r, s), NEW cs, NEW ds, Longer(cs, ds),
         Attended(r, cs),
         \A k \in DOMAIN s.code : k \notin DOMAIN r.code /\ IsInvoke(s.code[k].op) =>
           \E flags : Furnished(s, k, ds, s.code[k].by, flags)
  PROVE  Attended(s, ds)
<1> SUFFICES ASSUME NEW k \in DOMAIN s.code, IsInvoke(s.code[k].op), k \in DOMAIN r.code
             PROVE  \E flags : Furnished(s, k, ds, s.code[k].by, flags)
  BY Zenon DEF Attended
<1>1. DOMAIN r.code = 1..Len(r.code) /\ Len(r.code) \in Nat
  BY FrameFields
<1>2. s.code[k].op = r.code[k].op /\ s.code[k].by = r.code[k].by
  BY DEF Lasts, SameInBuffer
<1>3. PICK flags : Furnished(r, k, cs, r.code[k].by, flags)
  BY <1>2, Zenon DEF Attended
<1>4. k \in 1..(Len(r.code) + 1)
  BY <1>1
<1>5. PICK id : id = r.code[k].by
  OBVIOUS
<1>6. /\ \A slot, type : Written(r, k, slot, id, type) => Written(s, k, slot, id, type)
      /\ Prepared(r, k, cs, id, flags) => Prepared(s, k, ds, id, flags)
  BY <1>4, StaysBefore
<1>7. Furnished(r, k, cs, id, flags)
  BY <1>3, <1>5
<1>8. Furnished(s, k, ds, id, flags)
  BY <1>6, <1>7, Zenon DEF Furnished
<1> QED
  BY <1>2, <1>5, <1>8

LEMMA PlainlyAttends ==
  ASSUME NEW r \in KijiFrame, NEW s \in KijiFrame, Plainly(r, s), NEW cs, NEW ds, Longer(cs, ds)
  PROVE  /\ Unpatched(r) => Unpatched(s)
         /\ Attended(r, cs) => Attended(s, ds)
<1>1. Lasts(r, s)
  BY Zenon DEF Plainly
<1>2. Unpatched(r) => Unpatched(s)
  BY Zenon DEF Plainly, Lasts, SameInBuffer, Unpatched, Plain
<1>3. \A k \in DOMAIN s.code : k \notin DOMAIN r.code => ~ IsInvoke(s.code[k].op)
  BY Zenon DEF Plainly, Plain
<1> QED
  BY <1>1, <1>2, <1>3, AttendedStays
-----------------------------------------------------------------------------
(* What activation a knows of the frame r on top, by its buffer b: the values  *)
(* it has passed are still in its locals, and the callsite it has prepared is  *)
(* that of its arguments.                                                    *)

IsBuffer(b) == b.quiet \in BOOLEAN /\ b.depth \in Nat
IsHeld(r, a, v) == v \in DOMAIN a.loc /\ IsLocal(r, a.loc[v])
TypeIn(r, a, v) == r.locals[a.loc[v] + 1]
TypesIn(r, a, args) == [i \in DOMAIN args |-> TypeIn(r, a, args[i])]
KnowsPassed(r, a, p) ==
  IsHeld(r, a, p[2]) /\ Written(r, Len(r.code) + 1, p[1], a.id, TypeIn(r, a, p[2]))
KnowsReady(r, cs, a, args) ==
  /\ \A i \in DOMAIN args : IsHeld(r, a, args[i])
  /\ Len(cs) <= Word => Prepared(r, Len(r.code) + 1, cs, a.id, TypesIn(r, a, args))
Knows(r, cs, a, b) ==
  (\A p \in b.passed : KnowsPassed(r, a, p)) /\ (\A args \in b.ready : KnowsReady(r, cs, a, args))

(* Activation e is a, but for the values of the locals vs.                    *)
Apart(a, e, vs) ==
  e.id = a.id /\ \A v \in DOMAIN a.loc : v \notin vs => v \in DOMAIN e.loc /\ e.loc[v] = a.loc[v]

LEMMA HeldStays ==
  ASSUME NEW r \in KijiFrame, NEW s \in KijiFrame, Lasts(r, s), NEW a, NEW e, NEW vs, Apart(a, e, vs),
         NEW v, v \notin vs, IsHeld(r, a, v)
  PROVE  IsHeld(s, e, v) /\ TypeIn(s, e, v) = TypeIn(r, a, v)
<1>1. /\ DOMAIN r.locals = 1..Len(r.locals) /\ Len(r.locals) \in Nat
      /\ DOMAIN s.locals = 1..Len(s.locals) /\ Len(s.locals) \in Nat
  BY FrameFields
<1>2. v \in DOMAIN e.loc /\ e.loc[v] = a.loc[v] /\ IsLocal(r, a.loc[v])
  BY Zenon DEF Apart, IsHeld
<1>3. PICK x : x = a.loc[v]
  OBVIOUS
<1>4. x \in 0..(Len(r.locals) - 1)
  BY <1>2, <1>3 DEF IsLocal
<1>5. Len(r.locals) <= Len(s.locals) /\ \A i \in DOMAIN r.locals : s.locals[i] = r.locals[i]
  BY DEF Lasts
<1>6. x \in 0..(Len(s.locals) - 1) /\ s.locals[x + 1] = r.locals[x + 1]
  BY <1>1, <1>4, <1>5
<1> QED
  BY <1>2, <1>3, <1>6 DEF IsHeld, IsLocal, TypeIn

LEMMA TypesStay ==
  ASSUME NEW r \in KijiFrame, NEW s \in KijiFrame, Lasts(r, s), NEW a, NEW e, NEW vs, Apart(a, e, vs),
         NEW args, \A i \in DOMAIN args : args[i] \notin vs /\ IsHeld(r, a, args[i])
  PROVE  /\ \A i \in DOMAIN args : IsHeld(s, e, args[i])
         /\ TypesIn(s, e, args) = TypesIn(r, a, args)
<1>1. \A i \in DOMAIN args : IsHeld(s, e, args[i]) /\ TypeIn(s, e, args[i]) = TypeIn(r, a, args[i])
  BY HeldStays
<1> QED
  BY <1>1, Zenon DEF TypesIn

(* It goes on knowing what is left of its buffer.                             *)
LEMMA KnowsOn ==
  ASSUME NEW r \in KijiFrame, NEW s \in KijiFrame, Plainly(r, s), NEW cs, NEW ds, Longer(cs, ds),
         NEW a, NEW e, NEW vs, Apart(a, e, vs), NEW b, NEW g, Knows(r, cs, a, b),
         g.passed \subseteq b.passed, g.ready \subseteq b.ready,
         \A p \in g.passed : p[2] \notin vs,
         \A args \in g.ready : \A i \in DOMAIN args : args[i] \notin vs
  PROVE  Knows(s, ds, e, g)
<1>1. Lasts(r, s) /\ e.id = a.id
  BY Zenon DEF Plainly, Apart
<1>2. ASSUME NEW p \in g.passed
      PROVE  KnowsPassed(s, e, p)
  <2>1. p \in b.passed /\ p[2] \notin vs
    BY <1>2
  <2>2. IsHeld(r, a, p[2]) /\ Written(r, Len(r.code) + 1, p[1], a.id, TypeIn(r, a, p[2]))
    BY <2>1, Zenon DEF Knows, KnowsPassed
  <2>3. IsHeld(s, e, p[2]) /\ TypeIn(s, e, p[2]) = TypeIn(r, a, p[2])
    BY <1>1, <2>1, <2>2, HeldStays
  <2>4. Written(s, Len(s.code) + 1, p[1], a.id, TypeIn(r, a, p[2]))
    BY <2>2, StaysPlainly
  <2> QED
    BY <1>1, <2>3, <2>4 DEF KnowsPassed
<1>3. ASSUME NEW args \in g.ready
      PROVE  KnowsReady(s, ds, e, args)
  <2>1. args \in b.ready /\ \A i \in DOMAIN args : args[i] \notin vs
    BY <1>3
  <2>2. KnowsReady(r, cs, a, args)
    BY <2>1, Zenon DEF Knows
  <2>3. /\ \A i \in DOMAIN args : IsHeld(s, e, args[i])
        /\ TypesIn(s, e, args) = TypesIn(r, a, args)
    <3>1. \A i \in DOMAIN args : args[i] \notin vs /\ IsHeld(r, a, args[i])
      BY <2>1, <2>2, Zenon DEF KnowsReady
    <3> QED
      BY <1>1, <3>1, TypesStay
  <2>4. ASSUME Len(ds) <= Word
        PROVE  Prepared(s, Len(s.code) + 1, ds, a.id, TypesIn(r, a, args))
    <3>1. Prepared(r, Len(r.code) + 1, cs, a.id, TypesIn(r, a, args))
      BY <2>2, <2>4 DEF Longer, KnowsReady
    <3> QED
      BY <3>1, StaysPlainly
  <2> QED
    BY <1>1, <2>3, <2>4, Zenon DEF KnowsReady
<1> QED
  BY <1>2, <1>3, Zenon DEF Knows

LEMMA ForgetsFields ==
  ASSUME NEW b, IsBuffer(b), NEW vs
  PROVE  LET g == Forgets(b, vs) IN
         /\ IsBuffer(g) /\ g.quiet = b.quiet /\ g.depth = b.depth
         /\ g.passed \subseteq b.passed /\ g.ready \subseteq b.ready
         /\ \A p \in g.passed : p[2] \notin vs
         /\ \A args \in g.ready : \A i \in DOMAIN args : args[i] \notin vs
BY DEF IsBuffer, Forgets, Buffer

LEMMA NothingKnown ==
  ASSUME NEW r, NEW cs, NEW a, NEW b, ~ Holding(b)
  PROVE  Knows(r, cs, a, b)
BY DEF Holding, Knows
-----------------------------------------------------------------------------
(* An instruction more.                                                      *)

LEMMA AppendsLasts ==
  ASSUME NEW r \in KijiFrame, NEW s \in KijiFrame, NEW in, Appends(r, s, in)
  PROVE  /\ Lasts(r, s)
         /\ Unpatched(r) /\ (InBuffer(in.op) => in.slot = 0) => Unpatched(s)
         /\ Plain(in) => Plainly(r, s)
         /\ \A k \in DOMAIN s.code : k \notin DOMAIN r.code => k = Len(r.code) + 1 /\ s.code[k] = in
<1>1. /\ DOMAIN r.code = 1..Len(r.code) /\ Len(r.code) \in Nat
      /\ DOMAIN s.code = 1..Len(s.code) /\ Len(s.code) \in Nat
      /\ DOMAIN r.locals = 1..Len(r.locals) /\ Len(r.locals) \in Nat
  BY FrameFields
<1>2. Lasts(r, s)
  BY <1>1 DEF Appends, Lasts, SameInBuffer
<1>3. \A k \in DOMAIN s.code : k \notin DOMAIN r.code => k = Len(r.code) + 1 /\ s.code[k] = in
  BY <1>1 DEF Appends
<1>4. Unpatched(r) /\ (InBuffer(in.op) => in.slot = 0) => Unpatched(s)
  BY <1>3 DEF Appends, Unpatched
<1>5. Plain(in) => Plainly(r, s)
  BY <1>2, <1>3 DEF Plainly
<1> QED
  BY <1>2, <1>3, <1>4, <1>5

(* Activation a appends an argument: the value of its local v.                *)
LEMMA KnowsArgument ==
  ASSUME NEW r \in KijiFrame, NEW s \in KijiFrame, NEW in, Appends(r, s, in), IsArgument(in.op),
         NEW cs, NEW a, NEW b, Knows(r, cs, a, b), in.by = a.id,
         NEW v, IsHeld(r, a, v), ArgumentFlag(in.op) = TypeIn(r, a, v)
  PROVE  Knows(s, cs, a, Passes(b, in.target, v)) /\ (Attended(r, cs) => Attended(s, cs))
<1> DEFINE k == Len(r.code) + 1
           m == Len(s.code) + 1
           g == Passes(b, in.target, v)
<1>1. /\ DOMAIN r.code = 1..Len(r.code) /\ Len(r.code) \in Nat
      /\ DOMAIN s.code = 1..Len(s.code) /\ Len(s.code) \in Nat
      /\ k \in 1..(Len(r.code) + 1) /\ Len(s.code) = k /\ s.code[k] = in
  BY FrameFields DEF Appends
<1>2. Lasts(r, s) /\ \A i \in DOMAIN s.code : i \notin DOMAIN r.code => i = k /\ s.code[i] = in
  BY AppendsLasts
<1>3. Longer(cs, cs) /\ Apart(a, a, {})
  BY DEF Longer, Apart
<1>4. in.op # "prepargs" /\ ~ IsInvoke(in.op)
  BY DEF IsArgument, IsInvoke
<1>5. /\ \A slot, type : Written(r, k, slot, a.id, type) => Written(s, k, slot, a.id, type)
      /\ \A flags : Prepared(r, k, cs, a.id, flags) => Prepared(s, k, cs, a.id, flags)
  BY <1>1, <1>2, <1>3, StaysBefore
<1>6. 1..(m - 1) = 1..(k - 1) \cup {k} /\ k \notin 1..(k - 1) /\ \A i \in 1..(k - 1) : i <= k
  BY <1>1
<1>7. Preps(s, m) = Preps(s, k)
  BY <1>1, <1>4, <1>6 DEF Preps
<1>8. \A slot : slot # in.target => Writers(s, m, slot) = Writers(s, k, slot)
  BY <1>1, <1>6 DEF Writers
<1>9. Last(Writers(s, m, in.target), k)
  <2>1. \A i \in 1..(m - 1) : i <= k
    BY <1>1
  <2>2. k \in 1..(m - 1)
    BY <1>1
  <2> QED
    BY <1>1, <2>1, <2>2 DEF Writers, Last
<1>10. Written(s, m, in.target, a.id, TypeIn(r, a, v))
  BY <1>1, <1>9, Zenon DEF Written
<1>11. /\ g.passed = {p \in b.passed : p[1] # in.target} \cup {<<in.target, v>>}
       /\ g.ready = b.ready
  BY DEF Passes, Buffer
<1>12. ASSUME NEW p \in g.passed
       PROVE  KnowsPassed(s, a, p)
  <2>1. CASE p = <<in.target, v>>
    <3>1. IsHeld(s, a, v) /\ TypeIn(s, a, v) = TypeIn(r, a, v)
      BY <1>2, <1>3, HeldStays
    <3> QED
      BY <1>10, <2>1, <3>1 DEF KnowsPassed
  <2>2. CASE p \in b.passed /\ p[1] # in.target
    <3>1. IsHeld(r, a, p[2]) /\ Written(r, k, p[1], a.id, TypeIn(r, a, p[2]))
      BY <2>2, Zenon DEF Knows, KnowsPassed
    <3>2. IsHeld(s, a, p[2]) /\ TypeIn(s, a, p[2]) = TypeIn(r, a, p[2])
      BY <1>2, <1>3, <3>1, HeldStays
    <3>3. Written(s, k, p[1], a.id, TypeIn(r, a, p[2]))
      BY <1>5, <3>1
    <3>4. Written(s, m, p[1], a.id, TypeIn(r, a, p[2]))
      BY <1>8, <2>2, <3>3, Zenon DEF Written
    <3> QED
      BY <3>2, <3>4 DEF KnowsPassed
  <2> QED
    BY <1>11, <1>12, <2>1, <2>2
<1>13. ASSUME NEW args \in g.ready
       PROVE  KnowsReady(s, cs, a, args)
  <2>1. KnowsReady(r, cs, a, args)
    BY <1>11, <1>13, Zenon DEF Knows
  <2>2. \A i \in DOMAIN args : IsHeld(r, a, args[i])
    BY <2>1, Zenon DEF KnowsReady
  <2>3. /\ \A i \in DOMAIN args : IsHeld(s, a, args[i])
        /\ TypesIn(s, a, args) = TypesIn(r, a, args)
    BY <1>2, <1>3, <2>2, TypesStay
  <2>4. ASSUME Len(cs) <= Word
        PROVE  Prepared(s, m, cs, a.id, TypesIn(r, a, args))
    <3>1. Prepared(s, k, cs, a.id, TypesIn(r, a, args))
      BY <1>5, <2>1, <2>4 DEF KnowsReady
    <3> QED
      BY <1>7, <3>1, Zenon DEF Prepared
  <2> QED
    BY <2>3, <2>4, Zenon DEF KnowsReady
<1>14. Attended(r, cs) => Attended(s, cs)
  BY <1>2, <1>3, <1>4, AttendedStays
<1> QED
  BY <1>12, <1>13, <1>14, Zenon DEF Knows

(* It appends a prepargs of the flags of args, which no callsite but the one    *)
(* of the instruction need have.                                             *)
LEMMA KnowsPrepared ==
  ASSUME NEW r \in KijiFrame, NEW s \in KijiFrame, NEW in, Appends(r, s, in), in.op = "prepargs",
         NEW cs, NEW ds, Longer(cs, ds), NEW a, NEW b, Knows(r, cs, a, b), in.by = a.id,
         NEW args, \A i \in DOMAIN args : IsHeld(r, a, args[i]),
         Len(ds) <= Word => in.target + 1 \in DOMAIN ds /\ ds[in.target + 1] = TypesIn(r, a, args)
  PROVE  Knows(s, ds, a, Prepares(b, args)) /\ (Attended(r, cs) => Attended(s, ds))
<1> DEFINE k == Len(r.code) + 1
           m == Len(s.code) + 1
           g == Prepares(b, args)
<1>1. /\ DOMAIN r.code = 1..Len(r.code) /\ Len(r.code) \in Nat
      /\ DOMAIN s.code = 1..Len(s.code) /\ Len(s.code) \in Nat
      /\ k \in 1..(Len(r.code) + 1) /\ Len(s.code) = k /\ s.code[k] = in
  BY FrameFields DEF Appends
<1>2. Lasts(r, s) /\ \A i \in DOMAIN s.code : i \notin DOMAIN r.code => i = k /\ s.code[i] = in
  BY AppendsLasts
<1>3. Apart(a, a, {})
  BY DEF Apart
<1>4. ~ IsArgument(in.op) /\ ~ IsInvoke(in.op)
  BY DEF IsArgument, IsInvoke
<1>5. \A slot, type : Written(r, k, slot, a.id, type) => Written(s, k, slot, a.id, type)
  BY <1>1, <1>2, StaysBefore
<1>6. 1..(m - 1) = 1..(k - 1) \cup {k} /\ k \notin 1..(k - 1) /\ \A i \in 1..(k - 1) : i <= k
  BY <1>1
<1>7. \A slot : Writers(s, m, slot) = Writers(s, k, slot)
  BY <1>1, <1>4, <1>6 DEF Writers
<1>8. Last(Preps(s, m), k)
  BY <1>1, <1>6 DEF Preps, Last
<1>9. g.passed = b.passed /\ g.ready = {args}
  BY DEF Prepares, Buffer
<1>10. ASSUME NEW p \in g.passed
       PROVE  KnowsPassed(s, a, p)
  <2>1. IsHeld(r, a, p[2]) /\ Written(r, k, p[1], a.id, TypeIn(r, a, p[2]))
    BY <1>9, <1>10, Zenon DEF Knows, KnowsPassed
  <2>2. IsHeld(s, a, p[2]) /\ TypeIn(s, a, p[2]) = TypeIn(r, a, p[2])
    BY <1>2, <1>3, <2>1, HeldStays
  <2>3. Written(s, k, p[1], a.id, TypeIn(r, a, p[2]))
    BY <1>5, <2>1
  <2>4. Written(s, m, p[1], a.id, TypeIn(r, a, p[2]))
    BY <1>7, <2>3, Zenon DEF Written
  <2> QED
    BY <2>2, <2>4 DEF KnowsPassed
<1>11. KnowsReady(s, ds, a, args)
  <2>1. /\ \A i \in DOMAIN args : IsHeld(s, a, args[i])
        /\ TypesIn(s, a, args) = TypesIn(r, a, args)
    BY <1>2, <1>3, TypesStay
  <2>2. ASSUME Len(ds) <= Word
        PROVE  Prepared(s, m, ds, a.id, TypesIn(r, a, args))
    BY <1>1, <1>8, <2>2 DEF Prepared
  <2> QED
    BY <2>1, <2>2, Zenon DEF KnowsReady
<1>12. Attended(r, cs) => Attended(s, ds)
  BY <1>2, <1>4, AttendedStays
<1> QED
  BY <1>9, <1>10, <1>11, <1>12 DEF Knows

(* It appends an invoke, of arguments it has prepared and passed.             *)
LEMMA InvokeAttended ==
  ASSUME NEW r \in KijiFrame, NEW s \in KijiFrame, NEW in, Appends(r, s, in), IsInvoke(in.op),
         NEW cs, NEW a, NEW b, Knows(r, cs, a, b), in.by = a.id, Served(b), Len(cs) <= Word,
         Attended(r, cs)
  PROVE  Attended(s, cs)
<1> DEFINE k == Len(r.code) + 1
<1>1. /\ Len(r.code) \in Nat /\ k \in 1..(Len(r.code) + 1) /\ s.code[k] = in
  BY FrameFields DEF Appends
<1>2. Lasts(r, s) /\ \A i \in DOMAIN s.code : i \notin DOMAIN r.code => i = k /\ s.code[i] = in
  BY AppendsLasts
<1>3. Longer(cs, cs)
  BY DEF Longer
<1>4. PICK args \in b.ready : \A i \in DOMAIN args : <<i - 1, args[i]>> \in b.passed
  BY Zenon DEF Served
<1>5. KnowsReady(r, cs, a, args)
  BY <1>4, Zenon DEF Knows
<1>6. Prepared(s, k, cs, a.id, TypesIn(r, a, args))
  <2>1. Prepared(r, k, cs, a.id, TypesIn(r, a, args))
    BY <1>5 DEF KnowsReady
  <2> QED
    BY <1>1, <1>2, <1>3, <2>1, StaysBefore
<1>7. ASSUME NEW slot \in DOMAIN args
      PROVE  Written(s, k, slot - 1, a.id, TypeIn(r, a, args[slot]))
  <2>1. PICK p : p = <<slot - 1, args[slot]>>
    OBVIOUS
  <2>2. p \in b.passed /\ p[1] = slot - 1 /\ p[2] = args[slot]
    BY <1>4, <2>1
  <2>3. Written(r, k, p[1], a.id, TypeIn(r, a, p[2]))
    BY <2>2, Zenon DEF Knows, KnowsPassed
  <2>4. Written(s, k, p[1], a.id, TypeIn(r, a, p[2]))
    BY <1>1, <1>2, <1>3, <2>3, StaysBefore
  <2> QED
    BY <2>2, <2>4
<1>8. DOMAIN TypesIn(r, a, args) = DOMAIN args
      /\ \A slot \in DOMAIN args : TypesIn(r, a, args)[slot] = TypeIn(r, a, args[slot])
  BY DEF TypesIn
<1>9. Furnished(s, k, cs, a.id, TypesIn(r, a, args))
  BY <1>6, <1>7, <1>8 DEF Furnished
<1>10. \A i \in DOMAIN s.code : i \notin DOMAIN r.code /\ IsInvoke(s.code[i].op) =>
         \E flags : Furnished(s, i, cs, s.code[i].by, flags)
  BY <1>2, <1>9
<1> QED
  BY <1>2, <1>3, <1>10, AttendedStays
-----------------------------------------------------------------------------
(* The invariant, of the frames fr, the stack fs of their numbers, the        *)
(* activations ac and the callsites cs.  Activation i works with buffer G[i]   *)
(* on the node W[i]; the frame that is its top is at P[i] on the stack.        *)

(* The top of a callee is no lower than its caller's, and right above it when  *)
(* it is its own; the callees on a frame with arguments in it are quiet.       *)
Placed(G, P, fs, ac) ==
  /\ DOMAIN G = DOMAIN ac /\ DOMAIN P = DOMAIN ac
  /\ \A i \in DOMAIN ac : IsBuffer(G[i]) /\ P[i] \in DOMAIN fs /\ G[i].depth < P[i]
  /\ ac # <<>> => P[Len(ac)] = Len(fs)
  /\ \A i, j \in DOMAIN ac : i < j =>
       /\ P[i] <= P[j] - G[j].depth
       /\ P[i] = P[j] - G[j].depth /\ Holding(G[i]) => G[j].quiet
  /\ \A i, j \in DOMAIN ac : j = i + 1 => P[i] = P[j] - G[j].depth

Forgotten(b, v) ==
  (\A p \in b.passed : p[2] # v) /\ (\A args \in b.ready : \A i \in DOMAIN args : args[i] # v)
NoneAtZero(lb) == \A l \in DOMAIN lb : 0 \notin lb[l].reserved
Follows(G, W, ac) ==
  /\ \A i \in DOMAIN ac : /\ W[i] \in DOMAIN Buffers /\ <<ac[i].todo, G[i]>> \in Buffers[W[i]]
                          /\ NoneAtZero(ac[i].lab)
  /\ \A i, j \in DOMAIN ac : j = i + 1 => Forgotten(G[i], ac[j].dst)

Aware(G, P, fr, fs, ac, cs) == \A i \in DOMAIN ac : Knows(fr[fs[P[i]]], cs, ac[i], G[i])
Answered(fr, cs) ==
  \A f \in DOMAIN fr : Unpatched(fr[f]) /\ (Len(cs) <= Word => Attended(fr[f], cs))

Buffered(G, P, W, fr, fs, ac, cs) ==
  Placed(G, P, fs, ac) /\ Follows(G, W, ac) /\ Aware(G, P, fr, fs, ac, cs) /\ Answered(fr, cs)

LEMMA PlainlySame ==
  ASSUME NEW r \in KijiFrame
  PROVE  Plainly(r, r) /\ Lasts(r, r)
<1>1. Len(r.code) \in Nat /\ Len(r.locals) \in Nat
  BY FrameFields
<1> QED
  BY <1>1 DEF Plainly, Lasts, SameInBuffer

LEMMA KnowsSame ==
  ASSUME NEW r \in KijiFrame, NEW s \in KijiFrame, Plainly(r, s), NEW cs, NEW ds, Longer(cs, ds),
         NEW a, NEW b, Knows(r, cs, a, b)
  PROVE  Knows(s, ds, a, b)
<1>1. Apart(a, a, {})
  BY DEF Apart
<1> QED
  BY <1>1, KnowsOn

LEMMA KnowsApart ==
  ASSUME NEW r \in KijiFrame, NEW cs, NEW a, NEW e, Apart(a, e, {}), NEW b, Knows(r, cs, a, b)
  PROVE  Knows(r, cs, e, b)
<1>1. Plainly(r, r) /\ Longer(cs, cs)
  BY PlainlySame DEF Longer
<1> QED
  BY <1>1, KnowsOn

LEMMA AnsweredOn ==
  ASSUME NEW fr, NEW cs, NEW ds, Longer(cs, ds), Answered(fr, cs),
         \A f \in DOMAIN fr : fr[f] \in KijiFrame
  PROVE  Answered(fr, ds)
<1> SUFFICES ASSUME NEW f \in DOMAIN fr
             PROVE  Unpatched(fr[f]) /\ (Len(ds) <= Word => Attended(fr[f], ds))
  BY Zenon DEF Answered
<1>1. Unpatched(fr[f]) /\ (Len(cs) <= Word => Attended(fr[f], cs))
  BY Zenon DEF Answered
<1>2. Plainly(fr[f], fr[f])
  BY PlainlySame
<1>3. Attended(fr[f], cs) => Attended(fr[f], ds)
  BY <1>2, PlainlyAttends
<1> QED
  BY <1>1, <1>3 DEF Longer

(* The facts about the activation that runs.                                  *)
Topmost(n, top, G, P, W, fr, fs, ac, cs) ==
  /\ n \in Nat /\ n >= 1 /\ DOMAIN ac = 1..n /\ n \in DOMAIN ac /\ IsAct(ac[n])
  /\ IsBuffer(G[n]) /\ G[n].depth \in Nat /\ P[n] = Len(fs) /\ P[n] \in DOMAIN fs
  /\ top \in DOMAIN fr /\ fr[top] \in KijiFrame
  /\ W[n] \in DOMAIN Buffers /\ <<ac[n].todo, G[n]>> \in Buffers[W[n]]
  /\ Knows(fr[top], cs, ac[n], G[n]) /\ Unpatched(fr[top])
  /\ Len(cs) <= Word => Attended(fr[top], cs)
  /\ NoneAtZero(ac[n].lab)
  /\ \A i \in DOMAIN ac : /\ P[i] \in 1..Len(fs) /\ G[i].depth \in Nat
                          /\ fs[P[i]] = top <=> P[i] = Len(fs)

LEMMA TopFacts ==
  ASSUME NEW fr, NEW fs, NEW ac, NEW cs, Machine(fr, fs, ac), ac # <<>>,
         NEW G, NEW P, NEW W, Buffered(G, P, W, fr, fs, ac, cs),
         NEW n, NEW top, n = Len(ac), top = fs[Len(fs)]
  PROVE  Topmost(n, top, G, P, W, fr, fs, ac, cs)
<1>1. IsSeq(ac) /\ Len(fs) \in Nat /\ DOMAIN fs = 1..Len(fs)
  BY DEF Machine
<1>2. n \in Nat /\ DOMAIN ac = 1..n
  BY <1>1, SeqFields
<1>3. n # 0
  BY <1>1, EmptySeq DEF IsSeq
<1>4. n \in DOMAIN ac /\ n >= 1
  BY <1>2, <1>3
<1>5. \A i \in DOMAIN ac : IsBuffer(G[i]) /\ P[i] \in DOMAIN fs /\ G[i].depth \in Nat
  BY DEF Buffered, Placed, IsBuffer
<1>6. P[n] = Len(fs)
  BY DEF Buffered, Placed
<1>7. top \in DOMAIN fr /\ fr[top] \in KijiFrame
  BY <1>4, <1>5, <1>6 DEF Machine
<1>8. W[n] \in DOMAIN Buffers /\ <<ac[n].todo, G[n]>> \in Buffers[W[n]] /\ NoneAtZero(ac[n].lab)
  BY <1>4, Zenon DEF Buffered, Follows
<1>9. Knows(fr[top], cs, ac[n], G[n])
  BY <1>4, <1>6 DEF Buffered, Aware
<1>10. /\ Unpatched(fr[top])
       /\ Len(cs) <= Word => Attended(fr[top], cs)
  BY <1>7, Zenon DEF Buffered, Answered
<1>11. ASSUME NEW i \in DOMAIN ac
       PROVE  P[i] \in 1..Len(fs) /\ (fs[P[i]] = top <=> P[i] = Len(fs))
  <2>1. P[i] \in 1..Len(fs) /\ Len(fs) \in DOMAIN fs
    BY <1>1, <1>4, <1>5, <1>6
  <2>2. P[i] < Len(fs) => fs[P[i]] < top
    BY <1>1, <2>1 DEF Machine
  <2>3. fs[P[i]] \in Nat /\ top \in Nat
    BY <1>1, <2>1 DEF Machine
  <2> QED
    BY <1>1, <2>1, <2>2, <2>3
<1>12. IsAct(ac[n])
  BY <1>4 DEF Machine
<1>13. /\ IsBuffer(G[n]) /\ G[n].depth \in Nat /\ P[n] \in DOMAIN fs
       /\ \A i \in DOMAIN ac : /\ P[i] \in 1..Len(fs) /\ G[i].depth \in Nat
                               /\ fs[P[i]] = top <=> P[i] = Len(fs)
  BY <1>4, <1>5, <1>11
<1> QED
  BY <1>2, <1>4, <1>6, <1>7, <1>8, <1>9, <1>10, <1>12, <1>13, Zenon DEF Topmost

(* Activation a, of node w and with buffer b, goes on as e with buffer g, and  *)
(* frame r on top has become s.                                               *)
Carries(w, a, b, e, g) ==
  /\ e.id = a.id /\ e.dst = a.dst /\ NoneAtZero(e.lab)
  /\ IsBuffer(g) /\ g.depth = b.depth /\ g.quiet = b.quiet /\ <<e.todo, g>> \in Buffers[w]
Fills(r, s, ds, b, e, g) ==
  /\ s \in KijiFrame /\ (Plainly(r, s) \/ ~ Silent(b)) /\ Unpatched(s) /\ Knows(s, ds, e, g)
  /\ Len(ds) <= Word => Attended(s, ds)

LEMMA TopGoesOn ==
  ASSUME NEW fr, NEW fs, NEW ac, NEW cs, Machine(fr, fs, ac), ac # <<>>,
         NEW G, NEW P, NEW W, Buffered(G, P, W, fr, fs, ac, cs),
         NEW a, NEW g, NEW ds, NEW r, Longer(cs, ds),
         Carries(W[Len(ac)], ac[Len(ac)], G[Len(ac)], a, g),
         Fills(fr[fs[Len(fs)]], r, ds, G[Len(ac)], a, g)
  PROVE  \E H : Buffered(H, P, W, [fr EXCEPT ![fs[Len(fs)]] = r], fs, [ac EXCEPT ![Len(ac)] = a], ds)
<1>1. PICK n, top, H, fr2, ac2 :
        /\ n = Len(ac) /\ top = fs[Len(fs)] /\ H = [G EXCEPT ![n] = g] /\ fr2 = [fr EXCEPT ![top] = r] /\ ac2 = [ac EXCEPT ![n] = a]
  OBVIOUS
<1>2. /\ n \in Nat /\ n >= 1 /\ DOMAIN ac = 1..n /\ n \in DOMAIN ac
      /\ P[n] = Len(fs) /\ top \in DOMAIN fr
      /\ Len(fs) \in Nat /\ DOMAIN fs = 1..Len(fs)
      /\ W[n] \in DOMAIN Buffers
      /\ \A i \in DOMAIN ac : /\ P[i] \in 1..Len(fs) /\ G[i].depth \in Nat
                              /\ fs[P[i]] = top <=> P[i] = Len(fs)
  <2>1. n = Len(ac) /\ top = fs[Len(fs)]
    BY <1>1
  <2>2. Topmost(n, top, G, P, W, fr, fs, ac, cs)
    BY <2>1, TopFacts
  <2>3. n \in Nat /\ n >= 1 /\ DOMAIN ac = 1..n /\ n \in DOMAIN ac
    BY <2>2, Zenon DEF Topmost
  <2>4. /\ P[n] = Len(fs) /\ top \in DOMAIN fr /\ W[n] \in DOMAIN Buffers
        /\ \A i \in DOMAIN ac : /\ P[i] \in 1..Len(fs) /\ G[i].depth \in Nat
                                /\ fs[P[i]] = top <=> P[i] = Len(fs)
    BY <2>2, Zenon DEF Topmost
  <2>5. Len(fs) \in Nat /\ DOMAIN fs = 1..Len(fs)
    BY Zenon DEF Machine
  <2> QED
    BY <2>3, <2>4, <2>5
<1>3. /\ a.id = ac[n].id /\ a.dst = ac[n].dst /\ NoneAtZero(a.lab)
      /\ IsBuffer(g) /\ g.depth = G[n].depth /\ g.quiet = G[n].quiet
      /\ <<a.todo, g>> \in Buffers[W[n]]
      /\ r \in KijiFrame /\ (Plainly(fr[top], r) \/ ~ Silent(G[n])) /\ Unpatched(r)
      /\ Knows(r, ds, a, g) /\ (Len(ds) <= Word => Attended(r, ds))
  BY <1>1 DEF Carries, Fills
<1>4. /\ IsSeq(ac2) /\ Len(ac2) = Len(ac) /\ DOMAIN ac2 = DOMAIN ac /\ ac2[n] = a
      /\ \A i \in DOMAIN ac : i # n => ac2[i] = ac[i]
      /\ IsSeq(fr2) /\ DOMAIN fr2 = DOMAIN fr /\ fr2[top] = r
      /\ \A f \in DOMAIN fr : f # top => fr2[f] = fr[f]
  <2>1. IsSeq(ac) /\ IsSeq(fr)
    BY Zenon DEF Machine
  <2>2. ac2 = [ac EXCEPT ![n] = a] /\ fr2 = [fr EXCEPT ![top] = r] /\ n \in DOMAIN ac /\ top \in DOMAIN fr
    BY <1>1, <1>2, Zenon
  <2>3. /\ IsSeq(ac2) /\ Len(ac2) = Len(ac) /\ DOMAIN ac2 = DOMAIN ac /\ ac2[n] = a
        /\ \A i \in DOMAIN ac : i # n => ac2[i] = ac[i]
    BY <2>1, <2>2, ExceptIsSeq
  <2>4. /\ IsSeq(fr2) /\ DOMAIN fr2 = DOMAIN fr /\ fr2[top] = r
        /\ \A f \in DOMAIN fr : f # top => fr2[f] = fr[f]
    BY <2>1, <2>2, ExceptIsSeq
  <2> QED
    BY <2>3, <2>4, Zenon
<1>5. /\ DOMAIN G = DOMAIN ac /\ DOMAIN P = DOMAIN ac
      /\ \A i \in DOMAIN ac : IsBuffer(G[i]) /\ P[i] \in DOMAIN fs /\ G[i].depth < P[i]
      /\ P[n] = Len(fs)
      /\ \A i, j \in DOMAIN ac : i < j =>
           /\ P[i] <= P[j] - G[j].depth
           /\ P[i] = P[j] - G[j].depth /\ Holding(G[i]) => G[j].quiet
      /\ \A i, j \in DOMAIN ac : j = i + 1 => P[i] = P[j] - G[j].depth
  BY <1>2, Zenon DEF Buffered, Placed
<1>6. /\ DOMAIN H = DOMAIN ac /\ H[n] = g
      /\ \A i \in DOMAIN ac : i # n => H[i] = G[i]
      /\ \A i \in DOMAIN ac : H[i].depth = G[i].depth /\ H[i].quiet = G[i].quiet /\ IsBuffer(H[i])
  BY <1>3, <1>1, <1>2, <1>5
<1>7. Placed(H, P, fs, ac2)
  <2>1. \A i, j \in DOMAIN ac : i < j => i # n
    BY <1>2
  <2>2. \A i, j \in DOMAIN ac2 : i < j =>
          /\ P[i] <= P[j] - H[j].depth
          /\ P[i] = P[j] - H[j].depth /\ Holding(H[i]) => H[j].quiet
    BY <1>4, <1>5, <1>6, <2>1
  <2>3. \A i \in DOMAIN ac2 : IsBuffer(H[i]) /\ P[i] \in DOMAIN fs /\ H[i].depth < P[i]
    BY <1>4, <1>5, <1>6
  <2>4. P[Len(ac2)] = Len(fs) /\ \A i, j \in DOMAIN ac2 : j = i + 1 => P[i] = P[j] - H[j].depth
    <3>1. \A j \in DOMAIN ac : H[j].depth = G[j].depth
      BY <1>6
    <3> QED
      BY <1>1, <1>4, <1>5, <3>1
  <2> QED
    BY <1>4, <1>5, <1>6, <2>2, <2>3, <2>4, Zenon DEF Placed
<1>8. Follows(H, W, ac2)
  <2>1. /\ \A i \in DOMAIN ac : /\ W[i] \in DOMAIN Buffers /\ <<ac[i].todo, G[i]>> \in Buffers[W[i]]
                                /\ NoneAtZero(ac[i].lab)
        /\ \A i, j \in DOMAIN ac : j = i + 1 => Forgotten(G[i], ac[j].dst)
    BY Zenon DEF Buffered, Follows
  <2>2. \A j \in DOMAIN ac : ac2[j].dst = ac[j].dst
    BY <1>3, <1>4
  <2>3. \A i, j \in DOMAIN ac : j = i + 1 => i # n
    BY <1>2
  <2>4. \A i, j \in DOMAIN ac2 : j = i + 1 => Forgotten(H[i], ac2[j].dst)
    BY <1>4, <1>6, <2>1, <2>2, <2>3
  <2>5. \A i \in DOMAIN ac2 : /\ W[i] \in DOMAIN Buffers /\ <<ac2[i].todo, H[i]>> \in Buffers[W[i]]
                              /\ NoneAtZero(ac2[i].lab)
    BY <1>3, <1>2, <1>4, <1>6, <2>1
  <2> QED
    BY <2>4, <2>5, Zenon DEF Follows
<1>9. Aware(H, P, fr2, fs, ac2, ds)
  <2> SUFFICES ASSUME NEW i \in DOMAIN ac
               PROVE  Knows(fr2[fs[P[i]]], ds, ac2[i], H[i])
    BY <1>4, Zenon DEF Aware
  <2>1. CASE i = n
    BY <1>3, <1>1, <1>2, <1>4, <1>6, <2>1
  <2>2. CASE i # n
    <3>1. Knows(fr[fs[P[i]]], cs, ac[i], G[i]) /\ ac2[i] = ac[i] /\ H[i] = G[i]
      BY <1>4, <1>6, <2>2 DEF Buffered, Aware
    <3>2. fs[P[i]] \in DOMAIN fr /\ \A f \in DOMAIN fr : fr[f] \in KijiFrame
      BY <1>5 DEF Machine
    <3>3. CASE P[i] # Len(fs)
      <4>1. fr2[fs[P[i]]] = fr[fs[P[i]]]
        BY <1>2, <1>4, <3>2, <3>3
      <4>2. Plainly(fr[fs[P[i]]], fr[fs[P[i]]])
        BY <3>2, PlainlySame
      <4> QED
        BY <3>1, <3>2, <4>1, <4>2, KnowsSame
    <3>4. CASE P[i] = Len(fs)
      <4>1. fs[P[i]] = top /\ fr2[fs[P[i]]] = r
        BY <1>2, <1>4, <3>4
      <4>2. CASE Plainly(fr[top], r)
        BY <1>3, <3>1, <3>2, <4>1, <4>2, KnowsSame
      <4>3. CASE ~ Silent(G[n])
        <5>1. i < n
          BY <1>2, <2>2
        <5>2. P[i] <= P[n] - G[n].depth /\ (P[i] = P[n] - G[n].depth /\ Holding(G[i]) => G[n].quiet)
          BY <1>2, <1>5, <5>1
        <5>3. G[n].depth = 0
          BY <1>2, <3>4, <5>2
        <5>4. ~ Holding(G[i])
          BY <1>2, <3>4, <4>3, <5>2, <5>3 DEF Silent
        <5> QED
          BY <3>1, <5>4, NothingKnown
      <4> QED
        BY <1>3, <4>2, <4>3
    <3> QED
      BY <3>3, <3>4
  <2> QED
    BY <2>1, <2>2
<1>10. Answered(fr2, ds)
  <2>1. Answered(fr, ds)
    BY AnsweredOn DEF Machine, Buffered
  <2>2. ASSUME NEW f \in DOMAIN fr
        PROVE  Unpatched(fr2[f]) /\ (Len(ds) <= Word => Attended(fr2[f], ds))
    <3>1. CASE f = top
      BY <1>3, <1>4, <3>1
    <3>2. CASE f # top
      BY <1>4, <2>1, <3>2 DEF Answered
    <3> QED
      BY <3>1, <3>2
  <2> QED
    BY <1>4, <2>2, Zenon DEF Answered
<1>11. Buffered(H, P, W, fr2, fs, ac2, ds)
  BY <1>7, <1>8, <1>9, <1>10 DEF Buffered
<1> QED
  BY <1>1, <1>11

(* When it appends nothing that writes the buffer, and forgets what it assigns. *)
LEMMA TopGoesOnPlainly ==
  ASSUME NEW fr, NEW fs, NEW ac, NEW cs, Machine(fr, fs, ac), ac # <<>>,
         NEW G, NEW P, NEW W, Buffered(G, P, W, fr, fs, ac, cs),
         NEW a, a.dst = ac[Len(ac)].dst, NoneAtZero(a.lab), NEW vs, Apart(ac[Len(ac)], a, vs),
         <<a.todo, Forgets(G[Len(ac)], vs)>> \in Buffers[W[Len(ac)]],
         NEW r \in KijiFrame, Plainly(fr[fs[Len(fs)]], r)
  PROVE  \E H : Buffered(H, P, W, [fr EXCEPT ![fs[Len(fs)]] = r], fs, [ac EXCEPT ![Len(ac)] = a], cs)
<1>1. PICK n, top, g : n = Len(ac) /\ top = fs[Len(fs)] /\ g = Forgets(G[n], vs)
  OBVIOUS
<1>2. /\ IsBuffer(G[n]) /\ fr[top] \in KijiFrame /\ Unpatched(fr[top])
      /\ Len(cs) <= Word => Attended(fr[top], cs)
      /\ Knows(fr[top], cs, ac[n], G[n])
  BY <1>1, TopFacts, ZenonT(30) DEF Topmost
<1>3. /\ IsBuffer(g) /\ g.quiet = G[n].quiet /\ g.depth = G[n].depth
      /\ g.passed \subseteq G[n].passed /\ g.ready \subseteq G[n].ready
      /\ \A p \in g.passed : p[2] \notin vs
      /\ \A args \in g.ready : \A i \in DOMAIN args : args[i] \notin vs
  BY <1>1, <1>2, ForgetsFields
<1>4. Longer(cs, cs)
  BY DEF Longer
<1>5. Apart(ac[n], a, vs) /\ Plainly(fr[top], r) /\ <<a.todo, g>> \in Buffers[W[n]]
      /\ a.dst = ac[n].dst
  BY <1>1
<1>6. Knows(r, cs, a, g)
  BY <1>2, <1>3, <1>4, <1>5, KnowsOn
<1>7. Unpatched(r) /\ (Len(cs) <= Word => Attended(r, cs))
  BY <1>2, <1>4, <1>5, PlainlyAttends
<1>8. Carries(W[n], ac[n], G[n], a, g)
  BY <1>3, <1>5 DEF Carries, Apart
<1>9. Fills(fr[top], r, cs, G[n], a, g)
  BY <1>5, <1>6, <1>7 DEF Fills
<1> QED
  BY <1>1, <1>4, <1>8, <1>9, TopGoesOn
-----------------------------------------------------------------------------
(* The same of the state of Codegen.                                         *)

CallsInv ==
  \E G, P, W, fr, fs, ac, cs :
    /\ fr = frame /\ fs = frames /\ ac = acts /\ cs = cu.callsites
    /\ Buffered(G, P, W, fr, fs, ac, cs)

(* Wherever todo is left to do, t may be left, all of vs forgotten.           *)
Goes(todo, t, vs) ==
  \A w \in DOMAIN Buffers : \A b : <<todo, b>> \in Buffers[w] => <<t, Forgets(b, vs)>> \in Buffers[w]

LEMMA PlainGoesOn ==
  ASSUME NEW C, NEW B, NEW V, IInv(C, B, V), status = "compiling", CallsInv,
         NEW t, NEW lc, NEW lb, NEW r \in KijiFrame, NEW vs,
         Resume(t, lc, lb), SetTop(r), frames' = frames, cu'.callsites = cu.callsites,
         Plainly(frame[Top], r), NoneAtZero(lb), Goes(Act.todo, t, vs),
         \A v \in DOMAIN loc : v \notin vs => v \in DOMAIN lc /\ lc[v] = loc[v]
  PROVE  CallsInv'
<1>1. PICK G, P, W, fr, fs, ac, cs :
        /\ fr = frame /\ fs = frames /\ ac = acts /\ cs = cu.callsites
        /\ Buffered(G, P, W, fr, fs, ac, cs)
  BY Zenon DEF CallsInv
<1>2. Machine(fr, fs, ac) /\ ac # <<>>
  BY <1>1, MachineNow, ActsSome
<1>3. PICK n, top : n = Len(ac) /\ top = fs[Len(fs)]
  OBVIOUS
<1>4. Topmost(n, top, G, P, W, fr, fs, ac, cs)
  BY <1>1, <1>2, <1>3, TopFacts
<1>5. /\ IsAct(ac[n]) /\ W[n] \in DOMAIN Buffers /\ <<ac[n].todo, G[n]>> \in Buffers[W[n]]
      /\ Act = ac[n] /\ loc = ac[n].loc /\ Top = top
  BY <1>1, <1>3, <1>4 DEF Topmost, Act, loc, Top
<1>6. PICK a : a = Resumed(ac[n], t, lc, lb)
  OBVIOUS
<1>7. a.todo = t /\ a.loc = lc /\ a.lab = lb /\ a.dst = ac[n].dst /\ a.id = ac[n].id
  BY <1>5, <1>6, ActFields
<1>8. Apart(ac[n], a, vs)
  BY <1>5, <1>7 DEF Apart
<1>9. <<a.todo, Forgets(G[n], vs)>> \in Buffers[W[n]]
  BY <1>5, <1>7 DEF Goes
<1>10. PICK H : Buffered(H, P, W, [fr EXCEPT ![fs[Len(fs)]] = r], fs, [ac EXCEPT ![Len(ac)] = a], cs)
  BY <1>1, <1>2, <1>3, <1>5, <1>7, <1>8, <1>9, TopGoesOnPlainly
<1>11. /\ frame' = [fr EXCEPT ![fs[Len(fs)]] = r] /\ frames' = fs
       /\ acts' = [ac EXCEPT ![Len(ac)] = a] /\ cu'.callsites = cs
  BY <1>1, <1>3, <1>5, <1>6 DEF SetTop, Resume, Resumed, Top
<1> QED
  BY <1>10, <1>11 DEF CallsInv

(* The frame on top gets nothing that writes the buffer.                      *)
FillsPlainly == \E r \in KijiFrame : SetTop(r) /\ Plainly(frame[Top], r)

LEMMA FrameSame ==
  ASSUME NEW C, NEW B, NEW V, IInv(C, B, V), status = "compiling", frame' = frame
  PROVE  FillsPlainly
<1>1. frame[Top] \in KijiFrame /\ Top \in DOMAIN frame /\ IsSeq(frame)
  BY ActsSome, Zenon DEF IInv, Filled
<1>2. [frame EXCEPT ![Top] = frame[Top]] = frame
  BY <1>1 DEF IsSeq
<1>3. SetTop(frame[Top])
  BY <1>2 DEF SetTop
<1>4. Plainly(frame[Top], frame[Top])
  BY <1>1, PlainlySame
<1> QED
  BY <1>1, <1>3, <1>4 DEF FillsPlainly

(* What the discipline says of the operation in progress.                     *)
LEMMA Ruled ==
  ASSUME NEW w \in DOMAIN Buffers, NEW todo, todo # <<>>, NEW b, <<todo, b>> \in Buffers[w]
  PROVE  /\ Permitted(todo[1], b)
         /\ \A t \in Ways(todo) : <<t, Told(todo[1], b)>> \in Buffers[w]
         /\ todo[1].op = "child" => BuffersNode(Buffers, todo[1].node, Silent(b) \/ Holding(b))
<1>1. Orderly(Buffers)
  BY CallingAssumption DEF Buffering
<1>2. PICK p : p = <<todo, b>>
  OBVIOUS
<1>3. p[1] = todo /\ p[2] = b /\ p \in Buffers[w]
  BY <1>2
<1> QED
  BY <1>1, <1>3 DEF Orderly

(* An operation but for these forgets what it assigns, and no more.           *)
IsPlainOp(op) ==
  /\ op.op \notin {"prepargs", "pushframe", "popframe"}
  /\ op.op = "emit" => ~ IsInvoke(op.name) /\ ~ IsArgument(op.name)

LEMMA PlainWays ==
  ASSUME NEW todo, todo # <<>>, IsPlainOp(todo[1]), NEW t \in Ways(todo)
  PROVE  Goes(todo, t, Assigned(todo[1]))
<1> SUFFICES ASSUME NEW w \in DOMAIN Buffers, NEW b, <<todo, b>> \in Buffers[w]
             PROVE  <<t, Forgets(b, Assigned(todo[1]))>> \in Buffers[w]
  BY DEF Goes
<1>1. <<t, Told(todo[1], b)>> \in Buffers[w]
  BY Ruled
<1>2. PICK op : op = todo[1]
  OBVIOUS
<1>3. Told(op, b) = Forgets(b, Assigned(op))
  BY <1>2 DEF Told, IsPlainOp
<1> QED
  BY <1>1, <1>2, <1>3

LEMMA OnlyWay ==
  ASSUME NEW todo,
         todo[1].op \notin {"return", "die", "switch", "ifunknown", "find"}
  PROVE  Tail(todo) \in Ways(todo)
<1>1. PICK op : op = todo[1]
  OBVIOUS
<1>2. Ways(todo) = {Tail(todo)}
  BY <1>1 DEF Ways
<1> QED
  BY <1>2

(* The labels reserve no place at offset 0, where no operand is.               *)
LEMMA LabelsNow ==
  ASSUME NEW C, NEW B, NEW V, IInv(C, B, V), status = "compiling", CallsInv
  PROVE  NoneAtZero(lab)
<1>1. PICK G, W, ac : ac = acts /\ Follows(G, W, ac)
  BY Zenon DEF CallsInv, Buffered
<1>2. acts # <<>> /\ Stacked(C, B)
  BY ActsSome, Zenon DEF IInv
<1>3. N \in DOMAIN acts /\ Act = acts[N] /\ lab = Act.lab
  BY <1>2, Running
<1> QED
  BY <1>1, <1>3 DEF Follows

(* Operations that leave but one thing to do, the rest.                       *)
IsStraight(op) == IsPlainOp(op) /\ op.op \notin {"return", "die", "switch", "ifunknown", "find"}

LEMMA SetGoesOn ==
  ASSUME NEW C, NEW B, NEW V, IInv(C, B, V), status = "compiling", CallsInv,
         Act.todo # <<>>, IsStraight(Op), NEW v \in Assigned(Op), NEW x,
         ContinueSet(v, x), FillsPlainly, frames' = frames, cu'.callsites = cu.callsites
  PROVE  CallsInv'
<1>1. PICK r \in KijiFrame : SetTop(r) /\ Plainly(frame[Top], r)
  BY Zenon DEF FillsPlainly
<1>2. PICK t, lc, todo, vs : /\ t = Tail(Act.todo) /\ lc = Assign(loc, v, x)
                             /\ todo = Act.todo /\ vs = Assigned(Op)
  OBVIOUS
<1>3. todo[1] = Op
  BY <1>2 DEF Op
<1>4. t \in Ways(todo)
  BY <1>2, <1>3, OnlyWay DEF IsStraight
<1>5. Goes(todo, t, vs)
  BY <1>2, <1>3, <1>4, PlainWays DEF IsStraight
<1>6. \A w \in DOMAIN loc : w \notin vs => w \in DOMAIN lc /\ lc[w] = loc[w]
  BY <1>2, AssignKeeps
<1>7. NoneAtZero(lab)
  BY LabelsNow
<1>8. Resume(t, lc, lab)
  BY <1>2 DEF ContinueSet
<1> QED
  BY <1>1, <1>2, <1>5, <1>6, <1>7, <1>8, PlainGoesOn

LEMMA LabelGoesOn ==
  ASSUME NEW C, NEW B, NEW V, IInv(C, B, V), status = "compiling", CallsInv,
         Act.todo # <<>>, IsStraight(Op), NEW lb, NoneAtZero(lb),
         Resume(Tail(Act.todo), loc, lb), FillsPlainly,
         frames' = frames, cu'.callsites = cu.callsites
  PROVE  CallsInv'
<1>1. PICK r \in KijiFrame : SetTop(r) /\ Plainly(frame[Top], r)
  BY Zenon DEF FillsPlainly
<1>2. PICK t, todo, vs : t = Tail(Act.todo) /\ todo = Act.todo /\ vs = Assigned(Op)
  OBVIOUS
<1>3. todo[1] = Op
  BY <1>2 DEF Op
<1>4. t \in Ways(todo)
  BY <1>2, <1>3, OnlyWay DEF IsStraight
<1>5. Goes(todo, t, vs)
  BY <1>2, <1>3, <1>4, PlainWays DEF IsStraight
<1>6. Resume(t, loc, lb) /\ \A w \in DOMAIN loc : w \in DOMAIN loc /\ loc[w] = loc[w]
  BY <1>2
<1> QED
  BY <1>1, <1>2, <1>5, <1>6, PlainGoesOn

LEMMA RestGoesOn ==
  ASSUME NEW C, NEW B, NEW V, IInv(C, B, V), status = "compiling", CallsInv,
         Act.todo # <<>>, IsStraight(Op), Continue, FillsPlainly,
         frames' = frames, cu'.callsites = cu.callsites
  PROVE  CallsInv'
<1>1. Resume(Tail(Act.todo), loc, lab) /\ NoneAtZero(lab)
  BY LabelsNow DEF Continue
<1> QED
  BY <1>1, LabelGoesOn

(* A choice of what to do next.                                              *)
LEMMA WayGoesOn ==
  ASSUME NEW C, NEW B, NEW V, IInv(C, B, V), status = "compiling", CallsInv,
         Act.todo # <<>>, IsPlainOp(Op), NEW t \in Ways(Act.todo), NEW lc,
         \A w \in DOMAIN loc : w \notin Assigned(Op) => w \in DOMAIN lc /\ lc[w] = loc[w],
         Resume(t, lc, lab), frame' = frame, frames' = frames, cu' = cu
  PROVE  CallsInv'
<1>1. PICK r \in KijiFrame : SetTop(r) /\ Plainly(frame[Top], r)
  BY FrameSame, Zenon DEF FillsPlainly
<1>2. PICK todo, vs : todo = Act.todo /\ vs = Assigned(Op)
  OBVIOUS
<1>3. todo[1] = Op
  BY <1>2 DEF Op
<1>4. Goes(todo, t, vs)
  BY <1>2, <1>3, PlainWays
<1>5. NoneAtZero(lab) /\ cu'.callsites = cu.callsites
  BY LabelsNow
<1>6. \A w \in DOMAIN loc : w \notin vs => w \in DOMAIN lc /\ lc[w] = loc[w]
  BY <1>2
<1> QED
  BY <1>1, <1>2, <1>4, <1>5, <1>6, PlainGoesOn
-----------------------------------------------------------------------------
(* The actions, one by one.                                                  *)

LEMMA StoppedOn ==
  ASSUME CallsInv, UNCHANGED <<frame, frames, cu, acts>>
  PROVE  CallsInv'
BY DEF CallsInv

LEMMA SetOn ==
  ASSUME NEW C, NEW B, NEW V, IInv(C, B, V), CallsInv, Set
  PROVE  CallsInv'
<1>1. /\ status = "compiling" /\ Act.todo # <<>> /\ Op.op = "set" /\ ContinueSet(Op.dst, loc[Op.src])
      /\ frame' = frame /\ frames' = frames /\ cu'.callsites = cu.callsites
  BY DEF Set, Does, Proceed
<1>2. IsStraight(Op) /\ Op.dst \in Assigned(Op)
  BY <1>1 DEF IsStraight, IsPlainOp, Assigned
<1> QED
  BY <1>1, <1>2, FrameSame, SetGoesOn

LEMMA NarrowOn ==
  ASSUME NEW C, NEW B, NEW V, IInv(C, B, V), CallsInv, Narrow
  PROVE  CallsInv'
<1>1. /\ status = "compiling" /\ Act.todo # <<>> /\ Op.op = "narrow"
      /\ ContinueSet(Op.dst, U16(loc[Op.dst]))
      /\ frame' = frame /\ frames' = frames /\ cu'.callsites = cu.callsites
  BY DEF Narrow, Does, Proceed
<1>2. IsStraight(Op) /\ Op.dst \in Assigned(Op)
  BY <1>1 DEF IsStraight, IsPlainOp, Assigned
<1> QED
  BY <1>1, <1>2, FrameSame, SetGoesOn

LEMMA SwitchOn ==
  ASSUME NEW C, NEW B, NEW V, IInv(C, B, V), CallsInv, Switch
  PROVE  CallsInv'
<1>1. status = "compiling" /\ Act.todo # <<>> /\ Op.op = "switch"
  BY DEF Switch, Does
<1>2. CASE Stop("assert")
  BY <1>2, StoppedOn DEF Stop
<1>3. CASE ~ Stop("assert")
  <2>1. PICK t : t = Op.cases[TypeOf(loc[Op.on])] \o Tail(Act.todo)
    OBVIOUS
  <2>2. /\ IsRegister(loc[Op.on]) /\ Resume(t, loc, lab)
        /\ frame' = frame /\ frames' = frames /\ cu' = cu
    BY <1>3, <2>1 DEF Switch, Proceed
  <2>3. TypeOf(loc[Op.on]) \in RegTypes
    <3>1. Known(C[N], Op.on)
      BY <1>1, Discipline DEF Constrained
    <3> QED
      BY <1>1, <2>2, <3>1, LocalType
  <2>4. t \in Ways(Act.todo)
    BY <1>1, <2>1, <2>3 DEF Ways, Op
  <2>5. IsPlainOp(Op)
    BY <1>1 DEF IsPlainOp
  <2> QED
    BY <1>1, <2>2, <2>4, <2>5, WayGoesOn
<1> QED
  BY <1>2, <1>3

LEMMA IfUnknownOn ==
  ASSUME NEW C, NEW B, NEW V, IInv(C, B, V), CallsInv, IfUnknown
  PROVE  CallsInv'
<1>1. /\ status = "compiling" /\ Act.todo # <<>> /\ Op.op = "ifunknown"
      /\ frame' = frame /\ frames' = frames /\ cu' = cu
  BY DEF IfUnknown, Does, Proceed
<1>2. PICK t : t = (IF loc[Op.on] = UNKNOWN_REG THEN Op.yes ELSE Op.no) \o Tail(Act.todo)
  OBVIOUS
<1>3. Resume(t, loc, lab)
  BY <1>2 DEF IfUnknown
<1>4. t \in Ways(Act.todo)
  BY <1>1, <1>2 DEF Ways, Op
<1>5. IsPlainOp(Op)
  BY <1>1 DEF IsPlainOp
<1> QED
  BY <1>1, <1>3, <1>4, <1>5, WayGoesOn

LEMMA AssertTypeOn ==
  ASSUME NEW C, NEW B, NEW V, IInv(C, B, V), CallsInv, AssertType
  PROVE  CallsInv'
<1>1. status = "compiling" /\ Act.todo # <<>> /\ Op.op = "assert"
  BY DEF AssertType, Does
<1>2. CASE Stop("assert")
  BY <1>2, StoppedOn DEF Stop
<1>3. CASE ~ Stop("assert")
  <2>1. Continue /\ frame' = frame /\ frames' = frames /\ cu'.callsites = cu.callsites
    BY <1>3 DEF AssertType, Proceed
  <2>2. IsStraight(Op)
    BY <1>1 DEF IsStraight, IsPlainOp
  <2> QED
    BY <1>1, <2>1, <2>2, FrameSame, RestGoesOn
<1> QED
  BY <1>2, <1>3

LEMMA LoopEnterOn ==
  ASSUME NEW C, NEW B, NEW V, IInv(C, B, V), CallsInv, LoopEnter
  PROVE  CallsInv'
<1>1. /\ status = "compiling" /\ Act.todo # <<>> /\ Op.op = "enter"
      /\ ContinueSet("start_offset", Size - 1)
      /\ frame' = frame /\ frames' = frames /\ cu'.callsites = cu.callsites
  BY DEF LoopEnter, Does, Proceed
<1>2. IsStraight(Op) /\ "start_offset" \in Assigned(Op)
  BY <1>1 DEF IsStraight, IsPlainOp, Assigned
<1> QED
  BY <1>1, <1>2, FrameSame, SetGoesOn

LEMMA LoopMarkOn ==
  ASSUME NEW C, NEW B, NEW V, IInv(C, B, V), CallsInv, LoopMark
  PROVE  CallsInv'
<1>1. /\ status = "compiling" /\ Act.todo # <<>> /\ Op.op = "mark" /\ ContinueSet(Op.dst, Size)
      /\ frame' = frame /\ frames' = frames /\ cu'.callsites = cu.callsites
  BY DEF LoopMark, Does, Proceed
<1>2. IsStraight(Op) /\ Op.dst \in Assigned(Op)
  BY <1>1 DEF IsStraight, IsPlainOp, Assigned
<1> QED
  BY <1>1, <1>2, FrameSame, SetGoesOn

LEMMA OpenClassOn ==
  ASSUME NEW C, NEW B, NEW V, IInv(C, B, V), CallsInv, OpenClass
  PROVE  CallsInv'
<1>1. /\ status = "compiling" /\ Act.todo # <<>> /\ Op.op = "class"
      /\ ContinueSet("wval1", Len(cu.scs)) /\ frame' = frame /\ frames' = frames
      /\ cu' = [cu EXCEPT !.scs = Append(@, NewClass), !.current_class_how = Len(cu.scs) + 1]
  BY DEF OpenClass, Does
<1>2. IsStraight(Op) /\ "wval1" \in Assigned(Op)
  BY <1>1 DEF IsStraight, IsPlainOp, Assigned
<1>3. UnitOK
  BY Zenon DEF IInv
<1>4. cu'.callsites = cu.callsites
  BY <1>1, <1>3 DEF UnitOK
<1> QED
  BY <1>1, <1>2, <1>4, FrameSame, SetGoesOn

LEMMA CloseClassOn ==
  ASSUME NEW C, NEW B, NEW V, IInv(C, B, V), CallsInv, CloseClass
  PROVE  CallsInv'
<1>1. /\ status = "compiling" /\ Act.todo # <<>> /\ Op.op = "endclass"
      /\ Continue /\ frame' = frame /\ frames' = frames
      /\ cu' = [cu EXCEPT !.current_class_how = 0]
  BY DEF CloseClass, Does
<1>2. IsStraight(Op)
  BY <1>1 DEF IsStraight, IsPlainOp
<1>3. UnitOK
  BY Zenon DEF IInv
<1>4. cu'.callsites = cu.callsites
  BY <1>1, <1>3 DEF UnitOK
<1> QED
  BY <1>1, <1>2, <1>4, FrameSame, RestGoesOn

LEMMA BindMethodOn ==
  ASSUME NEW C, NEW B, NEW V, IInv(C, B, V), CallsInv, BindMethod
  PROVE  CallsInv'
<1>1. status = "compiling" /\ Act.todo # <<>> /\ Op.op = "bindmethod"
  BY DEF BindMethod, Does
<1>2. CASE Stop("panic")
  BY <1>2, StoppedOn DEF Stop
<1>3. CASE ~ Stop("panic")
  <2>1. /\ Continue /\ frame' = frame /\ frames' = frames
        /\ cu' = [cu EXCEPT !.scs[cu.current_class_how].methods =
                               Assign(@, Op.name, loc[Op.frame])]
    BY <1>3 DEF BindMethod
  <2>2. IsStraight(Op)
    BY <1>1 DEF IsStraight, IsPlainOp
  <2>3. UnitOK
    BY Zenon DEF IInv
  <2>4. cu'.callsites = cu.callsites
    BY <2>1, <2>3 DEF UnitOK
  <2> QED
    BY <1>1, <2>1, <2>2, <2>4, FrameSame, RestGoesOn
<1> QED
  BY <1>2, <1>3

LEMMA FinalizeOn ==
  ASSUME NEW C, NEW B, NEW V, IInv(C, B, V), CallsInv, Finalize
  PROVE  CallsInv'
<1>1. PICK size : size = SetMax({0} \cup {Len(cu.callsites[i]) : i \in DOMAIN cu.callsites})
  OBVIOUS
<1>2. /\ status = "compiling" /\ Act.todo # <<>> /\ Op.op = "finalize"
      /\ Continue /\ frame' = frame /\ frames' = frames
      /\ cu' = [cu EXCEPT !.max_callsite_size = size]
  BY <1>1 DEF Finalize, Does
<1>3. IsStraight(Op)
  BY <1>2 DEF IsStraight, IsPlainOp
<1>4. UnitOK
  BY Zenon DEF IInv
<1>5. cu'.callsites = cu.callsites
  BY <1>2, <1>4 DEF UnitOK
<1> QED
  BY <1>2, <1>3, <1>5, FrameSame, RestGoesOn

LEMMA FindNameOn ==
  ASSUME NEW C, NEW B, NEW V, IInv(C, B, V), CallsInv, FindName
  PROVE  CallsInv'
<1>1. /\ status = "compiling" /\ Act.todo # <<>> /\ Op.op = "find"
      /\ frame' = frame /\ frames' = frames /\ cu' = cu
  BY DEF FindName, Does, Proceed
<1>2. IsPlainOp(Op) /\ Assigned(Op) = {"lex_no", "outer"}
  BY <1>1 DEF IsPlainOp, Assigned
<1>3. Len(frame) \in Nat /\ DOMAIN frame = 1..Len(frame) /\ Top \in DOMAIN frame
  BY <1>1, Now
<1>4. \A f \in DOMAIN frame : frame[f].outer \in 0..(f - 1)
  BY Zenon DEF IInv, Filled
<1>5. PICK f, outer : f = Climb[Top][2] /\ outer = Climb[Top][1]
  OBVIOUS
<1>6. f # 0 => Has(f)
  <2>1. \A g \in 1..Len(frame) : frame[g].outer \in 0..(g - 1)
    BY <1>3, <1>4
  <2>2. \A g \in 0..Len(frame) : Climb[g][2] # 0 => Has(Climb[g][2])
    BY <1>3, <2>1, ClimbEnds
  <2>3. Top \in 0..Len(frame)
    BY <1>3
  <2> QED
    BY <1>5, <2>2, <2>3
<1>7. /\ Op.found \o Tail(Act.todo) \in Ways(Act.todo)
      /\ Op.package # <<>> => Op.package \o Tail(Act.todo) \in Ways(Act.todo)
      /\ Op.missing \o Tail(Act.todo) \in Ways(Act.todo)
  BY <1>1 DEF Ways, Op
<1>8. CASE f = 0 /\ Resume(Op.missing \o Tail(Act.todo), loc, lab)
  BY <1>1, <1>2, <1>7, <1>8, WayGoesOn
<1>9. CASE f # 0 /\ Lexicals(f) = {} /\ Resume(Op.package \o Tail(Act.todo), loc, lab)
  <2>1. Op.package # <<>>
    BY <1>6, <1>9 DEF Has, IsPackageVariable
  <2> QED
    BY <1>1, <1>2, <1>7, <1>9, <2>1, WayGoesOn
<1>10. CASE Resume(Op.found \o Tail(Act.todo),
                   Assign(Assign(loc, "lex_no", SetMax(Lexicals(f)) - 1), "outer", outer), lab)
  <2>1. PICK x, lc : /\ x = SetMax(Lexicals(f)) - 1
                     /\ lc = Assign(Assign(loc, "lex_no", x), "outer", outer)
    OBVIOUS
  <2>2. \A w \in DOMAIN loc : w \notin Assigned(Op) => w \in DOMAIN lc /\ lc[w] = loc[w]
    BY <1>2, <2>1 DEF Assign
  <2>3. Resume(Op.found \o Tail(Act.todo), lc, lab)
    BY <1>10, <2>1
  <2> QED
    BY <1>1, <1>2, <1>7, <2>2, <2>3, WayGoesOn
<1>11. \/ f = 0 /\ Resume(Op.missing \o Tail(Act.todo), loc, lab)
       \/ f # 0 /\ Lexicals(f) = {} /\ Resume(Op.package \o Tail(Act.todo), loc, lab)
       \/ Resume(Op.found \o Tail(Act.todo),
                 Assign(Assign(loc, "lex_no", SetMax(Lexicals(f)) - 1), "outer", outer), lab)
  BY <1>5 DEF FindName
<1> QED
  BY <1>8, <1>9, <1>10, <1>11

LEMMA FramePlainly ==
  ASSUME NEW C, NEW B, NEW V, IInv(C, B, V), status = "compiling", Inv', NEW r, SetTop(r),
         r.code = frame[Top].code, Len(frame[Top].locals) <= Len(r.locals),
         \A i \in DOMAIN frame[Top].locals : r.locals[i] = frame[Top].locals[i]
  PROVE  FillsPlainly
<1>1. r \in KijiFrame /\ frame[Top] \in KijiFrame
  BY TopThen
<1>2. Plainly(frame[Top], r)
  BY <1>1, FrameFields DEF Plainly, Lasts, SameInBuffer
<1> QED
  BY <1>1, <1>2 DEF FillsPlainly

LEMMA PushLocalOn ==
  ASSUME NEW C, NEW B, NEW V, IInv(C, B, V), CallsInv, Inv', PushLocal
  PROVE  CallsInv'
<1>1. status = "compiling" /\ Act.todo # <<>> /\ Op.op = "reg"
  BY DEF PushLocal, Does
<1>2. CASE Stop("abort")
  BY <1>2, StoppedOn DEF Stop
<1>3. CASE ~ Stop("abort")
  <2>1. PICK x, r : /\ x = Len(frame[Top].locals)
                    /\ r = [frame[Top] EXCEPT !.locals = Append(@, Op.type)]
    OBVIOUS
  <2>2. /\ SetTop(r) /\ ContinueSet(Op.dst, x)
        /\ frames' = frames /\ cu'.callsites = cu.callsites
    BY <1>3, <2>1 DEF PushLocal, Proceed
  <2>3. frame[Top] \in KijiFrame
    BY <1>1, ActsSome
  <2>4. IsSeq(frame[Top].locals)
    BY <2>3, FrameFields DEF IsSeq
  <2>5. r.code = frame[Top].code /\ r.locals = Append(frame[Top].locals, Op.type)
    BY <2>1, <2>3 DEF KijiFrame
  <2>6. /\ Len(frame[Top].locals) <= Len(r.locals)
        /\ \A i \in DOMAIN frame[Top].locals : r.locals[i] = frame[Top].locals[i]
    BY <2>4, <2>5, AppendSeq
  <2>7. FillsPlainly
    BY <1>1, <2>2, <2>5, <2>6, FramePlainly
  <2>8. IsStraight(Op) /\ Op.dst \in Assigned(Op)
    BY <1>1 DEF IsStraight, IsPlainOp, Assigned
  <2> QED
    BY <1>1, <2>2, <2>7, <2>8, SetGoesOn
<1> QED
  BY <1>2, <1>3

LEMMA PushLexicalOn ==
  ASSUME NEW C, NEW B, NEW V, IInv(C, B, V), CallsInv, Inv', PushLexical
  PROVE  CallsInv'
<1>1. PICK x, r : /\ x = Len(frame[Top].lexicals)
                  /\ r = [frame[Top] EXCEPT !.lexicals = Append(@, Op.name)]
  OBVIOUS
<1>2. /\ status = "compiling" /\ Act.todo # <<>> /\ Op.op = "lexical"
      /\ SetTop(r) /\ ContinueSet(Op.dst, x)
      /\ frames' = frames /\ cu'.callsites = cu.callsites
  BY <1>1 DEF PushLexical, Does, Proceed
<1>3. frame[Top] \in KijiFrame
  BY <1>2, ActsSome
<1>4. r.code = frame[Top].code /\ r.locals = frame[Top].locals /\ Len(r.locals) \in Nat
  BY <1>1, <1>3, FrameFields DEF KijiFrame
<1>5. FillsPlainly
  BY <1>2, <1>4, FramePlainly
<1>6. IsStraight(Op) /\ Op.dst \in Assigned(Op)
  BY <1>2 DEF IsStraight, IsPlainOp, Assigned
<1> QED
  BY <1>2, <1>5, <1>6, SetGoesOn

LEMMA PushPackageVariableOn ==
  ASSUME NEW C, NEW B, NEW V, IInv(C, B, V), CallsInv, Inv', PushPackageVariable
  PROVE  CallsInv'
<1>1. PICK r : r = [frame[Top] EXCEPT !.package_variables = @ \cup {Op.name}]
  OBVIOUS
<1>2. /\ status = "compiling" /\ Act.todo # <<>> /\ Op.op = "pkgvar"
      /\ SetTop(r) /\ Continue /\ frames' = frames /\ cu'.callsites = cu.callsites
  BY <1>1 DEF PushPackageVariable, Does, Proceed
<1>3. frame[Top] \in KijiFrame
  BY <1>2, ActsSome
<1>4. r.code = frame[Top].code /\ r.locals = frame[Top].locals /\ Len(r.locals) \in Nat
  BY <1>1, <1>3, FrameFields DEF KijiFrame
<1>5. FillsPlainly
  BY <1>2, <1>4, FramePlainly
<1>6. IsStraight(Op)
  BY <1>2 DEF IsStraight, IsPlainOp
<1> QED
  BY <1>2, <1>5, <1>6, RestGoesOn

LEMMA LoopLeaveOn ==
  ASSUME NEW C, NEW B, NEW V, IInv(C, B, V), CallsInv, Inv', LoopLeave
  PROVE  CallsInv'
<1>1. /\ status = "compiling" /\ Act.todo # <<>> /\ Op.op = "leave"
      /\ Continue /\ frames' = frames /\ cu'.callsites = cu.callsites
  BY DEF LoopLeave, Does, Proceed
<1>2. PICK hs : SetTop([frame[Top] EXCEPT !.handlers = @ \o hs])
  BY DEF LoopLeave
<1>3. PICK r : r = [frame[Top] EXCEPT !.handlers = @ \o hs] /\ SetTop(r)
  BY <1>2
<1>4. frame[Top] \in KijiFrame
  BY <1>1, ActsSome
<1>5. r.code = frame[Top].code /\ r.locals = frame[Top].locals /\ Len(r.locals) \in Nat
  BY <1>3, <1>4, FrameFields DEF KijiFrame
<1>6. FillsPlainly
  <2>1. status = "compiling" /\ SetTop(r) /\ Len(frame[Top].locals) <= Len(r.locals)
    BY <1>1, <1>3, <1>5
  <2>2. \A i \in DOMAIN frame[Top].locals : r.locals[i] = frame[Top].locals[i]
    BY <1>5
  <2> QED
    BY <1>5, <2>1, <2>2, FramePlainly
<1>7. IsStraight(Op)
  BY <1>1 DEF IsStraight, IsPlainOp
<1> QED
  BY <1>1, <1>6, <1>7, RestGoesOn

(* Places are patched that are not at offset 0, where the buffer's are.       *)
LEMMA PatchPlainly ==
  ASSUME NEW r \in KijiFrame, Unpatched(r), NEW slots, 0 \notin slots, NEW val,
         NEW s \in KijiFrame, s = [r EXCEPT !.code = Patch(@, slots, val)]
  PROVE  Plainly(r, s)
<1>1. s.code = Patch(r.code, slots, val) /\ s.locals = r.locals
  BY DEF KijiFrame
<1>2. /\ DOMAIN r.code = 1..Len(r.code) /\ Len(r.code) \in Nat
      /\ DOMAIN s.code = 1..Len(s.code) /\ Len(s.code) \in Nat
      /\ Len(r.locals) \in Nat /\ \A i \in DOMAIN r.code : r.code[i] \in Instruction
  BY FrameFields
<1>3. DOMAIN s.code = DOMAIN r.code
  BY <1>1 DEF Patch
<1>4. Len(r.code) <= Len(s.code)
  BY <1>2, <1>3
<1>5. ASSUME NEW i \in DOMAIN r.code
      PROVE  SameInBuffer(r.code[i], s.code[i])
  <2>1. s.code[i] = IF r.code[i].slot \in slots THEN [r.code[i] EXCEPT !.target = val] ELSE r.code[i]
    BY <1>1 DEF Patch
  <2>2. r.code[i] \in Instruction
    BY <1>2
  <2>3. CASE r.code[i].slot \in slots
    <3>1. ~ InBuffer(r.code[i].op)
      BY <2>3 DEF Unpatched
    <3>2. s.code[i] = [r.code[i] EXCEPT !.target = val]
      BY <2>1, <2>3
    <3>3. s.code[i].op = r.code[i].op /\ s.code[i].by = r.code[i].by /\ s.code[i].slot = r.code[i].slot
      BY <2>2, <3>2 DEF Instruction
    <3> QED
      BY <3>1, <3>3 DEF SameInBuffer
  <2>4. CASE r.code[i].slot \notin slots
    BY <2>1, <2>4 DEF SameInBuffer
  <2> QED
    BY <2>3, <2>4
<1> QED
  BY <1>1, <1>2, <1>3, <1>4, <1>5 DEF Plainly, Lasts

LEMMA EmitsPlainly ==
  ASSUME NEW C, NEW B, NEW V, IInv(C, B, V), status = "compiling", Inv',
         NEW in, Plain(in), NEW imm, SetTop(Asm(frame[Top], in, imm))
  PROVE  FillsPlainly
<1>1. PICK s : s = Asm(frame[Top], in, imm)
  OBVIOUS
<1>2. s \in KijiFrame /\ frame[Top] \in KijiFrame /\ SetTop(s)
  BY <1>1, TopThen
<1>3. Appends(frame[Top], s, in)
  BY <1>1, <1>2, AsmAppends
<1>4. Plainly(frame[Top], s)
  BY <1>2, <1>3, AppendsLasts
<1> QED
  BY <1>2, <1>4 DEF FillsPlainly

LEMMA UnpatchedNow ==
  ASSUME NEW C, NEW B, NEW V, IInv(C, B, V), status = "compiling", CallsInv
  PROVE  Unpatched(frame[Top])
<1>1. PICK fr, cs : fr = frame /\ Answered(fr, cs)
  BY Zenon DEF CallsInv, Buffered
<1>2. Top \in DOMAIN frame
  BY ActsSome
<1> QED
  BY <1>1, <1>2 DEF Answered

LEMMA PatchesPlainly ==
  ASSUME NEW C, NEW B, NEW V, IInv(C, B, V), status = "compiling", Inv', CallsInv,
         NEW slots, 0 \notin slots, NEW val,
         SetTop([frame[Top] EXCEPT !.code = Patch(@, slots, val)])
  PROVE  FillsPlainly
<1>1. PICK s : s = [frame[Top] EXCEPT !.code = Patch(@, slots, val)]
  OBVIOUS
<1>2. s \in KijiFrame /\ frame[Top] \in KijiFrame /\ SetTop(s)
  BY <1>1, TopThen
<1>3. Plainly(frame[Top], s)
  BY <1>1, <1>2, UnpatchedNow, PatchPlainly
<1> QED
  BY <1>2, <1>3 DEF FillsPlainly

LEMMA PatchCodeOn ==
  ASSUME NEW C, NEW B, NEW V, IInv(C, B, V), CallsInv, Inv', PatchCode
  PROVE  CallsInv'
<1>1. PICK slots, val : slots = {loc["func_pos"]} /\ val = FrameOperand(loc[Op.frame])
  OBVIOUS
<1>2. /\ status = "compiling" /\ Act.todo # <<>> /\ Op.op = "patchcode"
      /\ Continue /\ frames' = frames /\ cu'.callsites = cu.callsites
      /\ SetTop([frame[Top] EXCEPT !.code = Patch(@, slots, val)])
  BY <1>1 DEF PatchCode, Does, Proceed
<1>3. Known(C[N], "func_pos") /\ C[N].kinds["func_pos"] = CodeOperand(C[N].depth)
  BY <1>2, Discipline, Zenon DEF Constrained
<1>4. PICK k : k = C[N].kinds["func_pos"]
  OBVIOUS
<1>5. k.is = "operand" /\ k.level = C[N].depth
  BY <1>3, <1>4 DEF CodeOperand, Kind
<1>6. FitsIn(loc["func_pos"], k, frame[Top], Len(frame))
  BY <1>2, <1>3, <1>4, <1>5, KnownFits
<1>7. 0 \notin slots
  BY <1>1, <1>5, <1>6 DEF FitsIn
<1>8. FillsPlainly
  BY <1>2, <1>7, PatchesPlainly
<1>9. IsStraight(Op)
  BY <1>2 DEF IsStraight, IsPlainOp
<1> QED
  BY <1>2, <1>8, <1>9, RestGoesOn

LEMMA PutLabelOn ==
  ASSUME NEW C, NEW B, NEW V, IInv(C, B, V), CallsInv, Inv', PutLabel
  PROVE  CallsInv'
<1>1. status = "compiling" /\ Act.todo # <<>> /\ Op.op = "put"
  BY DEF PutLabel, Does
<1>2. CASE Stop("assert")
  BY <1>2, StoppedOn DEF Stop
<1>3. CASE ~ Stop("assert")
  <2>1. PICK slots, lb : /\ slots = Label(Op.label).reserved
                         /\ lb = Assign(lab, Op.label, [address |-> Size, reserved |-> {}])
    OBVIOUS
  <2>2. /\ SetTop([frame[Top] EXCEPT !.code = Patch(@, slots, Size)])
        /\ Resume(Tail(Act.todo), loc, lb)
        /\ frames' = frames /\ cu'.callsites = cu.callsites
    BY <1>3, <2>1 DEF PutLabel, Proceed
  <2>3. NoneAtZero(lab)
    BY <1>1, LabelsNow
  <2>4. 0 \notin slots
    BY <2>1, <2>3 DEF Label, NoneAtZero
  <2>5. NoneAtZero(lb)
    BY <2>1, <2>3 DEF Assign, NoneAtZero
  <2>6. FillsPlainly
    BY <1>1, <2>2, <2>4, PatchesPlainly
  <2>7. IsStraight(Op)
    BY <1>1 DEF IsStraight, IsPlainOp
  <2> QED
    BY <1>1, <2>2, <2>5, <2>6, <2>7, LabelGoesOn
<1> QED
  BY <1>2, <1>3

LEMMA ReservesNoneAtZero ==
  ASSUME NEW C, NEW B, NEW V, IInv(C, B, V), status = "compiling", CallsInv,
         NEW l, NEW pos, pos # 0
  PROVE  NoneAtZero(Reserve(l, pos))
<1>1. NoneAtZero(lab)
  BY LabelsNow
<1>2. \A x \in DOMAIN lab : "reserved" \in DOMAIN lab[x]
  <2>1. Labels(lab, C[N].labels, Levels(B[N], C[N].depth), C[N].depth)
    BY Now
  <2> QED
    BY <2>1 DEF Labels, IsLabel
<1>3. CASE IsSolved(l)
  BY <1>1, <1>3 DEF Reserve
<1>4. CASE ~ IsSolved(l)
  <2>1. PICK b : b = [Label(l) EXCEPT !.reserved = @ \cup {pos}]
    OBVIOUS
  <2>2. 0 \notin Label(l).reserved /\ "reserved" \in DOMAIN Label(l)
    BY <1>1, <1>2 DEF Label, NoneAtZero
  <2>3. 0 \notin b.reserved
    BY <2>1, <2>2
  <2>4. Reserve(l, pos) = Assign(lab, l, b)
    BY <1>4, <2>1 DEF Reserve
  <2>5. NoneAtZero(Assign(lab, l, b))
    BY <1>1, <2>3 DEF Assign, NoneAtZero
  <2> QED
    BY <2>4, <2>5
<1> QED
  BY <1>3, <1>4

LEMMA PlainOp ==
  ASSUME NEW op, \/ op \in {"getlex", "bindlex", "getcode", "goto", "param_op_o", "wval"}
                 \/ IsBranch(op) \/ IsThrow(op)
  PROVE  ~ InBuffer(op) /\ ~ IsInvoke(op)
BY DEF InBuffer, IsArgument, IsInvoke, IsBranch, IsThrow

LEMMA AccessLexicalOn ==
  ASSUME NEW C, NEW B, NEW V, IInv(C, B, V), CallsInv, Inv', AccessLexical
  PROVE  CallsInv'
<1>1. PICK op, rs, target, extra :
        /\ op = Op.instr /\ rs = Registers(<<Op.reg>>) /\ target = U16(loc[Op.lex])
        /\ extra = U16(loc[Op.outer])
  OBVIOUS
<1>2. PICK in : in = [Emitted(op, rs) EXCEPT !.target = target, !.extra = extra]
  OBVIOUS
<1>3. /\ status = "compiling" /\ Act.todo # <<>> /\ Op.op = "access" /\ Continue
      /\ SetTop(Asm(frame[Top], in, 4)) /\ frames' = frames /\ cu'.callsites = cu.callsites
  BY <1>1, <1>2 DEF AccessLexical, Does, Proceed
<1>4. op \in {"getlex", "bindlex"}
  BY <1>1, <1>3, Discipline, Zenon DEF Constrained
<1>5. in = Made(op, rs, 0, target, extra, NoName, Act.id)
  BY <1>2, EmittedOperands, Zenon
<1>6. Plain(in)
  BY <1>4, <1>5, PlainOp DEF Made, Plain
<1>7. IsStraight(Op)
  BY <1>3 DEF IsStraight, IsPlainOp
<1>8. FillsPlainly
  BY <1>3, <1>6, EmitsPlainly
<1> QED
  BY <1>3, <1>7, <1>8, RestGoesOn

LEMMA GetCodeOn ==
  ASSUME NEW C, NEW B, NEW V, IInv(C, B, V), CallsInv, Inv', GetCode
  PROVE  CallsInv'
<1>1. PICK rs, slot, target :
        /\ rs = Registers(<<Op.dst>>) /\ slot = Size + 4
        /\ target = FrameOperand(IF Op.frame = "0" THEN 1 ELSE loc[Op.frame])
  OBVIOUS
<1>2. PICK in : in = [Emitted("getcode", rs) EXCEPT !.slot = slot, !.target = target]
  OBVIOUS
<1>3. /\ status = "compiling" /\ Act.todo # <<>> /\ Op.op = "getcode"
      /\ ContinueSet("func_pos", Size + 2 + 2)
      /\ SetTop(Asm(frame[Top], in, 2)) /\ frames' = frames /\ cu'.callsites = cu.callsites
  BY <1>1, <1>2 DEF GetCode, Does, Proceed
<1>4. in = Made("getcode", rs, slot, target, 0, NoName, Act.id)
  BY <1>2, EmittedJump, Zenon
<1>5. Plain(in)
  BY <1>4, PlainOp DEF Made, Plain
<1>6. IsStraight(Op) /\ "func_pos" \in Assigned(Op)
  BY <1>3 DEF IsStraight, IsPlainOp, Assigned
<1>7. FillsPlainly
  BY <1>3, <1>5, EmitsPlainly
<1> QED
  BY <1>3, <1>6, <1>7, SetGoesOn

LEMMA GotoOn ==
  ASSUME NEW C, NEW B, NEW V, IInv(C, B, V), CallsInv, Inv', Goto
  PROVE  CallsInv'
<1>1. PICK slot, target, lb : /\ slot = Size + 2 /\ target = Label(Op.label).address
                              /\ lb = Reserve(Op.label, slot)
  OBVIOUS
<1>2. PICK in : in = [Emitted("goto", <<>>) EXCEPT !.slot = slot, !.target = target]
  OBVIOUS
<1>3. /\ status = "compiling" /\ Act.todo # <<>> /\ Op.op = "goto" /\ Resume(Tail(Act.todo), loc, lb)
      /\ SetTop(Asm(frame[Top], in, 4)) /\ frames' = frames /\ cu'.callsites = cu.callsites
  BY <1>1, <1>2 DEF Goto, Does, Proceed
<1>4. in = Made("goto", <<>>, slot, target, 0, NoName, Act.id)
  BY <1>2, EmittedJump, Zenon
<1>5. Plain(in)
  BY <1>4, PlainOp DEF Made, Plain
<1>6. IsStraight(Op)
  BY <1>3 DEF IsStraight, IsPlainOp
<1>7. FillsPlainly
  BY <1>3, <1>5, EmitsPlainly
<1>8. slot # 0
  BY <1>1, <1>3, SizeNow
<1>9. NoneAtZero(lb)
  BY <1>1, <1>3, <1>8, ReservesNoneAtZero
<1> QED
  BY <1>3, <1>6, <1>7, <1>9, LabelGoesOn

LEMMA BranchOn ==
  ASSUME NEW C, NEW B, NEW V, IInv(C, B, V), CallsInv, Inv', Branch
  PROVE  CallsInv'
<1>1. PICK op, rs, slot, target, lb :
        /\ op = Op.name /\ rs = Registers(<<Op.on>>) /\ slot = Size + 2 + 2
        /\ target = U16(Label(Op.label).address) /\ lb = Reserve(Op.label, slot)
  OBVIOUS
<1>2. PICK in : in = [Emitted(op, rs) EXCEPT !.slot = slot, !.target = target]
  OBVIOUS
<1>3. status = "compiling" /\ Act.todo # <<>> /\ Op.op = "branch"
  BY DEF Branch, Does
<1>4. CASE Stop("assert")
  BY <1>4, StoppedOn DEF Stop
<1>5. CASE ~ Stop("assert")
  <2>1. /\ Resume(Tail(Act.todo), loc, lb) /\ SetTop(Asm(frame[Top], in, 4))
        /\ frames' = frames /\ cu'.callsites = cu.callsites
    BY <1>1, <1>2, <1>5 DEF Branch, Proceed
  <2>2. in = Made(op, rs, slot, target, 0, NoName, Act.id)
    BY <1>2, EmittedJump, Zenon
  <2>3. IsBranch(op)
    BY <1>1, <1>3, Discipline, Zenon DEF Constrained
  <2>4. Plain(in)
    BY <2>2, <2>3, PlainOp DEF Made, Plain
  <2>5. IsStraight(Op)
    BY <1>3 DEF IsStraight, IsPlainOp
  <2>6. FillsPlainly
    BY <1>3, <2>1, <2>4, EmitsPlainly
  <2>7. slot # 0
    BY <1>1, <1>3, SizeNow
  <2>8. NoneAtZero(lb)
    BY <1>1, <1>3, <2>7, ReservesNoneAtZero
  <2> QED
    BY <1>3, <2>1, <2>5, <2>6, <2>8, LabelGoesOn
<1> QED
  BY <1>4, <1>5

LEMMA ParamOptionalOn ==
  ASSUME NEW C, NEW B, NEW V, IInv(C, B, V), CallsInv, Inv', ParamOptional
  PROVE  CallsInv'
<1>1. PICK rs, slot, extra, lb :
        /\ rs = Registers(<<Op.on>>) /\ slot = Size + 1 + 1 + 2 + 2
        /\ extra = Op.index /\ lb = Reserve(Op.label, slot)
  OBVIOUS
<1>2. PICK in : in = [Emitted("param_op_o", rs) EXCEPT !.slot = slot, !.extra = extra]
  OBVIOUS
<1>3. /\ status = "compiling" /\ Act.todo # <<>> /\ Op.op = "paramop"
      /\ Resume(Tail(Act.todo), loc, lb)
      /\ SetTop(Asm(frame[Top], in, 6)) /\ frames' = frames /\ cu'.callsites = cu.callsites
  BY <1>1, <1>2 DEF ParamOptional, Does, Proceed
<1>4. in = Made("param_op_o", rs, slot, 0, extra, NoName, Act.id)
  BY <1>2, EmittedParam, Zenon
<1>5. Plain(in)
  BY <1>4, PlainOp DEF Made, Plain
<1>6. IsStraight(Op)
  BY <1>3 DEF IsStraight, IsPlainOp
<1>7. FillsPlainly
  BY <1>3, <1>5, EmitsPlainly
<1>8. slot # 0
  BY <1>1, <1>3, SizeNow
<1>9. NoneAtZero(lb)
  BY <1>1, <1>3, <1>8, ReservesNoneAtZero
<1> QED
  BY <1>3, <1>6, <1>7, <1>9, LabelGoesOn

LEMMA ThrowOn ==
  ASSUME NEW C, NEW B, NEW V, IInv(C, B, V), CallsInv, Inv', Throw
  PROVE  CallsInv'
<1>1. PICK op, rs, by : /\ op = Op.category /\ rs = Registers(<<Op.dst>>) /\ by = InnermostLoop
  OBVIOUS
<1>2. PICK in : in = [Emitted(op, rs) EXCEPT !.by = by]
  OBVIOUS
<1>3. /\ status = "compiling" /\ Act.todo # <<>> /\ Op.op = "throw" /\ Continue
      /\ SetTop(Asm(frame[Top], in, 8)) /\ frames' = frames /\ cu'.callsites = cu.callsites
  BY <1>1, <1>2 DEF Throw, Does, Proceed
<1>4. in = Made(op, rs, 0, 0, 0, NoName, by)
  BY <1>2, EmittedBy, Zenon
<1>5. IsThrow(op)
  BY <1>1, <1>3, Discipline, Zenon DEF Constrained
<1>6. Plain(in)
  BY <1>4, <1>5, PlainOp DEF Made, Plain
<1>7. IsStraight(Op)
  BY <1>3 DEF IsStraight, IsPlainOp
<1>8. FillsPlainly
  BY <1>3, <1>6, EmitsPlainly
<1> QED
  BY <1>3, <1>7, <1>8, RestGoesOn

LEMMA WvalOn ==
  ASSUME NEW C, NEW B, NEW V, IInv(C, B, V), CallsInv, Inv', Wval
  PROVE  CallsInv'
<1>1. PICK rs, target : rs = Registers(<<Op.dst>>) /\ target = loc[Op.sc]
  OBVIOUS
<1>2. PICK in : in = [Emitted("wval", rs) EXCEPT !.target = target]
  OBVIOUS
<1>3. /\ status = "compiling" /\ Act.todo # <<>> /\ Op.op = "wval" /\ Continue
      /\ SetTop(Asm(frame[Top], in, 4)) /\ frames' = frames /\ cu'.callsites = cu.callsites
  BY <1>1, <1>2 DEF Wval, Does, Proceed
<1>4. in = Made("wval", rs, 0, target, 0, NoName, Act.id)
  BY <1>2, EmittedTarget, Zenon
<1>5. Plain(in)
  BY <1>4, PlainOp DEF Made, Plain
<1>6. IsStraight(Op)
  BY <1>3 DEF IsStraight, IsPlainOp
<1>7. FillsPlainly
  BY <1>3, <1>5, EmitsPlainly
<1> QED
  BY <1>3, <1>6, <1>7, RestGoesOn
-----------------------------------------------------------------------------
(* The operations that write the buffer, in the frame on top.                 *)

(* Whatever the buffer of the activation was, it has one to go on with.       *)
Works(w, b) ==
  /\ w \in DOMAIN Buffers /\ <<Act.todo, b>> \in Buffers[w] /\ IsBuffer(b)
  /\ Knows(frame[Top], cu.callsites, Act, b) /\ Unpatched(frame[Top])
  /\ Len(cu.callsites) <= Word => Attended(frame[Top], cu.callsites)
WorksOn(w, b, s, ds) ==
  \E g : /\ IsBuffer(g) /\ g.depth = b.depth /\ g.quiet = b.quiet /\ <<Tail(Act.todo), g>> \in Buffers[w]
         /\ Fills(frame[Top], s, ds, b, Act, g)

LEMMA FilledOn ==
  ASSUME NEW C, NEW B, NEW V, IInv(C, B, V), status = "compiling", CallsInv,
         Continue, NEW s, SetTop(s), frames' = frames,
         NEW ds, cu'.callsites = ds, Longer(cu.callsites, ds),
         \A w, b : Works(w, b) => WorksOn(w, b, s, ds)
  PROVE  CallsInv'
<1>1. PICK G, P, W, fr, fs, ac, cs :
        /\ fr = frame /\ fs = frames /\ ac = acts /\ cs = cu.callsites
        /\ Buffered(G, P, W, fr, fs, ac, cs)
  BY Zenon DEF CallsInv
<1>2. Machine(fr, fs, ac) /\ ac # <<>>
  BY <1>1, MachineNow, ActsSome
<1>3. PICK n, top : n = Len(ac) /\ top = fs[Len(fs)]
  OBVIOUS
<1>4. Topmost(n, top, G, P, W, fr, fs, ac, cs)
  BY <1>1, <1>2, <1>3, TopFacts
<1>5. /\ IsAct(ac[n]) /\ W[n] \in DOMAIN Buffers /\ <<ac[n].todo, G[n]>> \in Buffers[W[n]]
      /\ Act = ac[n] /\ loc = ac[n].loc /\ lab = ac[n].lab /\ Top = top
  BY <1>1, <1>3, <1>4 DEF Topmost, Act, loc, lab, Top
<1>6. Works(W[n], G[n])
  BY <1>1, <1>4, <1>5 DEF Topmost, Works
<1>7. PICK g : /\ IsBuffer(g) /\ g.depth = G[n].depth /\ g.quiet = G[n].quiet
               /\ <<Tail(Act.todo), g>> \in Buffers[W[n]]
               /\ Fills(frame[Top], s, ds, G[n], Act, g)
  BY <1>6, Zenon DEF WorksOn
<1>8. PICK t, a : t = Tail(Act.todo) /\ a = Resumed(ac[n], t, loc, lab)
  OBVIOUS
<1>9. a.todo = t /\ a.loc = ac[n].loc /\ a.lab = ac[n].lab /\ a.dst = ac[n].dst /\ a.id = ac[n].id
  BY <1>5, <1>8, ActFields
<1>10. Carries(W[n], ac[n], G[n], a, g)
  BY <1>4, <1>5, <1>7, <1>8, <1>9 DEF Carries, Topmost
<1>11. Fills(fr[top], s, ds, G[n], a, g)
  <2>1. /\ s \in KijiFrame /\ (Plainly(fr[top], s) \/ ~ Silent(G[n])) /\ Unpatched(s)
        /\ Knows(s, ds, ac[n], g) /\ (Len(ds) <= Word => Attended(s, ds))
    BY <1>1, <1>5, <1>7 DEF Fills
  <2>2. Apart(ac[n], a, {})
    BY <1>9 DEF Apart
  <2>3. Knows(s, ds, a, g)
    BY <2>1, <2>2, KnowsApart
  <2> QED
    BY <2>1, <2>3 DEF Fills
<1>12. PICK H : Buffered(H, P, W, [fr EXCEPT ![fs[Len(fs)]] = s], fs, [ac EXCEPT ![Len(ac)] = a], ds)
  BY <1>1, <1>2, <1>3, <1>10, <1>11, TopGoesOn
<1>13. /\ frame' = [fr EXCEPT ![fs[Len(fs)]] = s] /\ frames' = fs
       /\ acts' = [ac EXCEPT ![Len(ac)] = a] /\ cu'.callsites = ds
  BY <1>1, <1>3, <1>5, <1>8 DEF SetTop, Continue, Resume, Resumed, Top
<1> QED
  BY <1>12, <1>13 DEF CallsInv

LEMMA StraightNow ==
  ASSUME Act.todo # <<>>, Op.op \in {"emit", "prepargs"}, NEW w, NEW b, Works(w, b)
  PROVE  /\ Permitted(Op, b) /\ <<Tail(Act.todo), Told(Op, b)>> \in Buffers[w]
<1>1. PICK todo : todo = Act.todo
  OBVIOUS
<1>2. Op = todo[1] /\ todo # <<>> /\ w \in DOMAIN Buffers /\ <<todo, b>> \in Buffers[w]
  BY <1>1 DEF Op, Works
<1>3. Tail(todo) \in Ways(todo)
  BY <1>2, OnlyWay
<1> QED
  BY <1>1, <1>2, <1>3, Ruled

LEMMA HeldNow ==
  ASSUME NEW C, NEW B, NEW V, IInv(C, B, V), status = "compiling", NEW v, IsRegisterOf(C[N], v)
  PROVE  /\ IsHeld(frame[Top], Act, v) /\ TypeIn(frame[Top], Act, v) = C[N].kinds[v].type
         /\ TypeIn(frame[Top], Act, v) = TypeOf(loc[v])
<1>1. IsLocal(frame[Top], loc[v]) /\ TypeOf(loc[v]) = C[N].kinds[v].type
  BY RegisterFits
<1>2. v \in DOMAIN loc
  <2>1. Values(loc, C[N].kinds, Levels(B[N], C[N].depth), C[N].depth, Len(frame))
    BY Now
  <2> QED
    BY <2>1 DEF Values, IsRegisterOf, Known
<1> QED
  BY <1>1, <1>2 DEF IsHeld, TypeIn, TypeOf, loc

LEMMA ArgumentTyped ==
  ASSUME NEW c, NEW args, AreRegisters(c, args), NEW op, IsArgument(op), TypesOf(c, args) \in Operands(op)
  PROVE  DOMAIN args = {1} /\ IsRegisterOf(c, args[1]) /\ c.kinds[args[1]].type = ArgumentFlag(op)
<1>1. Operands(op) = {<<ArgumentFlag(op)>>}
  BY DEF IsArgument, Operands, ArgumentFlag
<1>2. TypesOf(c, args) = <<ArgumentFlag(op)>>
  BY <1>1
<1>3. DOMAIN TypesOf(c, args) = DOMAIN args
  BY DEF TypesOf
<1>4. DOMAIN args = {1}
  BY <1>2, <1>3
<1>5. TypesOf(c, args)[1] = c.kinds[args[1]].type
  BY <1>4 DEF TypesOf
<1> QED
  BY <1>2, <1>4, <1>5 DEF AreRegisters

LEMMA EmitOn ==
  ASSUME NEW C, NEW B, NEW V, IInv(C, B, V), CallsInv, Inv', Emit
  PROVE  CallsInv'
<1>1. PICK op, args, target, extra, str, imm :
        /\ op = Op.name /\ args = Op.args /\ target = Op.val /\ extra = Op.extra /\ str = Op.str
        /\ imm = Op.imm
  OBVIOUS
<1>2. PICK in : in = [Emitted(op, Registers(args)) EXCEPT !.target = target, !.extra = extra, !.str = str]
  OBVIOUS
<1>3. /\ status = "compiling" /\ Act.todo # <<>> /\ Op.op = "emit" /\ Continue
      /\ SetTop(Asm(frame[Top], in, imm)) /\ frames' = frames /\ cu'.callsites = cu.callsites
  BY <1>1, <1>2 DEF Emit, Does, Proceed
<1>4. in = Made(op, Registers(args), 0, target, extra, str, Act.id)
  BY <1>2, EmittedValues, Zenon
<1>5. in.op = op /\ in.slot = 0 /\ in.target = target /\ in.by = Act.id
  BY <1>4 DEF Made
<1>6. AreRegisters(C[N], args) /\ TypesOf(C[N], args) \in Operands(op)
  BY <1>1, <1>3, Discipline, Zenon DEF Constrained
<1>7. CASE Plain(in)
  <2>1. IsStraight(Op)
    BY <1>1, <1>3, <1>5, <1>7 DEF IsStraight, IsPlainOp, Plain, InBuffer
  <2>2. FillsPlainly
    BY <1>3, <1>7, EmitsPlainly
  <2> QED
    BY <1>3, <2>1, <2>2, RestGoesOn
<1>8. PICK r, s, cs : r = frame[Top] /\ s = Asm(frame[Top], in, imm) /\ cs = cu.callsites
  OBVIOUS
<1>9. r \in KijiFrame /\ s \in KijiFrame /\ SetTop(s)
  BY <1>3, <1>8, TopThen
<1>10. Appends(r, s, in) /\ Longer(cs, cs)
  BY <1>8, <1>9, AsmAppends DEF Longer
<1>11. /\ Lasts(r, s) /\ (Unpatched(r) => Unpatched(s))
  BY <1>5, <1>9, <1>10, AppendsLasts
<1>12. CASE IsInvoke(op)
  <2> SUFFICES ASSUME NEW w, NEW b, Works(w, b)
               PROVE  WorksOn(w, b, s, cs)
    BY <1>3, <1>8, <1>9, <1>10, FilledOn
  <2>1. Permitted(Op, b) /\ <<Tail(Act.todo), Told(Op, b)>> \in Buffers[w]
    BY <1>3, StraightNow
  <2>2. PICK g : g = Empties(b, b.depth)
    OBVIOUS
  <2>3. ~ IsArgument(op)
    BY <1>12 DEF IsArgument, IsInvoke
  <2>4. Served(b) /\ ~ Silent(b) /\ Told(Op, b) = g
    BY <1>1, <1>3, <1>12, <2>1, <2>2, <2>3 DEF Permitted, Told
  <2>5. /\ IsBuffer(b) /\ Knows(r, cs, Act, b) /\ Unpatched(r)
        /\ Len(cs) <= Word => Attended(r, cs)
    BY <1>8 DEF Works
  <2>6. IsBuffer(g) /\ g.depth = b.depth /\ g.quiet = b.quiet /\ ~ Holding(g)
    BY <2>2, <2>5 DEF Empties, Buffer, IsBuffer, Holding
  <2>7. Knows(s, cs, Act, g)
    BY <2>6, NothingKnown
  <2>8. Len(cs) <= Word => Attended(s, cs)
    BY <1>5, <1>9, <1>10, <1>12, <2>4, <2>5, InvokeAttended
  <2>9. Fills(frame[Top], s, cs, b, Act, g)
    BY <1>8, <1>9, <1>11, <2>4, <2>5, <2>7, <2>8 DEF Fills
  <2> QED
    BY <2>1, <2>4, <2>6, <2>9 DEF WorksOn
<1>13. CASE IsArgument(op)
  <2>1. PICK v : v = args[1]
    OBVIOUS
  <2>2. DOMAIN args = {1} /\ IsRegisterOf(C[N], v) /\ C[N].kinds[v].type = ArgumentFlag(op)
    BY <1>6, <1>13, <2>1, ArgumentTyped
  <2>3. IsHeld(r, Act, v) /\ TypeIn(r, Act, v) = ArgumentFlag(op)
    BY <1>3, <1>8, <2>2, HeldNow
  <2> SUFFICES ASSUME NEW w, NEW b, Works(w, b)
               PROVE  WorksOn(w, b, s, cs)
    BY <1>3, <1>8, <1>9, <1>10, FilledOn
  <2>4. Permitted(Op, b) /\ <<Tail(Act.todo), Told(Op, b)>> \in Buffers[w]
    BY <1>3, StraightNow
  <2>5. PICK g : g = Passes(b, target, v)
    OBVIOUS
  <2>6. ~ IsInvoke(op)
    BY <1>13 DEF IsArgument, IsInvoke
  <2>7. ~ Silent(b) /\ Told(Op, b) = g
    BY <1>1, <1>3, <1>13, <2>1, <2>4, <2>5, <2>6 DEF Permitted, Told
  <2>8. /\ IsBuffer(b) /\ Knows(r, cs, Act, b) /\ Unpatched(r)
        /\ Len(cs) <= Word => Attended(r, cs)
    BY <1>8 DEF Works
  <2>9. IsBuffer(g) /\ g.depth = b.depth /\ g.quiet = b.quiet
    BY <2>5, <2>8 DEF Passes, Buffer, IsBuffer
  <2>10. Knows(s, cs, Act, g) /\ (Attended(r, cs) => Attended(s, cs))
    BY <1>5, <1>9, <1>10, <1>13, <2>3, <2>5, <2>8, KnowsArgument
  <2>11. Fills(frame[Top], s, cs, b, Act, g)
    BY <1>8, <1>9, <1>11, <2>7, <2>8, <2>10 DEF Fills
  <2> QED
    BY <2>4, <2>7, <2>9, <2>11 DEF WorksOn
<1>14. CASE op = "prepargs"
  <2> SUFFICES ASSUME NEW w, NEW b, Works(w, b)
               PROVE  FALSE
    BY <1>3, <1>8, <1>9, <1>10, FilledOn
  <2>1. Permitted(Op, b)
    BY <1>3, StraightNow
  <2> QED
    BY <1>1, <1>3, <1>14, <2>1 DEF Permitted
<1> QED
  BY <1>5, <1>7, <1>12, <1>13, <1>14 DEF Plain, InBuffer

LEMMA FlagsAreTypes ==
  ASSUME NEW C, NEW B, NEW V, IInv(C, B, V), status = "compiling",
         NEW args, AreRegisters(C[N], args)
  PROVE  /\ Flags(args) = TypesIn(frame[Top], Act, args)
         /\ \A i \in DOMAIN args : IsHeld(frame[Top], Act, args[i])
<1>1. \A i \in DOMAIN args : IsRegisterOf(C[N], args[i])
  BY DEF AreRegisters
<1>2. \A i \in DOMAIN args : /\ IsHeld(frame[Top], Act, args[i])
                             /\ TypeIn(frame[Top], Act, args[i]) = TypeOf(loc[args[i]])
  BY <1>1, HeldNow
<1> QED
  BY <1>2, Zenon DEF Flags, TypesIn

(* A position counted from 0 fits in 16 bits if the number of positions does.   *)
LEMMA PositionFits ==
  ASSUME NEW l \in Nat, NEW m \in 1..l, NEW no, no = m - 1
  PROVE  no + 1 = m /\ (l <= Word => U16(no) = no)
<1>1. Word \in Nat
  BY WordAssumption
<1>2. no + 1 = m
  OBVIOUS
<1>3. ASSUME l <= Word
      PROVE  no \in 0..(Word - 1)
  BY <1>1, <1>3
<1> QED
  BY <1>2, <1>3, U16Small

(* The callsite of flags is where prepargs says it is, if there are not too     *)
(* many of them.                                                             *)
SitesOf(cs, flags)   == {i \in DOMAIN cs : cs[i] = flags}
SiteOf(cs, flags)    == IF SitesOf(cs, flags) = {} THEN Len(cs) ELSE SetMin(SitesOf(cs, flags)) - 1
SitesWith(cs, flags) == IF SitesOf(cs, flags) = {} THEN Append(cs, flags) ELSE cs

LEMMA CallsiteOf ==
  ASSUME NEW cs, cs \in Seq(Seq(RegTypes)), NEW flags
  PROVE  /\ Longer(cs, SitesWith(cs, flags))
         /\ Len(SitesWith(cs, flags)) <= Word =>
              /\ U16(SiteOf(cs, flags)) + 1 \in DOMAIN SitesWith(cs, flags)
              /\ SitesWith(cs, flags)[U16(SiteOf(cs, flags)) + 1] = flags
<1>1. PICK same, no, ds :
        /\ same = SitesOf(cs, flags) /\ no = SiteOf(cs, flags) /\ ds = SitesWith(cs, flags)
  OBVIOUS
<1>2. /\ same = {i \in DOMAIN cs : cs[i] = flags}
      /\ no = (IF same = {} THEN Len(cs) ELSE SetMin(same) - 1)
      /\ ds = (IF same = {} THEN Append(cs, flags) ELSE cs)
  BY <1>1, Zenon DEF SitesOf, SiteOf, SitesWith
<1> SUFFICES /\ Longer(cs, ds)
             /\ Len(ds) <= Word => U16(no) + 1 \in DOMAIN ds /\ ds[U16(no) + 1] = flags
  BY <1>1, Zenon
<1>3. IsSeq(cs) /\ DOMAIN cs = 1..Len(cs) /\ Len(cs) \in Nat
  BY LenProperties DEF IsSeq
<1>4. Word \in Nat
  BY WordAssumption
<1>5. CASE same = {}
  <2>1. /\ Len(ds) = Len(cs) + 1 /\ DOMAIN ds = 1..(Len(cs) + 1) /\ ds[Len(cs) + 1] = flags
        /\ \A i \in 1..Len(cs) : ds[i] = cs[i]
    BY <1>2, <1>3, <1>5, AppendSeq
  <2>2. Longer(cs, ds)
    BY <1>3, <1>4, <2>1 DEF Longer
  <2>3. ASSUME Len(ds) <= Word
        PROVE  U16(no) = Len(cs)
    <3>1. no = Len(cs)
      BY <1>2, <1>5, Zenon
    <3>2. Len(cs) + 1 <= Word
      BY <2>1, <2>3
    <3>3. Len(cs) \in 0..(Word - 1)
      BY <1>3, <1>4, <3>2
    <3> QED
      BY <3>1, <3>3, U16Small
  <2> QED
    BY <1>3, <2>1, <2>2, <2>3
<1>6. CASE same # {}
  <2>1. same \subseteq Nat
    <3>1. \A i \in same : i \in DOMAIN cs
      BY <1>2, Zenon
    <3> QED
      BY <1>3, <3>1
  <2>2. \E x \in same : \A y \in same : x <= y
    BY <1>6, <2>1, MinNat
  <2>3. PICK m : m = SetMin(same)
    OBVIOUS
  <2>4. m \in same
    BY <2>2, <2>3 DEF SetMin
  <2>5. m \in 1..Len(cs) /\ cs[m] = flags /\ no = m - 1 /\ ds = cs
    BY <1>2, <1>3, <1>6, <2>3, <2>4
  <2>6. m \in 1..Len(cs) /\ no = m - 1 /\ Len(cs) \in Nat
    BY <1>3, <2>5, Zenon
  <2>7. no + 1 = m /\ (Len(cs) <= Word => U16(no) = no)
    BY <2>6, PositionFits
  <2>8. Longer(cs, ds)
    BY <2>5 DEF Longer
  <2>9. m \in DOMAIN cs /\ cs[m] = flags /\ ds = cs
    BY <1>3, <2>5, Zenon
  <2>10. ASSUME Len(ds) <= Word
         PROVE  U16(no) + 1 \in DOMAIN ds /\ ds[U16(no) + 1] = flags
    <3>1. U16(no) = no
      BY <2>7, <2>9, <2>10, Zenon
    <3>2. U16(no) + 1 = m
      BY <2>7, <3>1, Zenon
    <3> QED
      BY <2>9, <3>2, Zenon
  <2> QED
    BY <2>8, <2>10, Zenon
<1> QED
  BY <1>5, <1>6

LEMMA PrepArgsOn ==
  ASSUME NEW C, NEW B, NEW V, IInv(C, B, V), CallsInv, Inv', PrepArgs
  PROVE  CallsInv'
<1>1. PICK args, flags, same, cs, target, no, ds :
        /\ args = Op.args /\ flags = Flags(args) /\ same = SameCallsite(flags) /\ cs = cu.callsites
        /\ no = (IF same = {} THEN Len(cs) ELSE SetMin(same) - 1) /\ target = U16(no)
        /\ ds = IF same = {} THEN Append(cs, flags) ELSE cs
  OBVIOUS
<1>2. PICK in : in = [Emitted("prepargs", <<>>) EXCEPT !.target = target]
  OBVIOUS
<1>3. /\ status = "compiling" /\ Act.todo # <<>> /\ Op.op = "prepargs" /\ Continue
      /\ cu' = (IF same = {} THEN [cu EXCEPT !.callsites = Append(@, flags)] ELSE cu)
      /\ SetTop(Asm(frame[Top], in, 2)) /\ frames' = frames
  BY <1>1, <1>2 DEF PrepArgs, Does
<1>4. in = Made("prepargs", <<>>, 0, target, 0, NoName, Act.id)
  BY <1>2, EmittedTarget, Zenon
<1>5. in.op = "prepargs" /\ in.slot = 0 /\ in.target = target /\ in.by = Act.id
  BY <1>4 DEF Made
<1>6. AreRegisters(C[N], args)
  BY <1>1, <1>3, Discipline, Zenon DEF Constrained
<1>7. flags = TypesIn(frame[Top], Act, args) /\ \A i \in DOMAIN args : IsHeld(frame[Top], Act, args[i])
  BY <1>1, <1>3, <1>6, FlagsAreTypes
<1>8. UnitOK /\ cs \in Seq(Seq(RegTypes))
  BY <1>1, Zenon, UnitFields DEF IInv
<1>9. /\ Longer(cs, ds)
      /\ Len(ds) <= Word => target + 1 \in DOMAIN ds /\ ds[target + 1] = flags
  <2>1. same = {i \in DOMAIN cs : cs[i] = flags}
    BY <1>1 DEF SameCallsite
  <2>2. same = SitesOf(cs, flags)
    BY <2>1, Zenon DEF SitesOf
  <2>3. target = U16(SiteOf(cs, flags)) /\ ds = SitesWith(cs, flags)
    BY <1>1, <2>2, Zenon DEF SiteOf, SitesWith
  <2> QED
    BY <1>8, <2>3, CallsiteOf, Zenon
<1>10. cu'.callsites = ds
  BY <1>1, <1>3, <1>8 DEF UnitOK
<1>11. PICK r, s : r = frame[Top] /\ s = Asm(frame[Top], in, 2)
  OBVIOUS
<1>12. r \in KijiFrame /\ s \in KijiFrame /\ SetTop(s)
  BY <1>3, <1>11, TopThen
<1>13. Appends(r, s, in)
  BY <1>11, <1>12, AsmAppends
<1>14. /\ Lasts(r, s) /\ (Unpatched(r) => Unpatched(s))
  BY <1>5, <1>12, <1>13, AppendsLasts
<1> SUFFICES ASSUME NEW w, NEW b, Works(w, b)
             PROVE  WorksOn(w, b, s, ds)
  BY <1>1, <1>3, <1>9, <1>10, <1>12, FilledOn
<1>15. Permitted(Op, b) /\ <<Tail(Act.todo), Told(Op, b)>> \in Buffers[w]
  BY <1>3, StraightNow
<1>16. PICK g : g = Prepares(b, args)
  OBVIOUS
<1>17. ~ Silent(b) /\ Told(Op, b) = g
  BY <1>1, <1>3, <1>15, <1>16 DEF Permitted, Told
<1>18. /\ IsBuffer(b) /\ Knows(r, cs, Act, b) /\ Unpatched(r)
       /\ Len(cs) <= Word => Attended(r, cs)
  BY <1>1, <1>11 DEF Works
<1>19. IsBuffer(g) /\ g.depth = b.depth /\ g.quiet = b.quiet
  BY <1>16, <1>18 DEF Prepares, Buffer, IsBuffer
<1>20. Knows(s, ds, Act, g) /\ (Attended(r, cs) => Attended(s, ds))
  <2>1. Len(ds) <= Word => /\ in.target + 1 \in DOMAIN ds
                           /\ ds[in.target + 1] = TypesIn(r, Act, args)
    BY <1>5, <1>7, <1>9, <1>11
  <2>2. \A i \in DOMAIN args : IsHeld(r, Act, args[i])
    BY <1>7, <1>11
  <2> QED
    BY <1>5, <1>9, <1>12, <1>13, <1>16, <1>18, <2>1, <2>2, KnowsPrepared
<1>21. Len(ds) <= Word => Attended(s, ds)
  BY <1>9, <1>18, <1>20 DEF Longer
<1>22. Fills(frame[Top], s, ds, b, Act, g)
  BY <1>11, <1>12, <1>14, <1>17, <1>18, <1>20, <1>21 DEF Fills
<1> QED
  BY <1>15, <1>17, <1>19, <1>22 DEF WorksOn
-----------------------------------------------------------------------------
(* Handlers call and return, frames are pushed and popped.                    *)

PlacedIn(m, G, P, fs) ==
  /\ \A i \in 1..m : IsBuffer(G[i]) /\ P[i] \in DOMAIN fs /\ G[i].depth < P[i]
  /\ P[m] = Len(fs)
  /\ \A i, j \in 1..m : i < j =>
       /\ P[i] <= P[j] - G[j].depth
       /\ P[i] = P[j] - G[j].depth /\ Holding(G[i]) => G[j].quiet
  /\ \A i, j \in 1..m : j = i + 1 => P[i] = P[j] - G[j].depth
LEMMA PlacedAre ==
  ASSUME NEW m, NEW ac, DOMAIN ac = 1..m, Len(ac) = m, NEW fs, NEW G, NEW P,
         DOMAIN G = 1..m, DOMAIN P = 1..m, PlacedIn(m, G, P, fs)
  PROVE  Placed(G, P, fs, ac)
BY Zenon DEF Placed, PlacedIn

FollowsIn(m, G, W, ac) ==
  /\ \A i \in 1..m : /\ W[i] \in DOMAIN Buffers /\ <<ac[i].todo, G[i]>> \in Buffers[W[i]]
                     /\ NoneAtZero(ac[i].lab)
  /\ \A i, j \in 1..m : j = i + 1 => Forgotten(G[i], ac[j].dst)
LEMMA FollowsAre ==
  ASSUME NEW m, NEW ac, DOMAIN ac = 1..m, NEW G, NEW W, FollowsIn(m, G, W, ac)
  PROVE  Follows(G, W, ac)
BY Zenon DEF Follows, FollowsIn

(* A handler calls another, which it keeps quiet if it has arguments to lose.  *)
Calls(n, node, G, W, ac, bc) ==
  /\ Len(bc) = n + 1 /\ DOMAIN bc = 1..(n + 1) /\ \A i \in 1..(n - 1) : bc[i] = ac[i]
  /\ bc[n].loc = ac[n].loc /\ bc[n].lab = ac[n].lab /\ bc[n].dst = ac[n].dst /\ bc[n].id = ac[n].id
  /\ <<bc[n].todo, Forgets(G[n], {bc[n + 1].dst})>> \in Buffers[W[n]]
  /\ bc[n + 1].lab = <<>> /\ <<bc[n + 1].todo, Clear(Silent(G[n]) \/ Holding(G[n]))>> \in Buffers[node]

LEMMA CallsOther ==
  ASSUME NEW fr, NEW fs, NEW ac, NEW cs, Machine(fr, fs, ac), ac # <<>>,
         NEW G, NEW P, NEW W, Buffered(G, P, W, fr, fs, ac, cs), NEW n, n = Len(ac),
         NEW node \in DOMAIN Buffers, NEW bc, Calls(n, node, G, W, ac, bc)
  PROVE  \E H, Q, X : Buffered(H, Q, X, fr, fs, bc, cs)
<1>1. PICK top, m, vs, g, h : /\ top = fs[Len(fs)] /\ m = n + 1 /\ vs = {bc[m].dst}
                              /\ g = Forgets(G[n], vs) /\ h = Clear(Silent(G[n]) \/ Holding(G[n]))
  OBVIOUS
<1>2. Topmost(n, top, G, P, W, fr, fs, ac, cs)
  BY <1>1, TopFacts
<1>3. /\ n \in Nat /\ n >= 1 /\ DOMAIN ac = 1..n /\ n \in DOMAIN ac
      /\ IsBuffer(G[n]) /\ G[n].depth \in Nat /\ P[n] = Len(fs) /\ P[n] \in DOMAIN fs
      /\ fr[top] \in KijiFrame /\ W[n] \in DOMAIN Buffers
      /\ Knows(fr[top], cs, ac[n], G[n]) /\ NoneAtZero(ac[n].lab)
      /\ \A i \in DOMAIN ac : P[i] \in 1..Len(fs) /\ G[i].depth \in Nat
  BY <1>2, Zenon DEF Topmost
<1>4. /\ DOMAIN bc = 1..m /\ Len(bc) = m /\ m \in Nat /\ m = n + 1 /\ m # n
      /\ 1..m = 1..n \cup {m} /\ \A i \in 1..n : i < m /\ i # m /\ (i # n => i \in 1..(n - 1))
  BY <1>1, <1>3 DEF Calls
<1>5. /\ \A i \in 1..(n - 1) : bc[i] = ac[i]
      /\ bc[n].loc = ac[n].loc /\ bc[n].lab = ac[n].lab /\ bc[n].dst = ac[n].dst /\ bc[n].id = ac[n].id
      /\ <<bc[n].todo, g>> \in Buffers[W[n]]
      /\ bc[m].lab = <<>> /\ <<bc[m].todo, h>> \in Buffers[node]
  BY <1>1, Zenon DEF Calls
<1>6. PICK H, Q, X : /\ H = [i \in 1..m |-> IF i = m THEN h ELSE IF i = n THEN g ELSE G[i]]
                     /\ Q = [i \in 1..m |-> IF i = m THEN P[n] ELSE P[i]]
                     /\ X = [i \in 1..m |-> IF i = m THEN node ELSE W[i]]
  OBVIOUS
<1>7. /\ H[m] = h /\ Q[m] = P[n] /\ X[m] = node /\ H[n] = g /\ Q[n] = P[n] /\ X[n] = W[n]
      /\ \A i \in 1..n : Q[i] = P[i] /\ X[i] = W[i] /\ (i # n => H[i] = G[i] /\ bc[i] = ac[i])
      /\ DOMAIN H = 1..m /\ DOMAIN Q = 1..m
  BY <1>3, <1>4, <1>6, <1>5
<1>8. /\ IsBuffer(g) /\ g.quiet = G[n].quiet /\ g.depth = G[n].depth
      /\ g.passed \subseteq G[n].passed /\ g.ready \subseteq G[n].ready
      /\ \A p \in g.passed : p[2] \notin vs
      /\ \A args \in g.ready : \A i \in DOMAIN args : args[i] \notin vs
  BY <1>1, <1>3, ForgetsFields
<1>9. /\ IsBuffer(h) /\ h.depth = 0 /\ h.quiet = (Silent(G[n]) \/ Holding(G[n])) /\ ~ Holding(h)
  BY <1>1 DEF Clear, Buffer, IsBuffer, Holding
<1>10. /\ DOMAIN G = DOMAIN ac /\ DOMAIN P = DOMAIN ac
       /\ \A i \in DOMAIN ac : IsBuffer(G[i]) /\ P[i] \in DOMAIN fs /\ G[i].depth < P[i]
       /\ \A i, j \in DOMAIN ac : i < j =>
            /\ P[i] <= P[j] - G[j].depth
            /\ P[i] = P[j] - G[j].depth /\ Holding(G[i]) => G[j].quiet
       /\ \A i, j \in DOMAIN ac : j = i + 1 => P[i] = P[j] - G[j].depth
  BY Zenon DEF Buffered, Placed
<1>11. \A i \in 1..n : /\ H[i].depth = G[i].depth /\ H[i].quiet = G[i].quiet /\ IsBuffer(H[i])
                       /\ Holding(H[i]) => Holding(G[i])
  <2>1. Holding(g) => Holding(G[n])
    BY <1>8 DEF Holding
  <2>2. \A i \in 1..n : i # n => H[i] = G[i] /\ IsBuffer(G[i])
    BY <1>3, <1>7, <1>10
  <2> QED
    BY <1>3, <1>7, <1>8, <2>1, <2>2
<1>12. Len(fs) \in Nat /\ DOMAIN fs = 1..Len(fs) /\ \A f \in DOMAIN fs : fs[f] \in DOMAIN fr
  BY Zenon DEF Machine
<1>13. Placed(H, Q, fs, bc)
  <2>1. \A i \in 1..m : IsBuffer(H[i]) /\ Q[i] \in DOMAIN fs /\ H[i].depth < Q[i]
    <3>1. \A i \in 1..n : IsBuffer(H[i]) /\ Q[i] \in DOMAIN fs /\ H[i].depth < Q[i]
      BY <1>3, <1>7, <1>10, <1>11
    <3>2. IsBuffer(H[m]) /\ Q[m] \in DOMAIN fs /\ H[m].depth < Q[m]
      BY <1>3, <1>7, <1>9, <1>12
    <3> QED
      BY <1>4, <3>1, <3>2
  <2>2. Q[m] = Len(fs)
    BY <1>3, <1>7
  <2>3. ASSUME NEW i \in 1..n
        PROVE  Q[i] <= Q[m] - H[m].depth
    <3>1. P[i] \in 1..Len(fs) /\ Q[i] = P[i]
      BY <1>3, <1>7
    <3>2. Q[m] - H[m].depth = Len(fs)
      BY <1>7, <1>9, <1>12, <2>2
    <3> QED
      BY <1>12, <3>1, <3>2
  <2>4. ASSUME NEW i \in 1..n, Q[i] = Q[m] - H[m].depth, Holding(H[i])
        PROVE  H[m].quiet
    <3>1. P[i] = P[n] /\ Holding(G[i])
      BY <1>3, <1>7, <1>9, <1>11, <1>12, <2>4
    <3>2. CASE i = n
      BY <1>7, <1>9, <3>1, <3>2
    <3>3. CASE i # n
      <4>1. i < n
        BY <1>3, <3>3
      <4>2. P[i] <= P[n] - G[n].depth /\ (P[i] = P[n] - G[n].depth /\ Holding(G[i]) => G[n].quiet)
        BY <1>3, <1>10, <4>1
      <4>3. P[n] \in Nat
        BY <1>3, <1>12
      <4>4. G[n].depth = 0
        BY <1>3, <3>1, <4>2, <4>3
      <4>5. G[n].quiet
        BY <3>1, <4>2, <4>3, <4>4
      <4> QED
        BY <1>7, <1>9, <4>4, <4>5 DEF Silent
    <3> QED
      BY <3>2, <3>3
  <2>5. \A i, j \in 1..n : i < j =>
          /\ Q[i] <= Q[j] - H[j].depth
          /\ Q[i] = Q[j] - H[j].depth /\ Holding(H[i]) => H[j].quiet
    <3> SUFFICES ASSUME NEW i \in 1..n, NEW j \in 1..n, i < j
                 PROVE  /\ Q[i] <= Q[j] - H[j].depth
                        /\ Q[i] = Q[j] - H[j].depth /\ Holding(H[i]) => H[j].quiet
      OBVIOUS
    <3>1. /\ P[i] <= P[j] - G[j].depth
          /\ P[i] = P[j] - G[j].depth /\ Holding(G[i]) => G[j].quiet
      BY <1>3, <1>10
    <3>2. Q[i] = P[i] /\ Q[j] = P[j]
      BY <1>7
    <3>3. H[j].depth = G[j].depth /\ H[j].quiet = G[j].quiet /\ (Holding(H[i]) => Holding(G[i]))
      BY <1>11
    <3> QED
      BY <3>1, <3>2, <3>3
  <2>6. \A i, j \in 1..m : i < j =>
          /\ Q[i] <= Q[j] - H[j].depth
          /\ Q[i] = Q[j] - H[j].depth /\ Holding(H[i]) => H[j].quiet
    <3>1. \A i, j \in 1..m : i < j => i \in 1..n /\ (j \in 1..n \/ j = m)
      BY <1>3, <1>4
    <3> QED
      BY <2>3, <2>4, <2>5, <3>1
  <2>7. \A i, j \in 1..m : j = i + 1 => Q[i] = Q[j] - H[j].depth
    <3>1. Q[n] = Q[m] - H[m].depth
      BY <1>3, <1>7, <1>9, <1>12
    <3>2. \A i, j \in 1..n : j = i + 1 => Q[i] = Q[j] - H[j].depth
      <4> SUFFICES ASSUME NEW i \in 1..n, NEW j \in 1..n, j = i + 1
                   PROVE  Q[i] = Q[j] - H[j].depth
        OBVIOUS
      <4>1. P[i] = P[j] - G[j].depth
        BY <1>3, <1>10
      <4>2. Q[i] = P[i] /\ Q[j] = P[j] /\ H[j].depth = G[j].depth
        BY <1>7, <1>11
      <4> QED
        BY <4>1, <4>2
    <3>3. \A i, j \in 1..m : j = i + 1 => (i = n /\ j = m) \/ (i \in 1..n /\ j \in 1..n)
      BY <1>3, <1>4
    <3> QED
      BY <3>1, <3>2, <3>3
  <2> QED
    BY <1>4, <1>7, <2>1, <2>2, <2>6, <2>7, Zenon DEF Placed
<1>14. Follows(H, X, bc)
  <2>1. /\ \A i \in DOMAIN ac : /\ W[i] \in DOMAIN Buffers /\ <<ac[i].todo, G[i]>> \in Buffers[W[i]]
                                /\ NoneAtZero(ac[i].lab)
        /\ \A i, j \in DOMAIN ac : j = i + 1 => Forgotten(G[i], ac[j].dst)
    BY Zenon DEF Buffered, Follows
  <2>2. NoneAtZero(<<>>)
    BY DEF NoneAtZero
  <2>3. \A i \in 1..n : i # n =>
          /\ X[i] \in DOMAIN Buffers /\ <<bc[i].todo, H[i]>> \in Buffers[X[i]] /\ NoneAtZero(bc[i].lab)
    BY <1>3, <1>7, <2>1
  <2>4. /\ X[n] \in DOMAIN Buffers /\ <<bc[n].todo, H[n]>> \in Buffers[X[n]] /\ NoneAtZero(bc[n].lab)
        /\ X[m] \in DOMAIN Buffers /\ <<bc[m].todo, H[m]>> \in Buffers[X[m]] /\ NoneAtZero(bc[m].lab)
    BY <1>3, <1>7, <1>5, <2>2
  <2>5. Forgotten(H[n], bc[m].dst)
    <3>1. H[n] = g /\ bc[m].dst \in vs
      BY <1>1, <1>7
    <3>2. /\ \A p \in g.passed : p[2] # bc[m].dst
          /\ \A args \in g.ready : \A i \in DOMAIN args : args[i] # bc[m].dst
      BY <1>8, <3>1, Zenon
    <3> QED
      BY <3>1, <3>2, Zenon DEF Forgotten
  <2>6. \A i, j \in 1..n : j = i + 1 => Forgotten(H[i], bc[j].dst)
    <3>1. \A j \in 1..n : bc[j].dst = ac[j].dst
      BY <1>7, <1>5
    <3>2. \A i, j \in 1..n : j = i + 1 => i # n
      BY <1>3
    <3> QED
      BY <1>3, <1>7, <2>1, <3>1, <3>2
  <2>7. \A i, j \in 1..m : j = i + 1 => (i = n /\ j = m) \/ (i \in 1..n /\ j \in 1..n)
    BY <1>3, <1>4
  <2>8. \A i \in 1..m : X[i] \in DOMAIN Buffers /\ <<bc[i].todo, H[i]>> \in Buffers[X[i]] /\ NoneAtZero(bc[i].lab)
    BY <1>4, <2>3, <2>4
  <2>9. \A i, j \in 1..m : j = i + 1 => Forgotten(H[i], bc[j].dst)
    BY <2>5, <2>6, <2>7
  <2> QED
    BY <1>4, <2>8, <2>9, Zenon DEF Follows
<1>15. Aware(H, Q, fr, fs, bc, cs)
  <2>1. \A i \in DOMAIN ac : Knows(fr[fs[P[i]]], cs, ac[i], G[i])
    BY Zenon DEF Buffered, Aware
  <2>2. Knows(fr[fs[Q[m]]], cs, bc[m], H[m])
    BY <1>7, <1>9, NothingKnown
  <2>3. Knows(fr[top], cs, bc[n], g)
    <3>1. Apart(ac[n], bc[n], vs)
      BY <1>5 DEF Apart
    <3>2. Plainly(fr[top], fr[top]) /\ Longer(cs, cs)
      BY <1>3, PlainlySame DEF Longer
    <3> QED
      BY <1>3, <1>8, <3>1, <3>2, KnowsOn
  <2>4. Knows(fr[fs[Q[n]]], cs, bc[n], H[n])
    BY <1>1, <1>3, <1>7, <2>3
  <2>5. \A i \in 1..n : i # n => Knows(fr[fs[Q[i]]], cs, bc[i], H[i])
    BY <1>3, <1>7, <2>1
  <2>6. \A i \in 1..m : Knows(fr[fs[Q[i]]], cs, bc[i], H[i])
    BY <1>4, <2>2, <2>4, <2>5
  <2> QED
    BY <1>4, <2>6, Zenon DEF Aware
<1>16. Buffered(H, Q, X, fr, fs, bc, cs)
  BY <1>13, <1>14, <1>15 DEF Buffered
<1> QED
  BY <1>16, Zenon

(* It returns to its caller, which has forgotten the local that takes the     *)
(* value; the frame on top is the caller's again, since no frame is left.      *)
Returns(n, ac, bc) ==
  /\ Len(bc) = n - 1 /\ DOMAIN bc = 1..(n - 1) /\ \A i \in 1..(n - 1) : i # n - 1 => bc[i] = ac[i]
  /\ bc[n - 1].todo = ac[n - 1].todo /\ bc[n - 1].lab = ac[n - 1].lab /\ bc[n - 1].dst = ac[n - 1].dst
  /\ Apart(ac[n - 1], bc[n - 1], {ac[n].dst})

LEMMA ReturnsTo ==
  ASSUME NEW fr, NEW fs, NEW ac, NEW cs, Machine(fr, fs, ac), ac # <<>>,
         NEW G, NEW P, NEW W, Buffered(G, P, W, fr, fs, ac, cs), NEW n, n = Len(ac), n # 1,
         G[n].depth = 0, NEW bc, Returns(n, ac, bc)
  PROVE  \E H, Q, X : Buffered(H, Q, X, fr, fs, bc, cs)
<1>1. PICK top, m, vs : top = fs[Len(fs)] /\ m = n - 1 /\ vs = {ac[n].dst}
  OBVIOUS
<1>2. Topmost(n, top, G, P, W, fr, fs, ac, cs)
  BY <1>1, TopFacts
<1>3. /\ n \in Nat /\ n >= 1 /\ DOMAIN ac = 1..n /\ n \in DOMAIN ac
      /\ P[n] = Len(fs) /\ P[n] \in DOMAIN fs
      /\ \A i \in DOMAIN ac : P[i] \in 1..Len(fs) /\ G[i].depth \in Nat
  BY <1>2, Zenon DEF Topmost
<1>4. /\ DOMAIN bc = 1..m /\ Len(bc) = m /\ m \in Nat /\ n = m + 1 /\ m # n /\ m \in 1..m /\ m \in 1..n
      /\ \A i \in 1..m : i \in 1..n /\ i # n
      /\ \A i \in 1..m : i # m => bc[i] = ac[i]
  BY <1>1, <1>3 DEF Returns
<1>5. /\ bc[m].todo = ac[m].todo /\ bc[m].lab = ac[m].lab /\ bc[m].dst = ac[m].dst
      /\ Apart(ac[m], bc[m], vs)
  BY <1>1, Zenon DEF Returns
<1>6. PICK H, Q : H = [i \in 1..m |-> G[i]] /\ Q = [i \in 1..m |-> P[i]]
  OBVIOUS
<1>7. /\ DOMAIN H = 1..m /\ DOMAIN Q = 1..m /\ \A i \in 1..m : H[i] = G[i] /\ Q[i] = P[i]
      /\ \A i \in 1..m : bc[i].todo = ac[i].todo /\ bc[i].lab = ac[i].lab /\ bc[i].dst = ac[i].dst
  BY <1>4, <1>5, <1>6
<1>8. Len(fs) \in Nat /\ DOMAIN fs = 1..Len(fs)
  BY Zenon DEF Machine
<1>9. /\ \A i \in DOMAIN ac : IsBuffer(G[i]) /\ P[i] \in DOMAIN fs /\ G[i].depth < P[i]
      /\ \A i, j \in DOMAIN ac : i < j =>
           /\ P[i] <= P[j] - G[j].depth
           /\ P[i] = P[j] - G[j].depth /\ Holding(G[i]) => G[j].quiet
      /\ \A i, j \in DOMAIN ac : j = i + 1 => P[i] = P[j] - G[j].depth
  BY Zenon DEF Buffered, Placed
<1>10. Placed(H, Q, fs, bc)
  <2>1. Q[m] = Len(fs)
    <3>1. P[m] = P[n] - G[n].depth
      BY <1>3, <1>4, <1>9
    <3> QED
      BY <1>3, <1>4, <1>7, <1>8, <3>1
  <2>2. ASSUME NEW i \in 1..m
        PROVE  IsBuffer(H[i]) /\ Q[i] \in DOMAIN fs /\ H[i].depth < Q[i]
    <3>1. i \in DOMAIN ac /\ H[i] = G[i] /\ Q[i] = P[i]
      BY <1>3, <1>4, <1>7
    <3> QED
      BY <1>9, <3>1, Zenon
  <2>3. ASSUME NEW i \in 1..m, NEW j \in 1..m, i < j
        PROVE  /\ Q[i] <= Q[j] - H[j].depth
               /\ Q[i] = Q[j] - H[j].depth /\ Holding(H[i]) => H[j].quiet
    <3>1. /\ P[i] <= P[j] - G[j].depth
          /\ P[i] = P[j] - G[j].depth /\ Holding(G[i]) => G[j].quiet
      BY <1>3, <1>4, <1>9, <2>3
    <3>2. Q[i] = P[i] /\ Q[j] = P[j] /\ H[i] = G[i] /\ H[j] = G[j]
      BY <1>7
    <3> QED
      BY <3>1, <3>2
  <2>4. ASSUME NEW i \in 1..m, NEW j \in 1..m, j = i + 1
        PROVE  Q[i] = Q[j] - H[j].depth
    <3>1. P[i] = P[j] - G[j].depth
      BY <1>3, <1>4, <1>9, <2>4
    <3>2. Q[i] = P[i] /\ Q[j] = P[j] /\ H[j] = G[j]
      BY <1>7
    <3> QED
      BY <3>1, <3>2
  <2>5. PlacedIn(m, H, Q, fs)
    BY <2>1, <2>2, <2>3, <2>4, Zenon DEF PlacedIn
  <2> QED
    BY <1>4, <1>7, <2>5, PlacedAre
<1>11. Follows(H, W, bc)
  <2>1. /\ \A i \in DOMAIN ac : /\ W[i] \in DOMAIN Buffers /\ <<ac[i].todo, G[i]>> \in Buffers[W[i]]
                                /\ NoneAtZero(ac[i].lab)
        /\ \A i, j \in DOMAIN ac : j = i + 1 => Forgotten(G[i], ac[j].dst)
    BY Zenon DEF Buffered, Follows
  <2>2. ASSUME NEW i \in 1..m
        PROVE  /\ W[i] \in DOMAIN Buffers /\ <<bc[i].todo, H[i]>> \in Buffers[W[i]]
               /\ NoneAtZero(bc[i].lab)
    <3>1. i \in DOMAIN ac /\ bc[i].todo = ac[i].todo /\ bc[i].lab = ac[i].lab /\ H[i] = G[i]
      BY <1>3, <1>4, <1>7
    <3> QED
      BY <2>1, <3>1
  <2>3. ASSUME NEW i \in 1..m, NEW j \in 1..m, j = i + 1
        PROVE  Forgotten(H[i], bc[j].dst)
    <3>1. i \in DOMAIN ac /\ j \in DOMAIN ac
      BY <1>3, <1>4
    <3>2. Forgotten(G[i], ac[j].dst)
      BY <2>1, <2>3, <3>1, Zenon
    <3>3. H[i] = G[i] /\ bc[j].dst = ac[j].dst
      BY <1>7
    <3> QED
      BY <3>2, <3>3
  <2>4. FollowsIn(m, H, W, bc)
    BY <2>2, <2>3, Zenon DEF FollowsIn
  <2> QED
    BY <1>4, <2>4, FollowsAre
<1>12. Aware(H, Q, fr, fs, bc, cs)
  <2>1. \A i \in DOMAIN ac : Knows(fr[fs[P[i]]], cs, ac[i], G[i])
    BY Zenon DEF Buffered, Aware
  <2>2. Knows(fr[fs[Q[m]]], cs, bc[m], H[m])
    <3>1. PICK r, g : r = fr[fs[P[m]]] /\ g = G[m]
      OBVIOUS
    <3>2. r \in KijiFrame
      BY <1>3, <1>4, <1>9, <3>1 DEF Machine
    <3>3. Plainly(r, r) /\ Longer(cs, cs)
      BY <3>2, PlainlySame DEF Longer
    <3>4. Forgotten(g, ac[n].dst)
      BY <1>3, <1>4, <3>1 DEF Buffered, Follows
    <3>5. /\ \A p \in g.passed : p[2] \notin vs
          /\ \A args \in g.ready : \A i \in DOMAIN args : args[i] \notin vs
      BY <1>1, <3>4 DEF Forgotten
    <3>6. Knows(r, cs, ac[m], g)
      BY <1>3, <1>4, <2>1, <3>1
    <3>7. Knows(r, cs, bc[m], g)
      BY <1>5, <3>2, <3>3, <3>5, <3>6, KnowsOn
    <3> QED
      BY <1>4, <1>7, <3>1, <3>7
  <2>3. \A i \in 1..m : i # m => Knows(fr[fs[Q[i]]], cs, bc[i], H[i])
    BY <1>3, <1>4, <1>7, <2>1
  <2>4. \A i \in 1..m : Knows(fr[fs[Q[i]]], cs, bc[i], H[i])
    BY <2>2, <2>3
  <2> QED
    BY <1>4, <2>4, Zenon DEF Aware
<1>13. Buffered(H, Q, W, fr, fs, bc, cs)
  BY <1>10, <1>11, <1>12 DEF Buffered
<1> QED
  BY <1>13, Zenon

(* A handler pushes a frame, or pops one of those it has pushed: the buffer is  *)
(* empty then, and nothing the callers know of is concerned.                   *)
Moves(n, G, P, W, fr, fs, ac, fr2, fs2, bc, g) ==
  /\ Len(bc) = n /\ DOMAIN bc = 1..n /\ \A i \in 1..n : i # n => bc[i] = ac[i]
  /\ bc[n].lab = ac[n].lab /\ bc[n].dst = ac[n].dst /\ <<bc[n].todo, g>> \in Buffers[W[n]]
  /\ IsBuffer(g) /\ g.quiet = G[n].quiet /\ ~ Holding(g)
  /\ Len(fs2) \in Nat /\ DOMAIN fs2 = 1..Len(fs2) /\ g.depth < Len(fs2)
  /\ Len(fs2) - g.depth = Len(fs) - G[n].depth
  /\ \A i \in 1..(Len(fs) - G[n].depth) : i \in DOMAIN fs2 /\ fr2[fs2[i]] = fr[fs[i]]

LEMMA MovesTop ==
  ASSUME NEW fr, NEW fs, NEW ac, NEW cs, Machine(fr, fs, ac), ac # <<>>,
         NEW G, NEW P, NEW W, Buffered(G, P, W, fr, fs, ac, cs), NEW n, n = Len(ac),
         NEW fr2, NEW fs2, NEW bc, NEW g, Moves(n, G, P, W, fr, fs, ac, fr2, fs2, bc, g),
         Answered(fr2, cs)
  PROVE  \E H, Q, X : Buffered(H, Q, X, fr2, fs2, bc, cs)
<1>1. PICK top, p, d : top = fs[Len(fs)] /\ p = Len(fs2) /\ d = G[n].depth
  OBVIOUS
<1>2. Topmost(n, top, G, P, W, fr, fs, ac, cs)
  BY <1>1, TopFacts
<1>3. /\ n \in Nat /\ n >= 1 /\ DOMAIN ac = 1..n /\ n \in DOMAIN ac /\ d \in Nat
      /\ P[n] = Len(fs) /\ W[n] \in DOMAIN Buffers /\ NoneAtZero(ac[n].lab)
      /\ \A i \in DOMAIN ac : P[i] \in 1..Len(fs) /\ G[i].depth \in Nat
  BY <1>1, <1>2, Zenon DEF Topmost
<1>4. Len(fs) \in Nat /\ DOMAIN fs = 1..Len(fs)
  BY Zenon DEF Machine
<1>5. /\ Len(bc) = n /\ DOMAIN bc = 1..n /\ \A i \in 1..n : i # n => bc[i] = ac[i]
      /\ bc[n].lab = ac[n].lab /\ bc[n].dst = ac[n].dst /\ <<bc[n].todo, g>> \in Buffers[W[n]]
      /\ IsBuffer(g) /\ g.quiet = G[n].quiet /\ ~ Holding(g)
  BY Zenon DEF Moves
<1>6. /\ p \in Nat /\ DOMAIN fs2 = 1..p /\ g.depth < p /\ p - g.depth = Len(fs) - d
      /\ \A i \in 1..(Len(fs) - d) : i \in DOMAIN fs2 /\ fr2[fs2[i]] = fr[fs[i]]
  BY <1>1, Zenon DEF Moves
<1>7. PICK H, Q : /\ H = [i \in 1..n |-> IF i = n THEN g ELSE G[i]]
                  /\ Q = [i \in 1..n |-> IF i = n THEN p ELSE P[i]]
  OBVIOUS
<1>8. /\ DOMAIN H = 1..n /\ DOMAIN Q = 1..n /\ n \in 1..n /\ H[n] = g /\ Q[n] = p
      /\ \A i \in 1..n : i # n => H[i] = G[i] /\ Q[i] = P[i]
  BY <1>3, <1>7
<1>9. /\ \A i \in DOMAIN ac : IsBuffer(G[i]) /\ P[i] \in DOMAIN fs /\ G[i].depth < P[i]
      /\ \A i, j \in DOMAIN ac : i < j =>
           /\ P[i] <= P[j] - G[j].depth
           /\ P[i] = P[j] - G[j].depth /\ Holding(G[i]) => G[j].quiet
      /\ \A i, j \in DOMAIN ac : j = i + 1 => P[i] = P[j] - G[j].depth
  BY Zenon DEF Buffered, Placed
<1>10. ASSUME NEW i \in 1..n, i # n
       PROVE  /\ i \in DOMAIN ac /\ P[i] \in 1..(Len(fs) - d) /\ P[i] \in DOMAIN fs2
              /\ fr2[fs2[P[i]]] = fr[fs[P[i]]]
  <2>1. i < n /\ i \in DOMAIN ac
    BY <1>3, <1>10
  <2>2. P[i] <= Len(fs) - d
    BY <1>1, <1>3, <1>9, <2>1
  <2>3. P[i] \in 1..(Len(fs) - d)
    BY <1>3, <1>4, <2>1, <2>2
  <2> QED
    BY <1>6, <2>1, <2>3
<1>11. Placed(H, Q, fs2, bc)
  <2>1. ASSUME NEW i \in 1..n
        PROVE  IsBuffer(H[i]) /\ Q[i] \in DOMAIN fs2 /\ H[i].depth < Q[i]
    <3>1. CASE i = n
      <4>1. p \in DOMAIN fs2
        BY <1>5, <1>6 DEF IsBuffer
      <4> QED
        BY <1>5, <1>6, <1>8, <3>1, <4>1
    <3>2. CASE i # n
      <4>1. H[i] = G[i] /\ Q[i] = P[i]
        BY <1>8, <3>2
      <4> QED
        BY <1>9, <1>10, <3>2, <4>1
    <3> QED
      BY <3>1, <3>2
  <2>2. ASSUME NEW i \in 1..n, NEW j \in 1..n, i < j
        PROVE  /\ Q[i] <= Q[j] - H[j].depth
               /\ Q[i] = Q[j] - H[j].depth /\ Holding(H[i]) => H[j].quiet
    <3>1. i # n /\ i \in DOMAIN ac /\ j \in DOMAIN ac
      BY <1>3, <2>2
    <3>2. /\ P[i] <= P[j] - G[j].depth
          /\ P[i] = P[j] - G[j].depth /\ Holding(G[i]) => G[j].quiet
      BY <1>9, <2>2, <3>1
    <3>3. Q[i] = P[i] /\ H[i] = G[i]
      BY <1>8, <3>1
    <3>4. Q[j] - H[j].depth = P[j] - G[j].depth /\ H[j].quiet = G[j].quiet
      <4>1. CASE j = n
        BY <1>1, <1>3, <1>5, <1>6, <1>8, <4>1
      <4>2. CASE j # n
        BY <1>8, <4>2
      <4> QED
        BY <4>1, <4>2
    <3> QED
      BY <3>2, <3>3, <3>4
  <2>3. ASSUME NEW i \in 1..n, NEW j \in 1..n, j = i + 1
        PROVE  Q[i] = Q[j] - H[j].depth
    <3>1. i # n /\ i \in DOMAIN ac /\ j \in DOMAIN ac
      BY <1>3, <2>3
    <3>2. P[i] = P[j] - G[j].depth
      BY <1>9, <2>3, <3>1
    <3>3. Q[i] = P[i]
      BY <1>8, <3>1
    <3>4. Q[j] - H[j].depth = P[j] - G[j].depth
      <4>1. CASE j = n
        BY <1>1, <1>3, <1>6, <1>8, <4>1
      <4>2. CASE j # n
        BY <1>8, <4>2
      <4> QED
        BY <4>1, <4>2
    <3> QED
      BY <3>2, <3>3, <3>4
  <2>4. PlacedIn(n, H, Q, fs2)
    BY <1>1, <1>8, <2>1, <2>2, <2>3, Zenon DEF PlacedIn
  <2> QED
    BY <1>5, <1>8, <2>4, PlacedAre
<1>12. Follows(H, W, bc)
  <2>1. /\ \A i \in DOMAIN ac : /\ W[i] \in DOMAIN Buffers /\ <<ac[i].todo, G[i]>> \in Buffers[W[i]]
                                /\ NoneAtZero(ac[i].lab)
        /\ \A i, j \in DOMAIN ac : j = i + 1 => Forgotten(G[i], ac[j].dst)
    BY Zenon DEF Buffered, Follows
  <2>2. ASSUME NEW i \in 1..n
        PROVE  /\ W[i] \in DOMAIN Buffers /\ <<bc[i].todo, H[i]>> \in Buffers[W[i]]
               /\ NoneAtZero(bc[i].lab)
    <3>1. CASE i = n
      BY <1>3, <1>5, <1>8, <3>1
    <3>2. CASE i # n
      BY <1>3, <1>5, <1>8, <2>1, <3>2
    <3> QED
      BY <3>1, <3>2
  <2>3. ASSUME NEW i \in 1..n, NEW j \in 1..n, j = i + 1
        PROVE  Forgotten(H[i], bc[j].dst)
    <3>1. i # n /\ i \in DOMAIN ac /\ j \in DOMAIN ac
      BY <1>3, <2>3
    <3>2. H[i] = G[i]
      BY <1>8, <3>1
    <3>3. bc[j].dst = ac[j].dst
      BY <1>5
    <3> QED
      BY <2>1, <2>3, <3>1, <3>2, <3>3
  <2>4. FollowsIn(n, H, W, bc)
    BY <2>2, <2>3, Zenon DEF FollowsIn
  <2> QED
    BY <1>5, <2>4, FollowsAre
<1>13. Aware(H, Q, fr2, fs2, bc, cs)
  <2>1. ASSUME NEW i \in 1..n
        PROVE  Knows(fr2[fs2[Q[i]]], cs, bc[i], H[i])
    <3>1. CASE i = n
      <4>1. ~ Holding(H[i])
        BY <1>5, <1>8, <3>1
      <4> QED
        BY <4>1, NothingKnown
    <3>2. CASE i # n
      <4>1. Knows(fr[fs[P[i]]], cs, ac[i], G[i])
        BY <1>10, <3>2, Zenon DEF Buffered, Aware
      <4>2. Q[i] = P[i] /\ H[i] = G[i] /\ bc[i] = ac[i] /\ fr2[fs2[P[i]]] = fr[fs[P[i]]]
        BY <1>5, <1>8, <1>10, <3>2
      <4> QED
        BY <4>1, <4>2
    <3> QED
      BY <3>1, <3>2
  <2> QED
    BY <1>5, <2>1, Zenon DEF Aware
<1>14. Buffered(H, Q, W, fr2, fs2, bc, cs)
  BY <1>11, <1>12, <1>13 DEF Buffered
<1> QED
  BY <1>14, Zenon
-----------------------------------------------------------------------------
LEMMA ChildOn ==
  ASSUME NEW C, NEW B, NEW V, IInv(C, B, V), CallsInv, Child
  PROVE  CallsInv'
<1>1. /\ status = "compiling" /\ Act.todo # <<>> /\ Op.op = "child"
      /\ acts' = Append([acts EXCEPT ![Len(acts)].todo = Tail(@)],
                        Activation(Script(Op.node), Op.dst, calls + 1))
      /\ frame' = frame /\ frames' = frames /\ cu' = cu
  BY DEF Child, Does
<1>2. PICK G, P, W, fr, fs, ac, cs :
        /\ fr = frame /\ fs = frames /\ ac = acts /\ cs = cu.callsites
        /\ Buffered(G, P, W, fr, fs, ac, cs)
  BY Zenon DEF CallsInv
<1>3. Machine(fr, fs, ac) /\ ac # <<>>
  BY <1>1, <1>2, MachineNow, ActsSome
<1>4. PICK n, top, node, dst, id, todo :
        /\ n = Len(ac) /\ top = fs[Len(fs)] /\ node = Op.node /\ dst = Op.dst /\ id = calls + 1
        /\ todo = Act.todo
  OBVIOUS
<1>5. Topmost(n, top, G, P, W, fr, fs, ac, cs)
  BY <1>2, <1>3, <1>4, TopFacts
<1>6. /\ n \in Nat /\ n >= 1 /\ DOMAIN ac = 1..n /\ n \in DOMAIN ac /\ IsAct(ac[n])
      /\ W[n] \in DOMAIN Buffers /\ <<ac[n].todo, G[n]>> \in Buffers[W[n]]
  BY <1>5, Zenon DEF Topmost
<1>7. Act = ac[n] /\ todo = ac[n].todo /\ todo # <<>> /\ todo[1] = Op
  BY <1>1, <1>2, <1>4 DEF Act, Op
<1>8. BuffersNode(Buffers, node, Silent(G[n]) \/ Holding(G[n]))
  BY <1>1, <1>4, <1>6, <1>7, Ruled
<1>9. <<Tail(todo), Forgets(G[n], {dst})>> \in Buffers[W[n]]
  <2>1. todo[1].op = "child" /\ todo[1].dst = dst
    BY <1>1, <1>4, <1>7
  <2>2. IsPlainOp(todo[1])
    BY <2>1 DEF IsPlainOp
  <2>3. Tail(todo) \in Ways(todo)
    BY <2>1, OnlyWay
  <2>4. Assigned(todo[1]) = {dst}
    BY <2>1 DEF Assigned
  <2>5. Goes(todo, Tail(todo), {dst})
    BY <1>7, <2>2, <2>3, <2>4, PlainWays
  <2> QED
    BY <1>6, <1>7, <2>5 DEF Goes
<1>10. PICK a, b : a = Activation(Script(node), dst, id) /\ b = [ac[n] EXCEPT !.todo = Tail(todo)]
  OBVIOUS
<1>11. a.todo = Script(node) /\ a.dst = dst /\ a.lab = <<>>
  BY <1>10 DEF Activation
<1>12. /\ b.todo = Tail(todo) /\ b.loc = ac[n].loc /\ b.lab = ac[n].lab /\ b.dst = ac[n].dst
       /\ b.id = ac[n].id
  BY <1>6, <1>10 DEF IsAct
<1>13. PICK waiting, bc : waiting = [ac EXCEPT ![n] = b] /\ bc = Append(waiting, a)
  OBVIOUS
<1>14. acts' = bc
  BY <1>1, <1>2, <1>4, <1>6, <1>7, <1>10, <1>13
<1>15. IsSeq(ac)
  BY <1>3, Zenon DEF Machine
<1>16. /\ IsSeq(waiting) /\ Len(waiting) = n /\ waiting[n] = b
       /\ \A i \in 1..n : i # n => waiting[i] = ac[i]
  <2>1. waiting = Put(ac, n, b)
    BY <1>13 DEF Put
  <2>2. /\ IsSeq(waiting) /\ Len(waiting) = Len(ac) /\ DOMAIN waiting = DOMAIN ac /\ waiting[n] = b
        /\ \A i \in DOMAIN ac : i # n => waiting[i] = ac[i]
    <3>1. IsSeq(ac) /\ n \in DOMAIN ac
      BY <1>6, <1>15, Zenon
    <3> QED
      BY <2>1, <3>1, Replaced
  <2> QED
    BY <1>4, <1>6, <2>2
<1>17. /\ Len(bc) = n + 1 /\ DOMAIN bc = 1..(n + 1) /\ bc[n + 1] = a
       /\ \A i \in 1..n : bc[i] = waiting[i]
  BY <1>13, <1>16, AppendSeq
<1>18. bc[n] = b /\ \A i \in 1..(n - 1) : bc[i] = ac[i]
  BY <1>6, <1>16, <1>17
<1>19. node \in DOMAIN Buffers /\ Calls(n, node, G, W, ac, bc)
  <2>1. node \in DOMAIN Buffers /\ <<a.todo, Clear(Silent(G[n]) \/ Holding(G[n]))>> \in Buffers[node]
    BY <1>8, <1>11, Zenon DEF BuffersNode
  <2> QED
    BY <1>9, <1>11, <1>12, <1>17, <1>18, <2>1 DEF Calls
<1>20. \E H, Q, X : Buffered(H, Q, X, fr, fs, bc, cs)
  BY <1>2, <1>3, <1>4, <1>19, CallsOther
<1> QED
  BY <1>1, <1>2, <1>14, <1>20 DEF CallsInv

LEMMA ReturnOn ==
  ASSUME NEW C, NEW B, NEW V, IInv(C, B, V), CallsInv, Return
  PROVE  CallsInv'
<1>1. /\ status = "compiling" /\ Act.todo # <<>> /\ Op.op = "return"
      /\ frame' = frame /\ frames' = frames /\ cu' = cu
  BY DEF Return, Does
<1>2. PICK G, P, W, fr, fs, ac, cs :
        /\ fr = frame /\ fs = frames /\ ac = acts /\ cs = cu.callsites
        /\ Buffered(G, P, W, fr, fs, ac, cs)
  BY Zenon DEF CallsInv
<1>3. Machine(fr, fs, ac) /\ ac # <<>>
  BY <1>1, <1>2, MachineNow, ActsSome
<1>4. PICK n, m, top, dst : n = Len(ac) /\ m = n - 1 /\ top = fs[Len(fs)] /\ dst = Act.dst
  OBVIOUS
<1>5. Topmost(n, top, G, P, W, fr, fs, ac, cs)
  BY <1>2, <1>3, <1>4, TopFacts
<1>6. /\ n \in Nat /\ n >= 1 /\ DOMAIN ac = 1..n /\ n \in DOMAIN ac
      /\ W[n] \in DOMAIN Buffers /\ <<ac[n].todo, G[n]>> \in Buffers[W[n]]
  BY <1>5, Zenon DEF Topmost
<1>7. Act = ac[n] /\ Act.todo = ac[n].todo
  BY <1>2, <1>4 DEF Act
<1>8. G[n].depth = 0
  <2>1. Permitted(ac[n].todo[1], G[n])
    BY <1>1, <1>6, <1>7, Ruled
  <2> QED
    BY <1>1, <1>7, <2>1 DEF Permitted, Op
<1>9. CASE n = 1
  <2>1. acts' = <<>>
    BY <1>2, <1>4, <1>9 DEF Return
  <2>2. PICK none : none = <<>>
    OBVIOUS
  <2>3. DOMAIN none = {} /\ none = <<>>
    BY <2>2
  <2>4. Placed(none, none, fs, none) /\ Follows(none, none, none) /\ Aware(none, none, fr, fs, none, cs)
    BY <2>3 DEF Placed, Follows, Aware
  <2>5. Buffered(none, none, none, fr, fs, none, cs)
    BY <1>2, <2>4, Zenon DEF Buffered
  <2> QED
    BY <1>1, <1>2, <2>1, <2>3, <2>5 DEF CallsInv
<1>10. CASE n # 1
  <2>1. PICK x, rest :
          /\ rest = SubSeq(ac, 1, Len(ac) - 1)
          /\ acts' = [rest EXCEPT ![Len(rest)].loc = Assign(@, dst, x)]
    BY <1>2, <1>4, <1>10 DEF Return
  <2>2. IsSeq(ac)
    BY <1>3, Zenon DEF Machine
  <2>3. IsSeq(rest) /\ Len(rest) = m /\ DOMAIN rest = 1..m /\ \A i \in 1..m : rest[i] = ac[i]
    BY <1>3, <1>4, <2>1, <2>2, FrontSeq
  <2>4. m \in 1..m /\ m \in DOMAIN rest /\ m \in DOMAIN ac
    BY <1>4, <1>6, <1>10, <2>3
  <2>5. IsAct(ac[m]) /\ rest[m] = ac[m]
    BY <1>3, <2>3, <2>4 DEF Machine
  <2>6. PICK b : b = [ac[m] EXCEPT !.loc = Assign(ac[m].loc, dst, x)]
    OBVIOUS
  <2>7. /\ b.todo = ac[m].todo /\ b.lab = ac[m].lab /\ b.dst = ac[m].dst /\ b.id = ac[m].id
        /\ b.loc = Assign(ac[m].loc, dst, x)
    BY <2>5, <2>6 DEF IsAct
  <2>8. PICK bc : bc = [rest EXCEPT ![m] = b]
    OBVIOUS
  <2>9. acts' = bc
    BY <2>1, <2>3, <2>4, <2>5, <2>6, <2>8
  <2>10. /\ Len(bc) = m /\ DOMAIN bc = 1..m /\ bc[m] = b
         /\ \A i \in 1..m : i # m => bc[i] = ac[i]
    BY <2>3, <2>4, <2>8, ExceptIsSeq
  <2>11. Apart(ac[m], b, {ac[n].dst})
    <3>1. ASSUME NEW v \in DOMAIN ac[m].loc, v \notin {ac[n].dst}
          PROVE  v \in DOMAIN b.loc /\ b.loc[v] = ac[m].loc[v]
      <4>1. v # dst
        BY <1>4, <1>7, <3>1
      <4> QED
        BY <2>7, <4>1, AssignKeeps
    <3> QED
      BY <2>7, <3>1, Zenon DEF Apart
  <2>12. Returns(n, ac, bc)
    BY <1>4, <2>7, <2>10, <2>11 DEF Returns
  <2>13. \E H, Q, X : Buffered(H, Q, X, fr, fs, bc, cs)
    BY <1>2, <1>3, <1>4, <1>8, <1>10, <2>12, ReturnsTo
  <2> QED
    BY <1>1, <1>2, <2>9, <2>13 DEF CallsInv
<1> QED
  BY <1>9, <1>10

(* A frame pushed or popped leaves the frame an activation was called in.      *)
LEMMA FrameMore ==
  ASSUME NEW d \in Nat, NEW z \in Nat, d < z, NEW e, NEW k, e = d + 1, k = z + 1
  PROVE  k \in Nat /\ e < k /\ k - e = z - d
OBVIOUS

LEMMA FrameLess ==
  ASSUME NEW d \in Nat, NEW z \in Nat, 0 < d, d < z, NEW e, NEW k, e = d - 1, k = z - 1
  PROVE  k \in Nat /\ e < k /\ k - e = z - d
OBVIOUS

LEMMA PushFrameOn ==
  ASSUME NEW C, NEW B, NEW V, IInv(C, B, V), CallsInv, PushFrame
  PROVE  CallsInv'
<1>1. /\ status = "compiling" /\ Act.todo # <<>> /\ Op.op = "pushframe"
      /\ frame' = Append(frame, NewFrame(Top)) /\ frames' = Append(frames, Len(frame) + 1)
      /\ Resume(Tail(Act.todo), Assign(loc, Op.dst, Len(frame) + 1), lab) /\ cu' = cu
  BY DEF PushFrame, Does, Proceed, ContinueSet
<1>2. PICK G, P, W, fr, fs, ac, cs :
        /\ fr = frame /\ fs = frames /\ ac = acts /\ cs = cu.callsites
        /\ Buffered(G, P, W, fr, fs, ac, cs)
  BY Zenon DEF CallsInv
<1>3. Machine(fr, fs, ac) /\ ac # <<>>
  BY <1>1, <1>2, MachineNow, ActsSome
<1>4. PICK n, top, d, q, z : n = Len(ac) /\ top = fs[Len(fs)] /\ d = G[n].depth /\ q = Len(fr) /\ z = Len(fs)
  OBVIOUS
<1>5. Topmost(n, top, G, P, W, fr, fs, ac, cs)
  BY <1>2, <1>3, <1>4, TopFacts
<1>6. /\ n \in Nat /\ n >= 1 /\ DOMAIN ac = 1..n /\ n \in DOMAIN ac /\ IsAct(ac[n])
      /\ W[n] \in DOMAIN Buffers /\ <<ac[n].todo, G[n]>> \in Buffers[W[n]] /\ IsBuffer(G[n]) /\ d \in Nat
      /\ P[n] = z
  BY <1>4, <1>5, Zenon DEF Topmost
<1>7. Act = ac[n] /\ Act.todo = ac[n].todo
  BY <1>2, <1>4 DEF Act
<1>8. PICK g : g = Empties(G[n], d + 1)
  OBVIOUS
<1>9. IsBuffer(g) /\ g.quiet = G[n].quiet /\ ~ Holding(g) /\ g.depth = d + 1
  BY <1>6, <1>8 DEF Empties, Buffer, IsBuffer, Holding
<1>10. <<Tail(ac[n].todo), g>> \in Buffers[W[n]]
  <2>1. Tail(ac[n].todo) \in Ways(ac[n].todo)
    BY <1>1, <1>7, OnlyWay DEF Op
  <2>2. Told(ac[n].todo[1], G[n]) = g
    BY <1>1, <1>4, <1>7, <1>8 DEF Told, Op
  <2>3. \A t \in Ways(ac[n].todo) : <<t, Told(ac[n].todo[1], G[n])>> \in Buffers[W[n]]
    BY <1>1, <1>6, <1>7, Ruled
  <2> QED
    BY <2>1, <2>2, <2>3
<1>11. PICK a, bc : /\ a = Resumed(ac[n], Tail(ac[n].todo), Assign(loc, Op.dst, Len(frame) + 1), lab)
                    /\ bc = Put(ac, n, a)
  OBVIOUS
<1>12. a.todo = Tail(ac[n].todo) /\ a.lab = ac[n].lab /\ a.dst = ac[n].dst
  BY <1>6, <1>7, <1>11, ActFields DEF lab
<1>13. acts' = bc
  BY <1>1, <1>2, <1>4, <1>7, <1>11 DEF Resume, Put, Resumed
<1>14. IsSeq(ac) /\ IsSeq(fr) /\ n \in DOMAIN ac
  BY <1>3, <1>6, Zenon DEF Machine
<1>15. /\ Len(bc) = Len(ac) /\ DOMAIN bc = DOMAIN ac /\ bc[n] = a
       /\ \A i \in DOMAIN ac : i # n => bc[i] = ac[i]
  BY <1>11, <1>14, Replaced
<1>16. PICK r, fr2, fs2 : r = NewFrame(Top) /\ fr2 = Append(fr, r) /\ fs2 = Append(fs, q + 1)
  OBVIOUS
<1>17. frame' = fr2 /\ frames' = fs2
  BY <1>1, <1>2, <1>4, <1>16
<1>18. /\ q \in Nat /\ DOMAIN fr = 1..q /\ DOMAIN fr2 = 1..(q + 1) /\ fr2[q + 1] = r
       /\ \A f \in 1..q : fr2[f] = fr[f]
  BY <1>4, <1>14, <1>16, AppendSeq
<1>19. /\ z \in Nat /\ DOMAIN fs = 1..z /\ \A i \in 1..z : fs[i] \in 1..q
  BY <1>3, <1>4, <1>18 DEF Machine
<1>20. /\ Len(fs2) = z + 1 /\ DOMAIN fs2 = 1..(z + 1) /\ fs2[z + 1] = q + 1
       /\ \A i \in 1..z : fs2[i] = fs[i]
  <2>1. Stacked(C, B)
    BY Zenon DEF IInv
  <2>2. IsSeq(fs)
    BY <1>2, <2>1 DEF Stacked, IsSeq
  <2> QED
    BY <1>4, <1>16, <2>2, AppendSeq
<1>21. Answered(fr2, cs)
  <2>1. r.code = <<>>
    BY <1>16 DEF NewFrame
  <2>2. Unpatched(r) /\ Attended(r, cs)
    BY <2>1 DEF Unpatched, Attended
  <2>3. \A f \in 1..q : Unpatched(fr2[f]) /\ (Len(cs) <= Word => Attended(fr2[f], cs))
    BY <1>2, <1>18 DEF Buffered, Answered
  <2>4. \A f \in 1..(q + 1) : f \in 1..q \/ f = q + 1
    BY <1>18
  <2>5. \A f \in 1..(q + 1) : Unpatched(fr2[f]) /\ (Len(cs) <= Word => Attended(fr2[f], cs))
    BY <1>18, <2>2, <2>3, <2>4
  <2> QED
    BY <1>18, <2>5, Zenon DEF Answered
<1>22. d < z
  BY <1>2, <1>4, <1>6, Zenon DEF Buffered, Placed
<1>23. Moves(n, G, P, W, fr, fs, ac, fr2, fs2, bc, g)
  <2>1. Len(bc) = n /\ DOMAIN bc = 1..n /\ \A i \in 1..n : i # n => bc[i] = ac[i]
    BY <1>4, <1>6, <1>15
  <2>2. bc[n].lab = ac[n].lab /\ bc[n].dst = ac[n].dst /\ <<bc[n].todo, g>> \in Buffers[W[n]]
    BY <1>10, <1>12, <1>15
  <2>3. /\ Len(fs2) \in Nat /\ DOMAIN fs2 = 1..Len(fs2) /\ g.depth < Len(fs2)
        /\ Len(fs2) - g.depth = Len(fs) - d
    <3>1. Len(fs2) = z + 1 /\ DOMAIN fs2 = 1..Len(fs2) /\ Len(fs) = z
      BY <1>4, <1>20
    <3>2. g.depth = d + 1 /\ d \in Nat /\ z \in Nat
      BY <1>6, <1>9, <1>19
    <3>3. Len(fs2) \in Nat /\ g.depth < Len(fs2) /\ Len(fs2) - g.depth = z - d
      BY <1>22, <3>1, <3>2, FrameMore
    <3> QED
      BY <3>1, <3>3
  <2>4. ASSUME NEW i \in 1..(Len(fs) - d)
        PROVE  i \in DOMAIN fs2 /\ fr2[fs2[i]] = fr[fs[i]]
    <3>1. i \in 1..z /\ i \in 1..(z + 1)
      BY <1>4, <1>6, <1>19
    <3> QED
      BY <1>18, <1>19, <1>20, <3>1
  <2> QED
    BY <1>4, <1>9, <2>1, <2>2, <2>3, <2>4, Zenon DEF Moves
<1>24. \E H, Q, X : Buffered(H, Q, X, fr2, fs2, bc, cs)
  BY <1>2, <1>3, <1>4, <1>21, <1>23, MovesTop
<1> QED
  BY <1>1, <1>2, <1>13, <1>17, <1>24 DEF CallsInv

LEMMA PopFrameOn ==
  ASSUME NEW C, NEW B, NEW V, IInv(C, B, V), CallsInv, PopFrame
  PROVE  CallsInv'
<1>1. /\ status = "compiling" /\ Act.todo # <<>> /\ Op.op = "popframe"
      /\ frame' = frame /\ frames' = SubSeq(frames, 1, Len(frames) - 1)
      /\ Resume(Tail(Act.todo), loc, lab) /\ cu' = cu
  BY DEF PopFrame, Does, Proceed, Continue
<1>2. PICK G, P, W, fr, fs, ac, cs :
        /\ fr = frame /\ fs = frames /\ ac = acts /\ cs = cu.callsites
        /\ Buffered(G, P, W, fr, fs, ac, cs)
  BY Zenon DEF CallsInv
<1>3. Machine(fr, fs, ac) /\ ac # <<>>
  BY <1>1, <1>2, MachineNow, ActsSome
<1>4. PICK n, top, d, z : n = Len(ac) /\ top = fs[Len(fs)] /\ d = G[n].depth /\ z = Len(fs)
  OBVIOUS
<1>5. Topmost(n, top, G, P, W, fr, fs, ac, cs)
  BY <1>2, <1>3, <1>4, TopFacts
<1>6. /\ n \in Nat /\ n >= 1 /\ DOMAIN ac = 1..n /\ n \in DOMAIN ac /\ IsAct(ac[n])
      /\ W[n] \in DOMAIN Buffers /\ <<ac[n].todo, G[n]>> \in Buffers[W[n]] /\ IsBuffer(G[n]) /\ d \in Nat
      /\ P[n] = z
  BY <1>4, <1>5, Zenon DEF Topmost
<1>7. Act = ac[n] /\ Act.todo = ac[n].todo
  BY <1>2, <1>4 DEF Act
<1>8. d > 0
  <2>1. Permitted(ac[n].todo[1], G[n])
    BY <1>1, <1>6, <1>7, Ruled
  <2> QED
    BY <1>1, <1>4, <1>7, <2>1 DEF Permitted, Op
<1>9. PICK g : g = Empties(G[n], d - 1)
  OBVIOUS
<1>10. IsBuffer(g) /\ g.quiet = G[n].quiet /\ ~ Holding(g) /\ g.depth = d - 1
  BY <1>6, <1>8, <1>9 DEF Empties, Buffer, IsBuffer, Holding
<1>11. <<Tail(ac[n].todo), g>> \in Buffers[W[n]]
  <2>1. Tail(ac[n].todo) \in Ways(ac[n].todo)
    BY <1>1, <1>7, OnlyWay DEF Op
  <2>2. Told(ac[n].todo[1], G[n]) = g
    BY <1>1, <1>4, <1>7, <1>9 DEF Told, Op
  <2>3. \A t \in Ways(ac[n].todo) : <<t, Told(ac[n].todo[1], G[n])>> \in Buffers[W[n]]
    BY <1>1, <1>6, <1>7, Ruled
  <2> QED
    BY <2>1, <2>2, <2>3
<1>12. PICK a, bc : /\ a = Resumed(ac[n], Tail(ac[n].todo), loc, lab)
                    /\ bc = Put(ac, n, a)
  OBVIOUS
<1>13. a.todo = Tail(ac[n].todo) /\ a.lab = ac[n].lab /\ a.dst = ac[n].dst
  BY <1>6, <1>7, <1>12, ActFields DEF lab
<1>14. acts' = bc
  BY <1>1, <1>2, <1>4, <1>7, <1>12 DEF Resume, Put, Resumed
<1>15. IsSeq(ac) /\ n \in DOMAIN ac
  BY <1>3, <1>6, Zenon DEF Machine
<1>16. /\ Len(bc) = Len(ac) /\ DOMAIN bc = DOMAIN ac /\ bc[n] = a
       /\ \A i \in DOMAIN ac : i # n => bc[i] = ac[i]
  BY <1>12, <1>15, Replaced
<1>17. PICK fs2 : fs2 = SubSeq(fs, 1, Len(fs) - 1)
  OBVIOUS
<1>18. frames' = fs2
  BY <1>1, <1>2, <1>17
<1>19. z \in Nat /\ DOMAIN fs = 1..z
  BY <1>3, <1>4 DEF Machine
<1>20. d < z
  BY <1>2, <1>4, <1>6, Zenon DEF Buffered, Placed
<1>21. Len(fs2) = z - 1 /\ DOMAIN fs2 = 1..(z - 1) /\ \A i \in 1..(z - 1) : fs2[i] = fs[i]
  <2>1. Stacked(C, B)
    BY Zenon DEF IInv
  <2>2. IsSeq(fs) /\ fs # <<>>
    BY <1>2, <2>1 DEF Stacked, IsSeq
  <2> QED
    BY <1>4, <1>17, <2>2, FrontSeq
<1>22. Answered(fr, cs)
  BY <1>2 DEF Buffered
<1>23. Moves(n, G, P, W, fr, fs, ac, fr, fs2, bc, g)
  <2>1. Len(bc) = n /\ DOMAIN bc = 1..n /\ \A i \in 1..n : i # n => bc[i] = ac[i]
    BY <1>4, <1>6, <1>16
  <2>2. bc[n].lab = ac[n].lab /\ bc[n].dst = ac[n].dst /\ <<bc[n].todo, g>> \in Buffers[W[n]]
    BY <1>11, <1>13, <1>16
  <2>3. /\ Len(fs2) \in Nat /\ DOMAIN fs2 = 1..Len(fs2) /\ g.depth < Len(fs2)
        /\ Len(fs2) - g.depth = Len(fs) - d
    <3>1. Len(fs2) = z - 1 /\ DOMAIN fs2 = 1..Len(fs2) /\ Len(fs) = z
      BY <1>4, <1>21
    <3>2. g.depth = d - 1 /\ d \in Nat /\ z \in Nat
      BY <1>6, <1>10, <1>19
    <3>3. Len(fs2) \in Nat /\ g.depth < Len(fs2) /\ Len(fs2) - g.depth = z - d
      BY <1>8, <1>20, <3>1, <3>2, FrameLess
    <3> QED
      BY <3>1, <3>3
  <2>4. ASSUME NEW i \in 1..(Len(fs) - d)
        PROVE  i \in DOMAIN fs2 /\ fr[fs2[i]] = fr[fs[i]]
    <3>1. i \in 1..(z - 1)
      BY <1>4, <1>6, <1>8, <1>19
    <3> QED
      BY <1>21, <3>1
  <2> QED
    BY <1>4, <1>10, <2>1, <2>2, <2>3, <2>4, Zenon DEF Moves
<1>24. \E H, Q, X : Buffered(H, Q, X, fr, fs2, bc, cs)
  BY <1>2, <1>3, <1>4, <1>22, <1>23, MovesTop
<1> QED
  BY <1>1, <1>2, <1>14, <1>18, <1>24 DEF CallsInv
-----------------------------------------------------------------------------
(* Nothing is in the buffer when the program's own handler starts.            *)
LEMMA InitCalls ==
  ASSUME Init
  PROVE  CallsInv
<1>1. /\ program \in Programs /\ frame = <<NewFrame(0)>> /\ frames = <<1>>
      /\ cu = EmptyUnit /\ acts = <<Activation(MainScript(program), "void", 0)>>
  BY DEF Init
<1>2. PICK p, a, r, b, ds : /\ p = program /\ a = Activation(MainScript(program), "void", 0)
                            /\ r = NewFrame(0) /\ b = Clear(FALSE) /\ ds = EmptyUnit.callsites
  OBVIOUS
<1>3. PICK fr, fs, ac, G, P, W : /\ fr = <<r>> /\ fs = <<1>> /\ ac = <<a>>
                                 /\ G = <<b>> /\ P = <<1>> /\ W = <<p>>
  OBVIOUS
<1>4. frame = fr /\ frames = fs /\ acts = ac /\ cu.callsites = ds
  BY <1>1, <1>2, <1>3
<1>5. a.todo = MainScript(p) /\ a.lab = <<>>
  BY <1>2, NewActivation
<1>6. /\ DOMAIN fr = {1} /\ fr[1] = r /\ DOMAIN fs = {1} /\ fs[1] = 1 /\ Len(fs) = 1
      /\ DOMAIN ac = {1} /\ Len(ac) = 1 /\ ac[1] = a
  BY <1>3, Singleton
<1>7. DOMAIN G = {1} /\ G[1] = b /\ DOMAIN P = {1} /\ P[1] = 1 /\ DOMAIN W = {1} /\ W[1] = p
  BY <1>3, Singleton
<1>8. IsBuffer(b) /\ b.depth = 0 /\ ~ Holding(b)
  BY <1>2 DEF Clear, Buffer, IsBuffer, Holding
<1>9. Placed(G, P, fs, ac)
  <2>1. \A i, j \in DOMAIN ac : ~ (i < j) /\ j # i + 1
    BY <1>6
  <2>2. \A i \in DOMAIN ac : IsBuffer(G[i]) /\ P[i] \in DOMAIN fs /\ G[i].depth < P[i]
    BY <1>6, <1>7, <1>8
  <2>3. DOMAIN G = DOMAIN ac /\ DOMAIN P = DOMAIN ac /\ P[Len(ac)] = Len(fs)
    BY <1>6, <1>7
  <2> QED
    BY <2>1, <2>2, <2>3, Zenon DEF Placed
<1>10. Follows(G, W, ac)
  <2>1. p \in DOMAIN Buffers /\ <<a.todo, b>> \in Buffers[p]
    BY <1>1, <1>2, <1>5, CallingAssumption DEF Buffering
  <2>2. \A i, j \in DOMAIN ac : j # i + 1
    BY <1>6
  <2>3. NoneAtZero(a.lab)
    BY <1>5 DEF NoneAtZero
  <2> QED
    BY <1>6, <1>7, <2>1, <2>2, <2>3 DEF Follows
<1>11. Aware(G, P, fr, fs, ac, ds)
  BY <1>6, <1>7, <1>8, NothingKnown DEF Aware
<1>12. Answered(fr, ds)
  <2>1. r.code = <<>>
    BY <1>2 DEF NewFrame
  <2>2. Unpatched(r) /\ Attended(r, ds)
    BY <2>1 DEF Unpatched, Attended
  <2> QED
    BY <1>6, <2>2 DEF Answered
<1> QED
  BY <1>4, <1>9, <1>10, <1>11, <1>12, Zenon DEF CallsInv, Buffered

LEMMA NextCalls ==
  ASSUME Inv, CallsInv, [Next]_vars
  PROVE  CallsInv'
<1>1. PICK C, B, V : IInv(C, B, V)
  BY DEF Inv
<1>2. Inv'
  BY NextInv
<1>3. CASE UNCHANGED <<frame, frames, cu, acts>>
  BY <1>3, StoppedOn
<1>4. CASE UNCHANGED vars \/ Terminated
  BY <1>3, <1>4 DEF vars, Terminated
<1>5. CASE Step
  <2>1. CASE Child
    BY <1>1, <2>1, ChildOn
  <2>2. CASE Return
    BY <1>1, <2>2, ReturnOn
  <2>3. CASE Set
    BY <1>1, <2>3, SetOn
  <2>4. CASE Narrow
    BY <1>1, <2>4, NarrowOn
  <2>5. CASE Switch
    BY <1>1, <2>5, SwitchOn
  <2>6. CASE IfUnknown
    BY <1>1, <2>6, IfUnknownOn
  <2>7. CASE AssertType
    BY <1>1, <2>7, AssertTypeOn
  <2>8. CASE Die
    BY <1>3, <2>8 DEF Die, Stop
  <2>9. CASE PushLocal
    BY <1>1, <1>2, <2>9, PushLocalOn
  <2>10. CASE PushLexical
    BY <1>1, <1>2, <2>10, PushLexicalOn
  <2>11. CASE PushPackageVariable
    BY <1>1, <1>2, <2>11, PushPackageVariableOn
  <2>12. CASE FindName
    BY <1>1, <2>12, FindNameOn
  <2>13. CASE AccessLexical
    BY <1>1, <1>2, <2>13, AccessLexicalOn
  <2>14. CASE Emit
    BY <1>1, <1>2, <2>14, EmitOn
  <2>15. CASE GetCode
    BY <1>1, <1>2, <2>15, GetCodeOn
  <2>16. CASE PatchCode
    BY <1>1, <1>2, <2>16, PatchCodeOn
  <2>17. CASE PushFrame
    BY <1>1, <2>17, PushFrameOn
  <2>18. CASE PopFrame
    BY <1>1, <2>18, PopFrameOn
  <2>19. CASE Goto
    BY <1>1, <1>2, <2>19, GotoOn
  <2>20. CASE Branch
    BY <1>1, <1>2, <2>20, BranchOn
  <2>21. CASE ParamOptional
    BY <1>1, <1>2, <2>21, ParamOptionalOn
  <2>22. CASE PutLabel
    BY <1>1, <1>2, <2>22, PutLabelOn
  <2>23. CASE LoopEnter
    BY <1>1, <2>23, LoopEnterOn
  <2>24. CASE LoopMark
    BY <1>1, <2>24, LoopMarkOn
  <2>25. CASE LoopLeave
    BY <1>1, <1>2, <2>25, LoopLeaveOn
  <2>26. CASE Throw
    BY <1>1, <1>2, <2>26, ThrowOn
  <2>27. CASE PrepArgs
    BY <1>1, <1>2, <2>27, PrepArgsOn
  <2>28. CASE OpenClass
    BY <1>1, <2>28, OpenClassOn
  <2>29. CASE CloseClass
    BY <1>1, <2>29, CloseClassOn
  <2>30. CASE BindMethod
    BY <1>1, <2>30, BindMethodOn
  <2>31. CASE Wval
    BY <1>1, <1>2, <2>31, WvalOn
  <2>32. CASE Finalize
    BY <1>1, <2>32, FinalizeOn
  <2> QED
    BY <1>5, <2>1, <2>2, <2>3, <2>4, <2>5, <2>6, <2>7, <2>8, <2>9, <2>10, <2>11, <2>12, <2>13,
       <2>14, <2>15, <2>16, <2>17, <2>18, <2>19, <2>20, <2>21, <2>22, <2>23, <2>24, <2>25,
       <2>26, <2>27, <2>28, <2>29, <2>30, <2>31, <2>32 DEF Step
<1> QED
  BY <1>4, <1>5 DEF Next

(* What every handler knows of the buffer holds in every state of a            *)
(* compilation, of any programs whose handlers keep both disciplines.          *)
THEOREM BufferInvariance == Spec => []CallsInv
<1>1. Init => CallsInv
  BY InitCalls
<1>2. Inv /\ CallsInv /\ [Next]_vars => CallsInv'
  BY NextCalls
<1> QED
  BY <1>1, <1>2, Invariance, PTL DEF Spec
-----------------------------------------------------------------------------
(* What it says of the calls of module Codegen.                               *)

LEMMA LastIsMax ==
  ASSUME NEW S \in SUBSET Int, NEW i, Last(S, i)
  PROVE  SetMax(S) = i /\ S # {}
<1>1. i \in S /\ \A j \in S : j <= i
  BY DEF Last
<1>2. \A x \in S : (\A y \in S : y <= x) => x = i
  BY <1>1
<1>3. PICK x : x = SetMax(S)
  OBVIOUS
<1>4. x \in S /\ \A y \in S : y <= x
  BY <1>1, <1>3, Zenon DEF SetMax
<1> QED
  BY <1>1, <1>2, <1>3, <1>4

LEMMA FurnishedAsMax ==
  ASSUME NEW r, NEW k \in Int, NEW cs, NEW id, NEW flags, Furnished(r, k, cs, id, flags)
  PROVE  LET prep == r.code[SetMax(Preps(r, k))] IN
         /\ prep.by = id /\ cs[prep.target + 1] = flags
         /\ \A slot \in DOMAIN flags :
              LET writer == r.code[SetMax(Writers(r, k, slot - 1))] IN
              Writers(r, k, slot - 1) # {} /\ writer.by = id /\ ArgumentFlag(writer.op) = flags[slot]
<1>1. Preps(r, k) \in SUBSET Int /\ \A slot : Writers(r, k, slot) \in SUBSET Int
  BY DEF Preps, Writers
<1>2. PICK p : /\ Last(Preps(r, k), p) /\ r.code[p].by = id
               /\ r.code[p].target + 1 \in DOMAIN cs /\ cs[r.code[p].target + 1] = flags
  BY Zenon DEF Furnished, Prepared
<1>3. SetMax(Preps(r, k)) = p
  BY <1>1, <1>2, LastIsMax
<1>4. ASSUME NEW slot \in DOMAIN flags
      PROVE  LET writer == r.code[SetMax(Writers(r, k, slot - 1))] IN
             Writers(r, k, slot - 1) # {} /\ writer.by = id /\ ArgumentFlag(writer.op) = flags[slot]
  <2>1. PICK w : /\ Last(Writers(r, k, slot - 1), w) /\ r.code[w].by = id
                 /\ ArgumentFlag(r.code[w].op) = flags[slot]
    BY Zenon DEF Furnished, Written
  <2>2. SetMax(Writers(r, k, slot - 1)) = w /\ Writers(r, k, slot - 1) # {}
    BY <1>1, <2>1, LastIsMax
  <2> QED
    BY <2>1, <2>2
<1> QED
  BY <1>2, <1>3, <1>4

(* Instruction k of a frame's code finds an argument of its own handler, of a  *)
(* type, in a slot.                                                          *)
Finds(code, k, slot, type) ==
  LET writers == {i \in 1..(k - 1) : IsArgument(code[i].op) /\ code[i].target = slot - 1}
      writer  == code[SetMax(writers)]
  IN writers # {} /\ writer.by = code[k].by /\ ArgumentFlag(writer.op) = type

(* An invoke finds in each slot of its callsite the argument its own call      *)
(* wrote, of the type its callsite declares, as long as the callsites can be   *)
(* numbered in the 16 bits of an operand: no call compiled in between has       *)
(* overwritten it, and callsites of the same flags are shared without harm.    *)
THEOREM CallsServed == Spec => [](Len(cu.callsites) <= Word => CallsGetTheirArguments)
<1>1. Inv /\ CallsInv => (Len(cu.callsites) <= Word => CallsGetTheirArguments)
  <2> SUFFICES ASSUME Inv, CallsInv, Len(cu.callsites) <= Word, NEW f \in DOMAIN frame,
                      NEW k \in DOMAIN frame[f].code, IsInvoke(frame[f].code[k].op)
               PROVE  LET code  == frame[f].code
                          prep  == code[SetMax({i \in 1..(k - 1) : code[i].op = "prepargs"})]
                          flags == cu.callsites[prep.target + 1]
                      IN prep.by = code[k].by /\ \A slot \in DOMAIN flags : Finds(code, k, slot, flags[slot])
    BY DEF CallsGetTheirArguments, Finds
  <2>1. PICK r, cs : r = frame[f] /\ cs = cu.callsites
    OBVIOUS
  <2>2. Attended(r, cs)
    BY <2>1, ZenonT(30) DEF CallsInv, Buffered, Answered
  <2>3. PICK flags : Furnished(r, k, cs, r.code[k].by, flags)
    BY <2>1, <2>2, Zenon DEF Attended
  <2>4. r \in KijiFrame
    <3>1. PICK C, B, V : IInv(C, B, V)
      BY DEF Inv
    <3>2. WellFormed(frame[f])
      BY <3>1, Zenon DEF IInv, Filled
    <3> QED
      BY <2>1, <3>2, IsFrame
  <2>5. k \in Int
    BY <2>1, <2>4, FrameFields
  <2>6. LET prep == r.code[SetMax(Preps(r, k))] IN
        /\ prep.by = r.code[k].by /\ cs[prep.target + 1] = flags
        /\ \A slot \in DOMAIN flags :
             LET writer == r.code[SetMax(Writers(r, k, slot - 1))] IN
             /\ Writers(r, k, slot - 1) # {} /\ writer.by = r.code[k].by
             /\ ArgumentFlag(writer.op) = flags[slot]
    BY <2>3, <2>5, FurnishedAsMax
  <2>7. /\ Preps(r, k) = {i \in 1..(k - 1) : frame[f].code[i].op = "prepargs"}
        /\ \A slot : Writers(r, k, slot) = {i \in 1..(k - 1) : IsArgument(frame[f].code[i].op)
                                                               /\ frame[f].code[i].target = slot}
    BY <2>1 DEF Preps, Writers
  <2>8. PICK p : p = SetMax(Preps(r, k))
    OBVIOUS
  <2>9. /\ p = SetMax({i \in 1..(k - 1) : frame[f].code[i].op = "prepargs"})
        /\ frame[f].code[p].by = frame[f].code[k].by
        /\ cu.callsites[frame[f].code[p].target + 1] = flags
    BY <2>1, <2>6, <2>7, <2>8
  <2>10. ASSUME NEW slot \in DOMAIN flags
         PROVE  Finds(frame[f].code, k, slot, flags[slot])
    <3>1. PICK S : S = Writers(r, k, slot - 1)
      OBVIOUS
    <3>2. S = {i \in 1..(k - 1) : IsArgument(frame[f].code[i].op) /\ frame[f].code[i].target = slot - 1}
      BY <2>7, <3>1, Zenon
    <3>3. /\ S # {} /\ frame[f].code[SetMax(S)].by = frame[f].code[k].by
          /\ ArgumentFlag(frame[f].code[SetMax(S)].op) = flags[slot]
      BY <2>1, <2>6, <3>1, Zenon
    <3> QED
      BY <3>2, <3>3, Zenon DEF Finds
  <2> QED
    BY <2>9, <2>10
<1> QED
  BY <1>1, Invariance, BufferInvariance, PTL
=============================================================================
