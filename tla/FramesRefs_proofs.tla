------------------------- MODULE FramesRefs_proofs -------------------------
(***************************************************************************)
(* More about Frames: the operands a lookup emits still lead to their name   *)
(* when the program runs, and a first `use' marks the frame it pushed; then   *)
(* what the operands of GETCODE name, and what a `use' imports.              *)
(***************************************************************************)
EXTENDS Frames_proofs

-----------------------------------------------------------------------------
(* What a step may do to a frame: record s is r with more in it.             *)

Keeps(r, s) ==
  /\ s.outer = r.outer /\ s.node = r.node
  /\ r.frame_type = "use" => s.frame_type = "use"
  /\ Len(r.lexicals) <= Len(s.lexicals)
  /\ \A i \in 1..Len(r.lexicals) : s.lexicals[i] = r.lexicals[i]

(* A reference to a lexical of the record itself.                            *)
Local(s, q) ==
  q.outer = 0 /\ q.lex \in 1..Len(s.lexicals) /\ s.lexicals[q.lex] = q.name

NewRefsLocal(r, s) == \A q \in s.refs : q \in r.refs \/ Local(s, q)

Adds(r, s) == Keeps(r, s) /\ NewRefsLocal(r, s)

(* The same lexicals and references.                                        *)
SameNames(r, s) ==
  /\ s.outer = r.outer /\ s.node = r.node /\ s.lexicals = r.lexicals /\ s.refs = r.refs
  /\ r.frame_type = "use" => s.frame_type = "use"

LEMMA SameNamesAdds ==
  ASSUME NEW r \in KijiFrame, NEW s, SameNames(r, s)
  PROVE  Adds(r, s)
<1>1. Len(r.lexicals) \in Nat
  BY FrameFields
<1> QED
  BY <1>1 DEF SameNames, Adds, Keeps, NewRefsLocal

LEMMA AppendAdds ==
  ASSUME NEW r \in KijiFrame, NEW n \in LexName
  PROVE  Adds(r, [r EXCEPT !.lexicals = Append(@, n)])
<1> DEFINE L == Append(r.lexicals, n)
<1>1. /\ L \in Seq(LexName) /\ Len(r.lexicals) <= Len(L)
      /\ \A i \in 1..Len(r.lexicals) : L[i] = r.lexicals[i]
  BY FrameFields, AppendProperties
<1> HIDE DEF L
<1> DEFINE s == [r EXCEPT !.lexicals = L]
<1>2. /\ s.lexicals = L /\ s.outer = r.outer /\ s.node = r.node /\ s.refs = r.refs
      /\ s.frame_type = r.frame_type
  BY <1>1 DEF KijiFrame
<1> HIDE DEF s
<1>3. Adds(r, s)
  BY <1>1, <1>2 DEF Adds, Keeps, NewRefsLocal
<1> QED
  BY <1>3 DEF s, L

LEMMA BindAdds ==
  ASSUME NEW r \in KijiFrame, NEW n \in LexName
  PROVE  Adds(r, Bind(r, n))
<1> DEFINE L == Append(r.lexicals, n)
           q == Ref(Len(r.lexicals) + 1, 0, n)
           s == Bind(r, n)
<1>1. /\ Len(r.lexicals) \in Nat /\ Len(L) = Len(r.lexicals) + 1
      /\ L[Len(r.lexicals) + 1] = n
      /\ \A i \in 1..Len(r.lexicals) : L[i] = r.lexicals[i]
  BY FrameFields, AppendProperties
<1>2. /\ s.lexicals = L /\ s.outer = r.outer /\ s.node = r.node
      /\ s.frame_type = r.frame_type /\ s.refs = r.refs \cup {q}
  BY DEF Bind, KijiFrame
<1>3. q.outer = 0 /\ q.lex = Len(r.lexicals) + 1 /\ q.name = n
  BY DEF Ref
<1> HIDE DEF L, q, s
<1>4. Keeps(r, s)
  BY <1>1, <1>2 DEF Keeps
<1>5. Local(s, q)
  BY <1>1, <1>2, <1>3 DEF Local
<1>6. NewRefsLocal(r, s)
  BY <1>2, <1>5 DEF NewRefsLocal
<1> QED
  BY <1>4, <1>6 DEF Adds, s

LEMMA Concatenated ==
  ASSUME NEW S, NEW s \in Seq(S), NEW u \in Seq(S), NEW w, w = s \o u
  PROVE  /\ Len(w) = Len(s) + Len(u)
         /\ \A i \in 1..Len(s) : w[i] = s[i]
         /\ \A i \in 1..Len(u) : w[Len(s) + i] = u[i]
OBVIOUS

LEMMA ImportAdds ==
  ASSUME NEW r \in KijiFrame, NEW lib,
         NEW exports \in Seq([name : LexName, frame_no : Nat])
  PROVE  Adds(r, Import(r, exports, lib))
<1> DEFINE n == Len(exports)
           m == Len(r.lexicals)
           names == [i \in 1..n |-> exports[i].name]
           L == r.lexicals \o names
           new == {Ref(m + i, 0, exports[i].name) : i \in 1..n}
           s == Import(r, exports, lib)
<1>1. m \in Nat /\ n \in Nat /\ \A i \in 1..n : exports[i].name \in LexName
  <2>1. \A i \in 1..n : exports[i] \in [name : LexName, frame_no : Nat]
    BY ElementOfSeq
  <2> QED
    BY <2>1, FrameFields, LenProperties
<1>2. names \in Seq(LexName) /\ Len(names) = n /\ \A i \in 1..n : names[i] = exports[i].name
  <2>1. names \in [1..n -> LexName]
    BY <1>1
  <2>2. names \in Seq(LexName)
    BY <1>1, <2>1, SeqDef
  <2> QED
    BY <1>1, <2>1, <2>2, LenProperties
<1>3. /\ Len(L) = m + n /\ \A i \in 1..m : L[i] = r.lexicals[i]
      /\ \A i \in 1..n : L[m + i] = names[i]
  <2>1. r.lexicals \in Seq(LexName) /\ names \in Seq(LexName) /\ Len(names) = n
    BY <1>2, FrameFields
  <2>2. L = r.lexicals \o names
    OBVIOUS
  <2> HIDE DEF names, n, L
  <2>3. /\ Len(L) = Len(r.lexicals) + Len(names)
        /\ \A i \in 1..Len(r.lexicals) : L[i] = r.lexicals[i]
        /\ \A i \in 1..Len(names) : L[Len(r.lexicals) + i] = names[i]
    BY <2>1, <2>2, Concatenated
  <2> QED
    BY <2>1, <2>3
<1>4. /\ s.lexicals = L /\ s.refs = r.refs \cup new /\ s.outer = r.outer
      /\ s.node = r.node /\ s.frame_type = r.frame_type
  BY DEF Import, KijiFrame
<1> HIDE DEF L, s, names, m, n
<1>5. Keeps(r, s)
  BY <1>1, <1>3, <1>4 DEF Keeps, m
<1>6. ASSUME NEW q \in new PROVE Local(s, q)
  <2>1. PICK i \in 1..n : q = Ref(m + i, 0, exports[i].name)
    OBVIOUS
  <2>2. q.outer = 0 /\ q.lex = m + i /\ q.name = exports[i].name
    BY <2>1 DEF Ref
  <2>3. m + i \in 1..(m + n)
    BY <1>1
  <2>4. L[m + i] = exports[i].name
    BY <1>2, <1>3
  <2> QED
    BY <2>2, <2>3, <2>4, <1>3, <1>4 DEF Local
<1> HIDE DEF new
<1>7. NewRefsLocal(r, s)
  BY <1>4, <1>6 DEF NewRefsLocal
<1> QED
  BY <1>5, <1>7 DEF Adds, s
-----------------------------------------------------------------------------
(* The invariant.                                                           *)

(* A chain of outer pointers from frame f leads to the lexical q names.      *)
Chain(f, q, up) ==
  /\ up[0] = f
  /\ \A i \in 1..q.outer :
       up[i - 1] \in 1..Len(frame) /\ up[i] = frame[up[i - 1]].outer
  /\ up[q.outer] \in 1..Len(frame)
  /\ q.lex \in 1..Len(frame[up[q.outer]].lexicals)
  /\ frame[up[q.outer]].lexicals[q.lex] = q.name
Points(f, q) == \E up \in [0..q.outer -> Nat] : Chain(f, q, up)

RefsPoint == \A f \in 1..Len(frame) : \A q \in frame[f].refs : Points(f, q)

LEMMA LocalPoints ==
  ASSUME Inv, NEW f \in 1..Len(frame), NEW q \in Refs, Local(frame[f], q)
  PROVE  Points(f, q)
<1> DEFINE up == [i \in 0..q.outer |-> f]
<1>1. f \in Nat /\ q.outer = 0
  BY InvFacts DEF Inv, Local
<1>2. up \in [0..q.outer -> Nat]
  BY <1>1
<1>3. up[0] = f /\ up[q.outer] = f
  BY <1>1
<1> HIDE DEF up
<1>4. Chain(f, q, up)
  BY <1>1, <1>3 DEF Chain, Local
<1> QED
  BY <1>2, <1>4 DEF Points

(* The same in the next state.                                              *)
LEMMA LocalPointsNext ==
  ASSUME Inv', NEW f \in 1..Len(frame'), NEW q \in Refs, Local(frame'[f], q)
  PROVE  Points(f, q)'
<1> DEFINE up == [i \in 0..q.outer |-> f]
<1>1. /\ q.outer = 0 /\ q.lex \in 1..Len(frame'[f].lexicals)
      /\ frame'[f].lexicals[q.lex] = q.name
  BY DEF Local
<1>2. f \in Nat
  BY LenProperties DEF Inv, TypeOK
<1>3. up \in [0..q.outer -> Nat]
  BY <1>2
<1>4. up[0] = f /\ up[q.outer] = f
  BY <1>1
<1> HIDE DEF up
<1>5. Chain(f, q, up)'
  BY <1>1, <1>4 DEF Chain
<1> QED
  BY <1>3, <1>5 DEF Points

LEMMA PointsKept ==
  ASSUME Inv, Inv', Len(frame) <= Len(frame'),
         \A f \in 1..Len(frame) : Keeps(frame[f], frame'[f]),
         NEW f \in 1..Len(frame), NEW q \in Refs, Points(f, q)
  PROVE  Points(f, q)'
<1>1. PICK up \in [0..q.outer -> Nat] : Chain(f, q, up)
  BY DEF Points
<1>2. q.outer \in Nat
  BY DEF Refs
<1>3. Len(frame) \in Nat /\ Len(frame') \in Nat
  BY InvFacts, LenProperties DEF Inv, TypeOK
<1>4. \A g \in 1..Len(frame) : /\ g \in 1..Len(frame')
                               /\ frame'[g].outer = frame[g].outer
  BY <1>3 DEF Keeps
<1>5. \A i \in 1..q.outer : up[i - 1] \in 1..Len(frame') /\ up[i] = frame'[up[i - 1]].outer
  BY <1>1, <1>4 DEF Chain
<1> DEFINE t == up[q.outer]
<1>6. /\ t \in 1..Len(frame) /\ q.lex \in 1..Len(frame[t].lexicals)
      /\ frame[t].lexicals[q.lex] = q.name
  BY <1>1 DEF Chain
<1> HIDE DEF t
<1>7. t \in 1..Len(frame') /\ Keeps(frame[t], frame'[t])
  BY <1>4, <1>6
<1>8. Len(frame[t].lexicals) \in Nat /\ Len(frame'[t].lexicals) \in Nat
  <2>1. frame[t] \in KijiFrame /\ frame'[t] \in KijiFrame
    BY <1>6, <1>7, ElementOfSeq DEF Inv, TypeOK
  <2> QED
    BY <2>1, FrameFields
<1>9. q.lex \in 1..Len(frame'[t].lexicals) /\ frame'[t].lexicals[q.lex] = q.name
  BY <1>6, <1>7, <1>8 DEF Keeps
<1>10. Chain(f, q, up)'
  BY <1>1, <1>5, <1>7, <1>9 DEF Chain, t
<1> QED
  BY <1>10 DEF Points

(* A step keeps the invariant when each reference it adds points.            *)
LEMMA StepRefs ==
  ASSUME Inv, Inv', RefsPoint, Len(frame) <= Len(frame'),
         \A f \in 1..Len(frame) : Keeps(frame[f], frame'[f]),
         \A f \in 1..Len(frame') : \A q \in frame'[f].refs :
           (f <= Len(frame) /\ q \in frame[f].refs) \/ Points(f, q)'
  PROVE  RefsPoint'
<1> SUFFICES ASSUME NEW f \in 1..Len(frame'), NEW q \in frame'[f].refs
             PROVE  Points(f, q)'
  BY DEF RefsPoint
<1>1. CASE f <= Len(frame) /\ q \in frame[f].refs
  <2>1. Len(frame) \in Nat
    BY InvFacts DEF Inv
  <2>2. f \in 1..Len(frame)
    BY <1>1, <2>1
  <2>3. frame[f] \in KijiFrame
    BY <2>2, InvFacts DEF Inv
  <2>4. q \in Refs
    BY <1>1, <2>3, FrameFields
  <2>5. Points(f, q)
    BY <1>1, <2>2 DEF RefsPoint
  <2> QED
    BY <2>2, <2>4, <2>5, PointsKept
<1>2. CASE Points(f, q)'
  BY <1>2
<1> QED
  BY <1>1, <1>2

(* A frame keeps its mark, and what was closed before it does not change.    *)
Marks(f) == frame[f].node = "use" /\ NothingClosedBefore(f) => frame[f].frame_type = "use"

LEMMA StepMarks ==
  ASSUME Inv, Inv', UseMarksItsFrame, Len(frame) <= Len(frame'),
         \A f \in 1..Len(frame) : Keeps(frame[f], frame'[f]),
         \A f \in 1..Len(frame') : f > Len(frame) => Marks(f)'
  PROVE  UseMarksItsFrame'
<1>1. Len(frame) \in Nat /\ Len(frame') \in Nat /\ DOMAIN frame = 1..Len(frame)
  BY InvFacts, LenProperties DEF Inv, TypeOK
<1>2. \A f \in 1..Len(frame) : /\ frame'[f].outer = frame[f].outer
                               /\ frame'[f].node = frame[f].node
                               /\ frame[f].frame_type = "use" => frame'[f].frame_type = "use"
  BY DEF Keeps
<1>3. ASSUME NEW u \in 1..Len(frame), frame'[u].node = "use", NothingClosedBefore(u)'
      PROVE  frame'[u].frame_type = "use"
  <2>1. \A g \in 1..(u - 1) : frame'[g + 1].outer = g
    BY <1>3 DEF NothingClosedBefore
  <2>2. \A g \in 1..(u - 1) : g + 1 \in 1..Len(frame)
    BY <1>1
  <2>3. \A g \in 1..(u - 1) : frame[g + 1].outer = g
    BY <1>2, <2>1, <2>2
  <2>4. NothingClosedBefore(u) /\ frame[u].node = "use"
    BY <1>2, <1>3, <2>3 DEF NothingClosedBefore
  <2> QED
    BY <1>1, <1>2, <2>4 DEF UseMarksItsFrame
<1>4. ASSUME NEW u \in 1..Len(frame') PROVE Marks(u)'
  <2>1. CASE u <= Len(frame)
    <3>1. u \in 1..Len(frame)
      BY <1>1, <2>1
    <3> QED
      BY <1>3, <3>1 DEF Marks
  <2>2. CASE u > Len(frame)
    BY <2>2
  <2> QED
    BY <1>1, <2>1, <2>2
<1>5. DOMAIN frame' = 1..Len(frame')
  BY LenProperties DEF Inv, TypeOK
<1> QED
  BY <1>4, <1>5 DEF UseMarksItsFrame, Marks

(* What holds of the frames for good.                                       *)
Lasting == RefsPoint /\ UseMarksItsFrame

(* The references added are local, and new frames have none.                 *)
LEMMA StepAdds ==
  ASSUME Inv, Inv', Lasting, Len(frame) <= Len(frame'),
         \A f \in 1..Len(frame) : Adds(frame[f], frame'[f]),
         \A f \in 1..Len(frame') : f > Len(frame) => frame'[f].refs = {} /\ Marks(f)'
  PROVE  Lasting'
<1>1. \A f \in 1..Len(frame) : Keeps(frame[f], frame'[f])
  BY DEF Adds
<1>2. ASSUME NEW f \in 1..Len(frame'), NEW q \in frame'[f].refs
      PROVE  (f <= Len(frame) /\ q \in frame[f].refs) \/ Points(f, q)'
  <2>1. Len(frame) \in Nat /\ Len(frame') \in Nat
    BY InvFacts, LenProperties DEF Inv, TypeOK
  <2>2. f \in 1..Len(frame)
    BY <2>1
  <2>3. NewRefsLocal(frame[f], frame'[f])
    BY <2>2 DEF Adds
  <2>4. q \in frame[f].refs \/ Local(frame'[f], q)
    BY <2>3 DEF NewRefsLocal
  <2>5. q \in Refs
    <3>1. frame'[f] \in KijiFrame
      BY ElementOfSeq DEF Inv, TypeOK
    <3> QED
      BY <3>1, FrameFields
  <2>6. ASSUME Local(frame'[f], q) PROVE Points(f, q)'
    BY <2>5, <2>6, LocalPointsNext
  <2> QED
    BY <2>1, <2>2, <2>4, <2>6
<1> QED
  BY <1>1, <1>2, StepRefs, StepMarks DEF Lasting

(* One frame is written.                                                    *)
LEMMA StepWrite ==
  ASSUME Inv, Inv', Lasting, NEW g \in 1..Len(frame), NEW s,
         Adds(frame[g], s), frame' = [frame EXCEPT ![g] = s]
  PROVE  Lasting'
<1>1. frame \in Seq(KijiFrame) /\ Len(frame) \in Nat /\ \A f \in 1..Len(frame) : frame[f] \in KijiFrame
  BY InvFacts DEF Inv, TypeOK
<1>2. Len(frame') = Len(frame) /\ \A f \in 1..Len(frame) : frame'[f] = IF f = g THEN s ELSE frame[f]
  BY <1>1
<1>3. \A f \in 1..Len(frame) : Adds(frame[f], frame[f])
  BY <1>1, SameNamesAdds DEF SameNames
<1>4. \A f \in 1..Len(frame) : Adds(frame[f], frame'[f])
  BY <1>2, <1>3
<1> QED
  BY <1>1, <1>2, <1>4, StepAdds
-----------------------------------------------------------------------------
(* The actions.                                                             *)

LEMMA RefsUnchanged ==
  ASSUME Inv, Inv', Lasting, UNCHANGED frame
  PROVE  Lasting'
<1>1. \A f \in 1..Len(frame) : frame[f] \in KijiFrame
  BY InvFacts DEF Inv
<1>2. \A f \in 1..Len(frame) : Adds(frame[f], frame'[f])
  BY <1>1, SameNamesAdds DEF SameNames
<1>3. Len(frame) \in Nat
  BY InvFacts DEF Inv
<1> QED
  BY <1>2, <1>3, StepAdds

(* Actions that write in the top frame.                                     *)
LEMMA DeclareRefs ==
  ASSUME Inv, Inv', Lasting, Declare \/ \E id \in Ids : Parameter(id)
  PROVE  Lasting'
<1>1. frame[Top] \in KijiFrame /\ Top \in 1..Len(frame)
  BY TopIsFrame
<1>2. ASSUME NEW id \in Ids, Our(id) \/ OpenBindOur(id) PROVE Lasting'
  <2> DEFINE s == [frame[Top] EXCEPT !.package_variables = @ \cup {Var(id)}]
  <2>1. frame' = [frame EXCEPT ![Top] = s]
    BY <1>2 DEF Our, OpenBindOur
  <2>2. SameNames(frame[Top], s)
    BY <1>1 DEF SameNames, KijiFrame
  <2> HIDE DEF s
  <2> QED
    BY <1>1, <2>1, <2>2, SameNamesAdds, StepWrite
<1>3. ASSUME NEW id \in Ids, My(id) \/ OpenBindMy(id) PROVE Lasting'
  <2> DEFINE s == [frame[Top] EXCEPT !.lexicals = Append(@, Var(id))]
  <2>1. frame' = [frame EXCEPT ![Top] = s]
    BY <1>3 DEF My, OpenBindMy
  <2>2. Adds(frame[Top], s)
    BY <1>1, AppendAdds, NameTypes
  <2> HIDE DEF s
  <2> QED
    BY <1>1, <2>1, <2>2, StepWrite
<1>4. ASSUME NEW n \in LexName, frame' = [frame EXCEPT ![Top] = Bind(@, n)] PROVE Lasting'
  <2> DEFINE s == Bind(frame[Top], n)
  <2>1. frame' = [frame EXCEPT ![Top] = s]
    BY <1>4
  <2>2. Adds(frame[Top], s)
    BY <1>1, BindAdds
  <2> HIDE DEF s
  <2> QED
    BY <1>1, <2>1, <2>2, StepWrite
<1>5. ASSUME NEW id \in Ids, DeclareBound(Var(id)) \/ DeclareBound(Bare(id)) \/ Parameter(id)
      PROVE  Lasting'
  BY <1>4, <1>5, NameTypes DEF DeclareBound, Parameter
<1> QED
  BY <1>2, <1>3, <1>5 DEF Declare

(* Actions that push a frame, which has no reference.                        *)
LEMMA OpenFuncRefs ==
  ASSUME Inv, Inv', Lasting, NEW id \in Ids, NEW exportable, NEW params,
         OpenFunc(id, exportable, params)
  PROVE  Lasting'
<1>1. /\ frame[Top] \in KijiFrame /\ Top \in 1..Len(frame)
      /\ frame \in Seq(KijiFrame) /\ Len(frame) \in Nat
      /\ \A f \in 1..Len(frame) : frame[f] \in KijiFrame
  BY TopIsFrame, InvFacts DEF Inv, TypeOK
<1> DEFINE b  == Bind(frame[Top], Amp(id))
           s  == GetCode(b, 1)
           fs == [frame EXCEPT ![Top] = s]
           new == NewFrame("func", Top)
<1>2. b \in KijiFrame /\ Adds(frame[Top], b)
  BY <1>1, BindAdds, BindType, NameTypes
<1> HIDE DEF b
<1>3. s \in KijiFrame /\ Adds(frame[Top], s)
  <2>1. s \in KijiFrame
    BY <1>2, GetCodeType
  <2>2. /\ s.outer = b.outer /\ s.node = b.node /\ s.frame_type = b.frame_type
        /\ s.lexicals = b.lexicals /\ s.refs = b.refs
    BY <1>2 DEF GetCode, KijiFrame
  <2> HIDE DEF s
  <2>3. \A q : Local(s, q) <=> Local(b, q)
    BY <2>2 DEF Local
  <2>4. Keeps(frame[Top], s)
    BY <1>2, <2>2 DEF Adds, Keeps
  <2>5. NewRefsLocal(frame[Top], s)
    BY <1>2, <2>2, <2>3 DEF Adds, NewRefsLocal
  <2> QED
    BY <2>1, <2>4, <2>5 DEF Adds
<1>4. frame' = Append(fs, new)
  <2>1. PushFrame([frame EXCEPT ![Top] = GetCode(Bind(@, Amp(id)), 1)], "func")
    BY DEF OpenFunc
  <2> QED
    BY <2>1 DEF PushFrame, b
<1> HIDE DEF s
<1>5. /\ fs \in Seq(KijiFrame) /\ Len(fs) = Len(frame)
      /\ \A f \in 1..Len(frame) : fs[f] = IF f = Top THEN s ELSE frame[f]
  BY <1>1, <1>3
<1> HIDE DEF fs
<1>6. new \in KijiFrame /\ new.refs = {} /\ new.node # "use"
  BY <1>1, NewFrameType DEF NewFrame, FrameNodes
<1> HIDE DEF new
<1>7. /\ Len(frame') = Len(frame) + 1 /\ frame'[Len(frame) + 1] = new
      /\ \A f \in 1..Len(frame) : frame'[f] = fs[f]
  BY <1>1, <1>4, <1>5, <1>6, AppendProperties
<1>8. \A f \in 1..Len(frame) : Adds(frame[f], frame[f])
  BY <1>1, SameNamesAdds DEF SameNames
<1>9. \A f \in 1..Len(frame) : Adds(frame[f], frame'[f])
  BY <1>3, <1>5, <1>7, <1>8
<1>10. \A f \in 1..Len(frame') : f > Len(frame) => frame'[f].refs = {} /\ Marks(f)'
  <2>1. \A f \in 1..Len(frame') : f > Len(frame) => f = Len(frame) + 1
    BY <1>1, <1>7
  <2> QED
    BY <1>6, <1>7, <2>1 DEF Marks
<1> QED
  BY <1>1, <1>7, <1>9, <1>10, StepAdds

LEMMA OpenScopeRefs ==
  ASSUME Inv, Inv', Lasting, NEW node \in {"lambda", "block"}, NEW params,
         OpenScope(node, params)
  PROVE  Lasting'
<1>1. /\ frame \in Seq(KijiFrame) /\ Len(frame) \in Nat /\ Top \in Nat
      /\ \A f \in 1..Len(frame) : frame[f] \in KijiFrame
  BY TopIsFrame, InvFacts DEF Inv, TypeOK
<1> DEFINE new == NewFrame(node, Top)
<1>2. frame' = Append(frame, new)
  BY DEF OpenScope, PushFrame
<1>3. new \in KijiFrame /\ new.refs = {} /\ new.node # "use"
  BY <1>1, NewFrameType DEF NewFrame, FrameNodes
<1> HIDE DEF new
<1>4. /\ Len(frame') = Len(frame) + 1 /\ frame'[Len(frame) + 1] = new
      /\ \A f \in 1..Len(frame) : frame'[f] = frame[f]
  BY <1>1, <1>2, <1>3, AppendProperties
<1>5. \A f \in 1..Len(frame) : Adds(frame[f], frame'[f])
  BY <1>1, <1>4, SameNamesAdds DEF SameNames
<1>6. \A f \in 1..Len(frame') : f > Len(frame) => frame'[f].refs = {} /\ Marks(f)'
  <2>1. \A f \in 1..Len(frame') : f > Len(frame) => f = Len(frame) + 1
    BY <1>1, <1>4
  <2> QED
    BY <1>3, <1>4, <2>1 DEF Marks
<1> QED
  BY <1>1, <1>4, <1>5, <1>6, StepAdds

(* NODE_USE pushes a frame and may mark one.                                 *)
LEMMA OpenUseFrames ==
  ASSUME Inv, OpenUse
  PROVE  /\ Len(frame') = Len(frame) + 1
         /\ frame'[Len(frame) + 1].refs = {}
         /\ \A f \in 1..Len(frame) : SameNames(frame[f], frame'[f])
<1> DEFINE new == NewFrame("use", Top)
           fs  == Append(frame, new)
           no  == Len(frame) + 1
           stk == Append(frames, no)
<1>1. /\ frame \in Seq(KijiFrame) /\ frames \in Seq(Nat) /\ Len(frame) \in Nat /\ Top \in Nat
      /\ \A f \in 1..Len(frame) : frame[f] \in KijiFrame
  BY TopIsFrame, InvFacts DEF Inv, TypeOK
<1>2. new \in KijiFrame /\ new.refs = {}
  BY <1>1, NewFrameType DEF NewFrame, FrameNodes
<1> HIDE DEF new
<1>3. /\ fs \in Seq(KijiFrame) /\ Len(fs) = no /\ fs[no] = new
      /\ \A f \in 1..Len(frame) : fs[f] = frame[f]
  BY <1>1, <1>2, AppendProperties
<1>4. frame' = fs \/ \E g : frame' = [fs EXCEPT ![g].frame_type = "use"]
  BY DEF OpenUse, new
<1> HIDE DEF fs
<1>5. CASE frame' = fs
  BY <1>1, <1>2, <1>3, <1>5 DEF SameNames
<1>6. ASSUME NEW g, frame' = [fs EXCEPT ![g].frame_type = "use"]
      PROVE  /\ Len(frame') = Len(frame) + 1
             /\ frame'[Len(frame) + 1].refs = {}
             /\ \A f \in 1..Len(frame) : SameNames(frame[f], frame'[f])
  <2> DEFINE mark(r) == [r EXCEPT !.frame_type = "use"]
  <2>1. frame' = [fs EXCEPT ![g] = mark(fs[g])]
    BY <1>6
  <2>2. Len(frame') = Len(fs) /\ \A f \in 1..Len(fs) : frame'[f] = IF f = g THEN mark(fs[f]) ELSE fs[f]
    <3> HIDE DEF mark
    <3> QED
      BY <1>3, <2>1
  <2>3. \A r \in KijiFrame : SameNames(r, mark(r)) /\ SameNames(r, r)
    BY DEF SameNames, KijiFrame
  <2>4. \A f \in 1..no : fs[f] \in KijiFrame
    BY <1>3, ElementOfSeq
  <2> HIDE DEF mark
  <2>5. \A f \in 1..no : SameNames(fs[f], frame'[f])
    BY <1>3, <2>2, <2>3, <2>4
  <2>6. no \in 1..no /\ \A f \in 1..Len(frame) : f \in 1..no
    BY <1>1
  <2>7. SameNames(new, frame'[no])
    BY <1>3, <2>5, <2>6
  <2>8. frame'[no].refs = {}
    BY <1>2, <2>7 DEF SameNames
  <2>9. \A f \in 1..Len(frame) : SameNames(frame[f], frame'[f])
    BY <1>3, <2>5, <2>6
  <2> QED
    BY <1>3, <2>2, <2>8, <2>9
<1> QED
  BY <1>4, <1>5, <1>6

(* When nothing was closed, the frames on the stack are all the frames.       *)
LEMMA StackIsFull ==
  ASSUME Inv, Top = Len(frame), \A g \in 1..(Len(frame) - 1) : frame[g + 1].outer = g
  PROVE  Len(frames) = Len(frame)
<1> DEFINE n == Len(frames)
           m == Len(frame)
<1>1. /\ n \in Nat /\ n # 0 /\ m \in Nat /\ DOMAIN frames = 1..n /\ DOMAIN frame = 1..m
      /\ Top = frames[n] /\ frames[1] = 1
  BY InvFacts, LenProperties DEF Inv, TypeOK, Top, Shape, ScopesNest
<1>2. /\ \A i \in 1..n : frames[i] \in 1..m
      /\ \A i \in 1..n : i > 1 => frame[frames[i]].outer = frames[i - 1] /\ frames[i - 1] < frames[i]
  <2> HIDE DEF n, m
  <2>1. \A i \in 1..n : /\ frames[i] \in 1..m
                        /\ frame[frames[i]].outer = IF i = 1 THEN 0 ELSE frames[i - 1]
                        /\ i > 1 => frames[i - 1] < frames[i]
    BY <1>1 DEF Inv, Shape, ScopesNest
  <2>2. \A i \in 1..n : i > 1 => i # 1
    BY <1>1
  <2> QED
    BY <2>1, <2>2
<1>3. \A g \in 1..(m - 1) : frame[g + 1].outer = g
  OBVIOUS
<1> HIDE DEF n, m
<1> DEFINE S == {k \in 0..(n - 1) : frames[n - k] = m - k}
<1>4. 0 \in S
  BY <1>1 DEF m
<1>5. ASSUME NEW k \in 1..(n - 1), k - 1 \in S PROVE k \in S
  <2> DEFINE i == n - (k - 1)
             f == frames[i]
  <2>1. i \in 1..n /\ i > 1 /\ i - 1 = n - k /\ i - 1 \in 1..n /\ k \in 0..(n - 1)
    BY <1>1
  <2>2. f = m - (k - 1)
    BY <1>5
  <2> HIDE DEF i
  <2>3. f \in 1..m /\ frames[i - 1] \in 1..m /\ frames[i - 1] < f /\ frame[f].outer = frames[i - 1]
    BY <1>2, <2>1
  <2> HIDE DEF f
  <2>4. f - 1 \in 1..(m - 1) /\ (f - 1) + 1 = f
    BY <1>1, <2>3
  <2>5. frame[f].outer = f - 1
    BY <1>3, <2>4
  <2>6. f - 1 = m - k
    BY <1>1, <2>2
  <2>7. frames[n - k] = m - k
    BY <2>1, <2>3, <2>5, <2>6, Zenon
  <2> QED
    BY <2>1, <2>7
<1> HIDE DEF S
<1>6. \A k \in 0..(n - 1) : k \in S
  <2>1. n - 1 \in Nat
    BY <1>1
  <2> QED
    BY <1>4, <1>5, <2>1, StepByStep
<1>7. n - 1 \in 0..(n - 1)
  BY <1>1
<1>8. n - 1 \in S /\ n - (n - 1) = 1
  BY <1>1, <1>6, <1>7
<1>9. frames[1] = m - (n - 1)
  BY <1>8 DEF S
<1> QED
  BY <1>1, <1>9 DEF n, m

(* Then the frame a `use' pushes is marked, and no other.                     *)
LEMMA OpenUseHits ==
  ASSUME Inv, OpenUse, NEW u \in 1..Len(frame'), u > Len(frame), NothingClosedBefore(u)'
  PROVE  frame'[u].frame_type = "use" /\ \A f \in 1..Len(frame) : frame'[f] = frame[f]
<1> DEFINE new == NewFrame("use", Top)
           fs  == Append(frame, new)
           no  == Len(frame) + 1
           stk == Append(frames, no)
<1>1. /\ frame \in Seq(KijiFrame) /\ frames \in Seq(Nat) /\ Len(frame) \in Nat /\ Top \in Nat
      /\ Len(frame') = no
  BY TopIsFrame, InvFacts, OpenUseFrames DEF Inv, TypeOK
<1>2. new \in KijiFrame /\ new.outer = Top
  BY <1>1, NewFrameType DEF NewFrame, FrameNodes
<1> HIDE DEF new
<1>3. /\ fs \in Seq(KijiFrame) /\ Len(fs) = no /\ fs[no] = new
      /\ \A f \in 1..Len(frame) : fs[f] = frame[f]
  BY <1>1, <1>2, AppendProperties
<1>4. \/ no \in DOMAIN stk /\ frame' = [fs EXCEPT ![stk[no]].frame_type = "use"]
      \/ no \notin DOMAIN stk /\ (frame' = fs \/ \E g : frame' = [fs EXCEPT ![g].frame_type = "use"])
  BY DEF OpenUse, new
<1> HIDE DEF fs
<1>5. \A f \in 1..no : frame'[f].outer = fs[f].outer
  <2>1. ASSUME NEW g, frame' = [fs EXCEPT ![g].frame_type = "use"], NEW f \in 1..no
        PROVE  frame'[f].outer = fs[f].outer
    <3>1. fs[f] \in KijiFrame
      BY <1>3, ElementOfSeq
    <3>2. frame'[f] = IF f = g THEN [fs[f] EXCEPT !.frame_type = "use"] ELSE fs[f]
      BY <1>3, <2>1
    <3> QED
      BY <3>1, <3>2 DEF KijiFrame
  <2> QED
    BY <1>4, <2>1
<1>6. u = no /\ no \in 1..no
  BY <1>1
<1>7. \A g \in 1..Len(frame) : frame'[g + 1].outer = g
  <2>1. \A g \in 1..(u - 1) : frame'[g + 1].outer = g
    BY DEF NothingClosedBefore
  <2> QED
    BY <1>1, <1>6, <2>1
<1>8. \A g \in 1..(Len(frame) - 1) : frame[g + 1].outer = g
  <2>1. ASSUME NEW g \in 1..(Len(frame) - 1) PROVE frame[g + 1].outer = g
    <3>1. g \in 1..Len(frame) /\ g + 1 \in 1..Len(frame) /\ g + 1 \in 1..no
      BY <1>1
    <3>2. frame'[g + 1].outer = g /\ frame'[g + 1].outer = fs[g + 1].outer
          /\ fs[g + 1] = frame[g + 1]
      BY <3>1, <1>3, <1>5, <1>7
    <3> QED
      BY <3>2
  <2> QED
    BY <2>1
<1>9. Top = Len(frame)
  <2>1. Len(frame) \in 1..Len(frame)
    BY <1>1, InvFacts DEF Inv, Shape, ScopesNest
  <2>2. frame'[no].outer = Len(frame)
    BY <1>7, <2>1
  <2>3. frame'[no].outer = Top
    BY <1>2, <1>3, <1>5, <1>6
  <2> QED
    BY <2>2, <2>3
<1>10. Len(frames) = Len(frame)
  BY <1>8, <1>9, StackIsFull
<1>11. no \in DOMAIN stk /\ stk[no] = no
  BY <1>1, <1>10, AppendProperties
<1>12. frame' = [fs EXCEPT ![no].frame_type = "use"]
  BY <1>4, <1>11
<1>13. frame'[no] = [fs[no] EXCEPT !.frame_type = "use"]
  BY <1>3, <1>6, <1>12
<1>14. [new EXCEPT !.frame_type = "use"].frame_type = "use"
  BY <1>2 DEF KijiFrame
<1>15. \A f \in 1..Len(frame) : frame'[f] = frame[f]
  BY <1>1, <1>3, <1>12
<1> QED
  BY <1>3, <1>6, <1>13, <1>14, <1>15

LEMMA OpenUseMarks ==
  ASSUME Inv, OpenUse
  PROVE  \A f \in 1..Len(frame') : f > Len(frame) => Marks(f)'
BY OpenUseHits DEF Marks

LEMMA OpenUseRefs ==
  ASSUME Inv, Inv', Lasting, OpenUse
  PROVE  Lasting'
<1>1. Len(frame) \in Nat /\ \A f \in 1..Len(frame) : frame[f] \in KijiFrame
  BY InvFacts DEF Inv
<1>2. \A f \in 1..Len(frame) : Adds(frame[f], frame'[f])
  BY <1>1, OpenUseFrames, SameNamesAdds
<1> QED
  BY <1>1, <1>2, OpenUseFrames, OpenUseMarks, StepAdds

(* Actions that close a frame write in the one below it.                      *)
LEMMA CloseRefs ==
  ASSUME Inv, Inv', Lasting, CloseFunc \/ CloseUse \/ CloseScope("lambda") \/ CloseScope("block")
  PROVE  Lasting'
<1> DEFINE g == Pop(frames)[Len(frames) - 1]
<1>1. ASSUME NEW node \in FrameNodes, Closing(node)
      PROVE  g \in 1..Len(frame) /\ frame[g] \in KijiFrame
  BY <1>1, ClosingFacts DEF Inv
<1> HIDE DEF g
<1>2. CASE CloseFunc
  <2> DEFINE s == [frame[g] EXCEPT !.codes[Current.pos] = Current.frame_no]
  <2>1. frame' = [frame EXCEPT ![g] = s] /\ Closing("func")
    BY <1>2 DEF CloseFunc, g
  <2>2. g \in 1..Len(frame) /\ frame[g] \in KijiFrame
    BY <1>1, <2>1 DEF FrameNodes
  <2>3. SameNames(frame[g], s)
    BY <2>2 DEF SameNames, KijiFrame
  <2> HIDE DEF s
  <2> QED
    BY <2>1, <2>2, <2>3, SameNamesAdds, StepWrite
<1>3. ASSUME NEW node \in FrameNodes, CloseScope(node) PROVE Lasting'
  <2> DEFINE s == GetCode(frame[g], Current.frame_no)
  <2>1. frame' = [frame EXCEPT ![g] = s] /\ Closing(node)
    BY <1>3 DEF CloseScope, g
  <2>2. g \in 1..Len(frame) /\ frame[g] \in KijiFrame
    BY <1>1, <2>1
  <2>3. SameNames(frame[g], s)
    BY <2>2 DEF SameNames, KijiFrame, GetCode
  <2> HIDE DEF s
  <2> QED
    BY <2>1, <2>2, <2>3, SameNamesAdds, StepWrite
<1>4. CASE CloseUse
  <2> DEFINE s == Import(frame[g], frame[Top].exportables, Current.frame_no)
  <2>1. frame' = [frame EXCEPT ![g] = s] /\ Closing("use")
    BY <1>4 DEF CloseUse, g
  <2>2. g \in 1..Len(frame) /\ frame[g] \in KijiFrame
    BY <1>1, <2>1 DEF FrameNodes
  <2>3. frame[Top].exportables \in Seq([name : LexName, frame_no : Nat])
    BY TopIsFrame, FrameFields
  <2>4. Adds(frame[g], s)
    BY <2>2, <2>3, ImportAdds
  <2> HIDE DEF s
  <2> QED
    BY <2>1, <2>2, <2>4, StepWrite
<1> QED
  BY <1>2, <1>3, <1>4 DEF FrameNodes

(* BINDLEX of the lexical `my' has declared before its initialiser.           *)
LEMMA CloseBindMyRefs ==
  ASSUME Inv, Inv', Lasting, CloseBindMy
  PROVE  Lasting'
<1> DEFINE l == Current.lex
           q == Ref(l, 0, frame[Top].lexicals[l])
           s == [frame[Top] EXCEPT !.refs = @ \cup {q}]
<1>1. frame[Top] \in KijiFrame /\ Top \in 1..Len(frame)
  BY TopIsFrame
<1>2. frame' = [frame EXCEPT ![Top] = s]
  BY <1>1 DEF CloseBindMy, EmitRef
<1>3. l \in 1..Len(frame[Top].lexicals)
  <2>1. /\ open # <<>> /\ Current.node = "my" /\ Len(open) \in 1..Len(open)
        /\ Current = open[Len(open)]
    BY InvFacts DEF CloseBindMy, Inv, Current
  <2>2. Current.frame_no = Top
    BY <2>1, HandlerFacts DEF Inv
  <2> QED
    BY <2>1, <2>2, HandlerFacts DEF Inv
<1>4. q.outer = 0 /\ q.lex = l /\ q.name = frame[Top].lexicals[l]
  BY DEF Ref
<1> HIDE DEF q, l
<1>5. /\ s.outer = frame[Top].outer /\ s.node = frame[Top].node
      /\ s.lexicals = frame[Top].lexicals /\ s.refs = frame[Top].refs \cup {q}
      /\ s.frame_type = frame[Top].frame_type
  BY <1>1 DEF KijiFrame
<1> HIDE DEF s
<1>6. Len(frame[Top].lexicals) \in Nat
  BY <1>1, FrameFields
<1>7. Keeps(frame[Top], s)
  BY <1>5, <1>6 DEF Keeps
<1>8. Local(s, q)
  BY <1>3, <1>4, <1>5 DEF Local
<1>9. NewRefsLocal(frame[Top], s)
  BY <1>5, <1>8 DEF NewRefsLocal
<1> QED
  BY <1>1, <1>2, <1>7, <1>9, StepWrite DEF Adds

LEMMA AddExportableRefs ==
  ASSUME Inv, Inv', Lasting, AddExportable
  PROVE  Lasting'
<1> DEFINE g == walk.at
           s == [frame[g] EXCEPT !.exportables =
                   Append(@, [name |-> walk.want, frame_no |-> walk.item])]
<1>1. g \in 1..Len(frame)
  BY WalkFacts DEF AddExportable, Exporting, Inv, WalkFits
<1>2. frame[g] \in KijiFrame
  BY <1>1, InvFacts DEF Inv
<1>3. frame' = [frame EXCEPT ![g] = s]
  BY DEF AddExportable
<1>4. SameNames(frame[g], s)
  BY <1>2 DEF SameNames, KijiFrame
<1> HIDE DEF g, s
<1> QED
  BY <1>1, <1>2, <1>3, <1>4, SameNamesAdds, StepWrite

(* The reference a lookup emits: the stack is its chain of outer frames.      *)
LEMMA FoundPoints ==
  ASSUME Inv, FoundLexical
  PROVE  Points(Top, Ref(LexNo(walk.at, walk.want), walk.outer, walk.want))
<1> DEFINE q  == Ref(LexNo(walk.at, walk.want), walk.outer, walk.want)
           k  == walk.outer
           n  == Len(frames)
           up == [i \in 0..k |-> frames[n - i]]
<1>1. walk # Idle /\ walk.at # 0 /\ Declares(walk.at, walk.want)
  BY DEF FoundLexical, Looking
<1>2. /\ k \in Nat /\ n \in Nat /\ k <= n /\ n - k \in 1..n /\ walk.at = frames[n - k]
      /\ walk.at \in 1..Len(frame)
  BY <1>1, WalkFacts
<1>3. /\ \A j \in 1..n : frames[j] \in 1..Len(frame) /\ DOMAIN frames = 1..n /\ n # 0
      /\ Len(frame) \in Nat
  BY InvFacts, LenProperties DEF Inv, TypeOK
<1>4. \A j \in 1..n : frame[frames[j]].outer = IF j = 1 THEN 0 ELSE frames[j - 1]
  BY <1>3 DEF Inv, Shape, ScopesNest
<1>5. q.outer = k /\ q.lex = LexNo(walk.at, walk.want) /\ q.name = walk.want
  BY DEF Ref
<1>6. /\ LexNo(walk.at, walk.want) \in 1..Len(frame[walk.at].lexicals)
      /\ frame[walk.at].lexicals[LexNo(walk.at, walk.want)] = walk.want
  BY <1>1, <1>2, InvFacts, LexNoProperties DEF Inv
<1>7. Top = frames[n]
  BY DEF Top
<1> HIDE DEF k, n, q
<1>8. /\ up \in [0..k -> Nat] /\ up[0] = Top /\ up[k] = walk.at
      /\ \A i \in 1..k : up[i - 1] = frames[n - (i - 1)] /\ up[i] = frames[n - i]
  <2>1. \A i \in 0..k : n - i \in 1..n /\ frames[n - i] \in Nat
    BY <1>2, <1>3
  <2>2. \A i \in 1..k : i - 1 \in 0..k /\ i \in 0..k
    BY <1>2
  <2>3. 0 \in 0..k /\ k \in 0..k /\ n - 0 = n
    BY <1>2
  <2> QED
    BY <1>2, <1>7, <2>1, <2>2, <2>3
<1> HIDE DEF up
<1>9. ASSUME NEW i \in 1..k
      PROVE  up[i - 1] \in 1..Len(frame) /\ up[i] = frame[up[i - 1]].outer
  <2> DEFINE j == n - (i - 1)
  <2>1. j \in 1..n /\ j # 1 /\ j - 1 = n - i
    BY <1>2
  <2>2. up[i - 1] = frames[j] /\ up[i] = frames[j - 1]
    BY <1>8, <2>1
  <2> HIDE DEF j
  <2> QED
    BY <1>3, <1>4, <2>1, <2>2
<1>10. Chain(Top, q, up)
  BY <1>2, <1>5, <1>6, <1>8, <1>9 DEF Chain
<1>11. Points(Top, q)
  BY <1>5, <1>8, <1>10 DEF Points
<1> QED
  BY <1>11 DEF q

LEMMA FoundLexicalRefs ==
  ASSUME Inv, Inv', Lasting, FoundLexical
  PROVE  Lasting'
<1> DEFINE q == Ref(LexNo(walk.at, walk.want), walk.outer, walk.want)
           s == [frame[Top] EXCEPT !.refs = @ \cup {q}]
<1>1. /\ frame[Top] \in KijiFrame /\ Top \in 1..Len(frame) /\ Len(frame) \in Nat
      /\ frame \in Seq(KijiFrame) /\ \A f \in 1..Len(frame) : frame[f] \in KijiFrame
  BY TopIsFrame, InvFacts DEF Inv, TypeOK
<1>2. frame' = [frame EXCEPT ![Top] = s]
  BY <1>1 DEF FoundLexical, EmitRef
<1>3. Points(Top, q)
  BY FoundPoints
<1>4. q \in Refs
  <2>1. walk # Idle /\ walk.at # 0 /\ Declares(walk.at, walk.want)
    BY DEF FoundLexical, Looking
  <2>2. /\ walk.outer \in Nat /\ walk.want \in LexName /\ walk.at \in 1..Len(frame)
    BY <2>1, WalkFacts
  <2>3. LexNo(walk.at, walk.want) \in Nat
    BY <2>1, <2>2, <1>1, LexNoProperties, FrameFields
  <2> QED
    BY <2>2, <2>3, RefType
<1> HIDE DEF q
<1>5. /\ s.outer = frame[Top].outer /\ s.node = frame[Top].node
      /\ s.lexicals = frame[Top].lexicals /\ s.refs = frame[Top].refs \cup {q}
      /\ s.frame_type = frame[Top].frame_type
  BY <1>1 DEF KijiFrame
<1> HIDE DEF s
<1>6. /\ Len(frame') = Len(frame)
      /\ \A f \in 1..Len(frame) : frame'[f] = IF f = Top THEN s ELSE frame[f]
  BY <1>1, <1>2
<1>7. \A f \in 1..Len(frame) : Keeps(frame[f], frame'[f])
  <2>1. \A f \in 1..Len(frame) : Keeps(frame[f], frame[f])
    BY <1>1, SameNamesAdds DEF SameNames, Adds
  <2>2. Keeps(frame[Top], s)
    BY <1>1, <1>5, FrameFields DEF Keeps
  <2> QED
    BY <1>6, <2>1, <2>2
<1>8. PICK t, r : t = Top /\ r = q
  OBVIOUS
<1>9. Points(t, r)'
  <2>1. Len(frame) <= Len(frame')
    BY <1>1, <1>6
  <2>2. t \in 1..Len(frame) /\ Points(t, r) /\ r \in Refs
    BY <1>1, <1>3, <1>4, <1>8
  <2> QED
    BY <2>1, <2>2, <1>7, PointsKept
<1>10. ASSUME NEW f \in 1..Len(frame'), NEW p \in frame'[f].refs
      PROVE  (f <= Len(frame) /\ p \in frame[f].refs) \/ Points(f, p)'
  <2>1. f \in 1..Len(frame) /\ f <= Len(frame)
    BY <1>1, <1>6
  <2>2. CASE f = t /\ p = r
    BY <2>2, <1>9
  <2>3. CASE ~ (f = t /\ p = r)
    BY <2>1, <2>3, <1>5, <1>6, <1>8
  <2> QED
    BY <2>2, <2>3
<1> QED
  BY <1>1, <1>6, <1>7, <1>10, StepRefs, StepMarks DEF Lasting

LEMMA NextLasting ==
  ASSUME Inv, Inv', Lasting, [Next]_vars
  PROVE  Lasting'
<1>1. ASSUME Declare \/ \E id \in Ids : Parameter(id) PROVE Lasting'
  BY <1>1, DeclareRefs
<1>2. ASSUME Open PROVE Lasting'
  <2>1. ASSUME NEW id \in Ids, NEW e \in BOOLEAN, NEW n \in 0..MaxParams, OpenFunc(id, e, n)
        PROVE  Lasting'
    BY <2>1, OpenFuncRefs
  <2>2. ASSUME NEW node \in {"lambda", "block"}, NEW n, OpenScope(node, n) PROVE Lasting'
    BY <2>2, OpenScopeRefs
  <2> QED
    BY <1>2, <2>1, <2>2, OpenUseRefs DEF Open
<1>3. ASSUME Close PROVE Lasting'
  <2>1. ASSUME CloseBindOur PROVE Lasting'
    BY <2>1, RefsUnchanged DEF CloseBindOur
  <2> QED
    BY <1>3, <2>1, CloseRefs, CloseBindMyRefs DEF Close
<1>4. ASSUME WalkStep PROVE Lasting'
  <2>1. ASSUME FoundPackageVariable \/ WalkOuter \/ NotFound \/ WalkToLibrary PROVE Lasting'
    BY <2>1, RefsUnchanged DEF FoundPackageVariable, WalkOuter, NotFound, WalkToLibrary
  <2> QED
    BY <1>4, <2>1, FoundLexicalRefs, AddExportableRefs DEF WalkStep
<1>5. ASSUME Refer \/ Finish \/ Terminated \/ UNCHANGED vars PROVE Lasting'
  BY <1>5, RefsUnchanged DEF Refer, UseVariable, CallSub, UseIdent, Finish, Terminated, vars
<1> QED
  BY <1>1, <1>2, <1>3, <1>4, <1>5 DEF Next

LEMMA InitRefs == Init => RefsPoint
<1> SUFFICES ASSUME Init PROVE RefsPoint
  OBVIOUS
<1>1. Inv
  BY InitInv
<1> DEFINE r == NewFrame("main", 0)
           s == Bind(r, Package)
<1>2. r \in KijiFrame /\ r.refs = {}
  BY DEF NewFrame, KijiFrame
<1> HIDE DEF r
<1>3. s \in KijiFrame /\ Adds(r, s)
  BY <1>2, BindType, BindAdds, PackageType
<1>4. frame = <<s>>
  BY DEF Init, r
<1> HIDE DEF s
<1>5. Len(frame) = 1 /\ frame[1] = s
  BY <1>4
<1>6. ASSUME NEW f \in 1..Len(frame), NEW q \in frame[f].refs PROVE Points(f, q)
  <2>1. frame[f] = s
    BY <1>5
  <2>2. Local(frame[f], q)
    BY <1>2, <1>3, <2>1 DEF Adds, NewRefsLocal
  <2>3. q \in Refs
    BY <1>3, <2>1, FrameFields
  <2> QED
    BY <1>1, <2>2, <2>3, LocalPoints
<1> QED
  BY <1>6 DEF RefsPoint

LEMMA InitMarks == Init => UseMarksItsFrame
<1> SUFFICES ASSUME Init PROVE UseMarksItsFrame
  OBVIOUS
<1> DEFINE s == Bind(NewFrame("main", 0), Package)
<1>1. s.node = "main"
  BY DEF Bind, NewFrame
<1>2. frame = <<s>>
  BY DEF Init
<1> HIDE DEF s
<1> QED
  BY <1>1, <1>2 DEF UseMarksItsFrame
-----------------------------------------------------------------------------
(* Up, the recursion of the property, follows such a chain.                  *)

LEMMA UpIs ==
  ASSUME NEW k \in Nat, NEW f, NEW up \in [0..k -> Nat], up[0] = f,
         \A i \in 1..k : up[i] = IF up[i - 1] = 0 THEN 0 ELSE frame[up[i - 1]].outer
  PROVE  Up(f, k) = up[k]
<1> DEFINE E(g, i) ==
             IF i = 0 THEN f ELSE IF g[i - 1] = 0 THEN 0 ELSE frame[g[i - 1]].outer
           Solves(g) == g = [i \in 0..k |-> E(g, i)]
           walked == CHOOSE g : Solves(g)
<1>1. Solves(up)
  <2>1. ASSUME NEW i \in 0..k PROVE up[i] = E(up, i)
    <3>1. CASE i = 0
      BY <3>1
    <3>2. CASE i # 0
      <4>1. i \in 1..k
        BY <3>2
      <4> QED
        BY <3>2, <4>1
    <3> QED
      BY <3>1, <3>2
  <2>2. up = [i \in 0..k |-> up[i]]
    OBVIOUS
  <2> QED
    BY <2>1, <2>2
<1>2. Solves(walked)
  BY <1>1
<1>3. Up(f, k) = walked[k]
  BY DEF Up
<1> HIDE DEF walked
<1>4. \A i \in 0..k : walked[i] = E(walked, i)
  BY <1>2
<1> DEFINE S == {i \in 0..k : walked[i] = up[i]}
<1>5. 0 \in S
  BY <1>4
<1>6. ASSUME NEW i \in 1..k, i - 1 \in S PROVE i \in S
  <2>1. i \in 0..k /\ i # 0 /\ walked[i - 1] = up[i - 1]
    BY <1>6
  <2>2. walked[i] = IF up[i - 1] = 0 THEN 0 ELSE frame[up[i - 1]].outer
    BY <1>4, <2>1
  <2> QED
    BY <2>1, <2>2
<1> HIDE DEF S
<1>7. \A i \in 0..k : i \in S
  BY <1>5, <1>6, StepByStep
<1>8. k \in S
  BY <1>7
<1> QED
  BY <1>3, <1>8 DEF S

LEMMA PointsResolve ==
  ASSUME Inv, RefsPoint
  PROVE  RefsResolve
<1> SUFFICES ASSUME NEW f \in DOMAIN frame, NEW q \in frame[f].refs
             PROVE  /\ Up(f, q.outer) \in DOMAIN frame
                    /\ q.lex \in DOMAIN frame[Up(f, q.outer)].lexicals
                    /\ frame[Up(f, q.outer)].lexicals[q.lex] = q.name
  BY DEF RefsResolve
<1>1. /\ f \in 1..Len(frame) /\ DOMAIN frame = 1..Len(frame)
      /\ \A g \in 1..Len(frame) : frame[g] \in KijiFrame
  BY InvFacts DEF Inv, TypeOK
<1>2. q \in Refs
  BY <1>1, FrameFields
<1>3. q.outer \in Nat
  BY <1>2 DEF Refs
<1>4. PICK up \in [0..q.outer -> Nat] : Chain(f, q, up)
  BY <1>1 DEF RefsPoint, Points
<1>5. /\ up[0] = f
      /\ \A i \in 1..q.outer : up[i] = IF up[i - 1] = 0 THEN 0 ELSE frame[up[i - 1]].outer
  BY <1>4 DEF Chain
<1> DEFINE u == up[q.outer]
<1>6. Up(f, q.outer) = u
  BY <1>3, <1>5, UpIs
<1>7. u \in 1..Len(frame) /\ q.lex \in 1..Len(frame[u].lexicals)
      /\ frame[u].lexicals[q.lex] = q.name
  BY <1>4 DEF Chain
<1> HIDE DEF u
<1>8. DOMAIN frame[u].lexicals = 1..Len(frame[u].lexicals)
  BY <1>1, <1>7, FrameFields
<1> QED
  BY <1>1, <1>6, <1>7, <1>8

(* The invariant, which needs the one of Frames_proofs in both states.        *)
THEOREM Lastingness == Spec => []Lasting
<1>1. Init => Lasting
  BY InitRefs, InitMarks DEF Lasting
<1>2. Inv /\ Inv' /\ Lasting /\ [Next]_vars => Lasting'
  BY NextLasting
<1> QED
  BY <1>1, <1>2, Invariance, PTL DEF Spec

(* Every operand pair the compiler ever emitted leads, along the outer       *)
(* pointers of the finished frames, to a lexical of the name it was emitted  *)
(* for: what GETLEX and BINDLEX (nd_literal.c, nd_func.c) do when they run.   *)
THEOREM Resolution == Spec => []RefsResolve
<1>1. Inv /\ Lasting => RefsResolve
  BY PointsResolve DEF Lasting
<1> QED
  BY <1>1, Invariance, Lastingness, PTL

(* A `use' that comes before any frame was closed marks the frame it pushed,  *)
(* whatever the program goes on to do (NODE_USE, nd_func.c).                  *)
THEOREM FirstMark == Spec => []UseMarksItsFrame
<1>1. Lasting => UseMarksItsFrame
  BY DEF Lasting
<1> QED
  BY <1>1, Lastingness, PTL
-----------------------------------------------------------------------------
(* What a step may do to a frame.  Most leave its codes and exports alone.    *)

Prefix(s, t) == Len(s) <= Len(t) /\ \A i \in 1..Len(s) : t[i] = s[i]
Grown(r, s)  == Keeps(r, s) /\ Prefix(r.exportables, s.exportables)
Meek(r, s)   == Keeps(r, s) /\ s.codes = r.codes /\ s.exportables = r.exportables
Quiet(r, s)  == Meek(r, s) /\ s.frame_type = r.frame_type

LEMMA Exportables ==
  ASSUME NEW r \in KijiFrame
  PROVE  /\ Len(r.exportables) \in Nat
         /\ \A i \in 1..Len(r.exportables) :
              r.exportables[i].name \in LexName /\ r.exportables[i].frame_no \in Nat
<1>1. r.exportables \in Seq([name : LexName, frame_no : Nat])
  BY FrameFields
<1>2. \A i \in 1..Len(r.exportables) : r.exportables[i] \in [name : LexName, frame_no : Nat]
  BY <1>1, ElementOfSeq
<1> QED
  BY <1>1, <1>2, LenProperties

LEMMA QuietGrown ==
  ASSUME NEW r \in KijiFrame, NEW s, Quiet(r, s)
  PROVE  Grown(r, s)
BY Exportables DEF Quiet, Meek, Grown, Prefix

LEMMA SameMeek ==
  ASSUME NEW r \in KijiFrame, NEW s, SameNames(r, s), s.codes = r.codes,
         s.exportables = r.exportables
  PROVE  Meek(r, s) /\ (s.frame_type = r.frame_type => Quiet(r, s))
BY SameNamesAdds DEF Adds, Quiet, Meek

LEMMA QuietItself == ASSUME NEW r \in KijiFrame PROVE Quiet(r, r)
BY SameMeek DEF SameNames

(* The writes that declare a name, use it, or mark the frame.                *)
LEMMA QuietWrites ==
  ASSUME NEW r \in KijiFrame, NEW n \in LexName, NEW q
  PROVE  /\ Quiet(r, [r EXCEPT !.package_variables = @ \cup {q}])
         /\ Quiet(r, [r EXCEPT !.refs = @ \cup {q}])
         /\ Meek(r, [r EXCEPT !.frame_type = "use"])
         /\ Quiet(r, [r EXCEPT !.lexicals = Append(@, n)])
         /\ Quiet(r, Bind(r, n))
<1>1. Quiet(r, [r EXCEPT !.package_variables = @ \cup {q}])
  <2> DEFINE s == [r EXCEPT !.package_variables = @ \cup {q}]
  <2>1. /\ SameNames(r, s) /\ s.codes = r.codes /\ s.exportables = r.exportables
        /\ s.frame_type = r.frame_type
    BY DEF SameNames, KijiFrame
  <2> HIDE DEF s
  <2>2. Quiet(r, s)
    BY <2>1, SameMeek
  <2> QED
    BY <2>2 DEF s
<1>2. Quiet(r, [r EXCEPT !.refs = @ \cup {q}])
  <2> DEFINE s == [r EXCEPT !.refs = @ \cup {q}]
  <2>1. /\ s.outer = r.outer /\ s.node = r.node /\ s.lexicals = r.lexicals
        /\ s.frame_type = r.frame_type /\ s.codes = r.codes /\ s.exportables = r.exportables
    BY DEF KijiFrame
  <2> HIDE DEF s
  <2>2. Quiet(r, s)
    BY <2>1, FrameFields DEF Quiet, Meek, Keeps
  <2> QED
    BY <2>2 DEF s
<1>3. Meek(r, [r EXCEPT !.frame_type = "use"])
  <2> DEFINE s == [r EXCEPT !.frame_type = "use"]
  <2>1. SameNames(r, s) /\ s.codes = r.codes /\ s.exportables = r.exportables
    BY DEF SameNames, KijiFrame
  <2> HIDE DEF s
  <2>2. Meek(r, s)
    BY <2>1, SameMeek
  <2> QED
    BY <2>2 DEF s
<1>4. Quiet(r, [r EXCEPT !.lexicals = Append(@, n)])
  <2> DEFINE L == Append(r.lexicals, n)
             s == [r EXCEPT !.lexicals = L]
  <2>1. Keeps(r, s)
    BY AppendAdds DEF Adds
  <2> HIDE DEF L
  <2>2. s.codes = r.codes /\ s.exportables = r.exportables /\ s.frame_type = r.frame_type
    BY DEF KijiFrame
  <2> HIDE DEF s
  <2>3. Quiet(r, s)
    BY <2>1, <2>2 DEF Quiet, Meek
  <2> QED
    BY <2>3 DEF s, L
<1>5. Quiet(r, Bind(r, n))
  <2>1. /\ Bind(r, n).codes = r.codes /\ Bind(r, n).exportables = r.exportables
        /\ Bind(r, n).frame_type = r.frame_type
    BY DEF Bind, KijiFrame
  <2>2. Keeps(r, Bind(r, n))
    BY BindAdds DEF Adds
  <2> QED
    BY <2>1, <2>2 DEF Quiet, Meek
<1> QED
  BY <1>1, <1>2, <1>3, <1>4, <1>5

(* The writes of codes and exports.                                         *)
LEMMA CodeWrites ==
  ASSUME NEW r \in KijiFrame, NEW C \in Seq(Nat)
  PROVE  LET s == [r EXCEPT !.codes = C] IN
         /\ Keeps(r, s) /\ s.codes = C /\ s.exportables = r.exportables
         /\ s.frame_type = r.frame_type
<1> DEFINE s == [r EXCEPT !.codes = C]
<1>1. /\ SameNames(r, s) /\ s.codes = C /\ s.exportables = r.exportables
      /\ s.frame_type = r.frame_type
  BY DEF SameNames, KijiFrame
<1> HIDE DEF s
<1>2. Keeps(r, s)
  BY <1>1, SameNamesAdds DEF Adds
<1> QED
  BY <1>1, <1>2 DEF s

LEMMA ExportWrite ==
  ASSUME NEW r \in KijiFrame, NEW e \in [name : LexName, frame_no : Nat]
  PROVE  LET s == [r EXCEPT !.exportables = Append(@, e)] IN
         /\ Keeps(r, s) /\ s.codes = r.codes /\ s.frame_type = r.frame_type
         /\ Prefix(r.exportables, s.exportables)
         /\ Len(s.exportables) = Len(r.exportables) + 1
         /\ s.exportables[Len(r.exportables) + 1] = e
<1> DEFINE E == Append(r.exportables, e)
           s == [r EXCEPT !.exportables = E]
<1>1. /\ Len(E) = Len(r.exportables) + 1 /\ E[Len(r.exportables) + 1] = e
      /\ \A i \in 1..Len(r.exportables) : E[i] = r.exportables[i]
      /\ Len(r.exportables) \in Nat
  BY FrameFields, Exportables, AppendProperties
<1> HIDE DEF E
<1>2. SameNames(r, s) /\ s.codes = r.codes /\ s.exportables = E /\ s.frame_type = r.frame_type
  BY DEF SameNames, KijiFrame
<1> HIDE DEF s
<1>3. Keeps(r, s)
  BY <1>2, SameNamesAdds DEF Adds
<1> QED
  BY <1>1, <1>2, <1>3 DEF s, E, Prefix

Merges(r, exports, lib, s) ==
  LET n == Len(exports)
      m == Len(r.codes)
  IN /\ Len(s.codes) = m + n + 1
     /\ \A i \in 1..m : s.codes[i] = r.codes[i]
     /\ \A i \in 1..n : s.codes[m + i] = exports[i].frame_no
     /\ s.codes[m + n + 1] = lib
     /\ Len(s.lexicals) = Len(r.lexicals) + n
     /\ \A i \in 1..n : s.lexicals[Len(r.lexicals) + i] = exports[i].name

LEMMA ImportWrite ==
  ASSUME NEW r \in KijiFrame, NEW lib \in Nat,
         NEW exports \in Seq([name : LexName, frame_no : Nat])
  PROVE  LET s == Import(r, exports, lib) IN
         /\ Keeps(r, s) /\ s.exportables = r.exportables /\ s.frame_type = r.frame_type
         /\ Merges(r, exports, lib, s)
<1> DEFINE n == Len(exports)
           names == [i \in 1..n |-> exports[i].name]
           nos   == [i \in 1..n |-> exports[i].frame_no]
           L == r.lexicals \o names
           D == r.codes \o nos
           C == Append(D, lib)
           s == Import(r, exports, lib)
<1>1. n \in Nat /\ \A i \in 1..n : exports[i].name \in LexName /\ exports[i].frame_no \in Nat
  <2>1. \A i \in 1..n : exports[i] \in [name : LexName, frame_no : Nat]
    BY ElementOfSeq
  <2> QED
    BY <2>1, LenProperties
<1>2. /\ names \in Seq(LexName) /\ Len(names) = n /\ \A i \in 1..n : names[i] = exports[i].name
      /\ nos \in Seq(Nat) /\ Len(nos) = n /\ \A i \in 1..n : nos[i] = exports[i].frame_no
  <2>1. names \in [1..n -> LexName] /\ nos \in [1..n -> Nat]
    BY <1>1
  <2>2. names \in Seq(LexName) /\ nos \in Seq(Nat)
    BY <1>1, <2>1, SeqDef
  <2> QED
    BY <1>1, <2>1, <2>2, LenProperties
<1>3. /\ s.lexicals = L /\ s.codes = C /\ s.exportables = r.exportables
      /\ s.frame_type = r.frame_type
  BY DEF Import, KijiFrame
<1>4. Keeps(r, s)
  BY ImportAdds DEF Adds
<1> HIDE DEF names, nos, s, n
<1>5. /\ Len(L) = Len(r.lexicals) + Len(names)
      /\ \A i \in 1..Len(names) : L[Len(r.lexicals) + i] = names[i]
  <2>1. r.lexicals \in Seq(LexName)
    BY FrameFields
  <2> QED
    BY <1>2, <2>1, Concatenated
<1>6. /\ D \in Seq(Nat) /\ Len(D) = Len(r.codes) + Len(nos)
      /\ \A i \in 1..Len(r.codes) : D[i] = r.codes[i]
      /\ \A i \in 1..Len(nos) : D[Len(r.codes) + i] = nos[i]
  <2>1. r.codes \in Seq(Nat)
    BY FrameFields
  <2>2. D \in Seq(Nat)
    BY <1>2, <2>1, ConcatProperties
  <2>3. D = r.codes \o nos
    OBVIOUS
  <2> HIDE DEF D
  <2>4. /\ Len(D) = Len(r.codes) + Len(nos)
        /\ \A i \in 1..Len(r.codes) : D[i] = r.codes[i]
        /\ \A i \in 1..Len(nos) : D[Len(r.codes) + i] = nos[i]
    <3>1. nos \in Seq(Nat)
      BY <1>2
    <3> QED
      BY <2>1, <2>3, <3>1, Concatenated
  <2> QED
    BY <2>2, <2>4
<1> HIDE DEF D, L
<1>7. Len(r.codes) \in Nat
  BY FrameFields
<1>8. /\ Len(C) = Len(r.codes) + n + 1 /\ C[Len(r.codes) + n + 1] = lib
      /\ \A i \in 1..(Len(r.codes) + n) : C[i] = D[i]
  <2>1. D \in Seq(Nat) /\ Len(D) = Len(r.codes) + n
    BY <1>2, <1>6
  <2> HIDE DEF n
  <2> QED
    BY <1>1, <1>7, <2>1, AppendProperties
<1> HIDE DEF C
<1>9. \A i \in 1..Len(r.codes) : i \in 1..(Len(r.codes) + n)
  BY <1>1, <1>7
<1>10. \A i \in 1..n : Len(r.codes) + i \in 1..(Len(r.codes) + n)
  BY <1>1, <1>7
<1> QED
  BY <1>1, <1>2, <1>3, <1>4, <1>5, <1>6, <1>8, <1>9, <1>10 DEF Merges, s, n
-----------------------------------------------------------------------------
(* The four shapes of a step.                                                *)

SameHandler(h, k) == k.node = h.node /\ k.frame_no = h.frame_no /\ k.pos = h.pos
Stands(i) == i \in 1..Len(open') /\ \A j \in 1..i : SameHandler(open[j], open'[j])

(* It declares, refers or looks up: no frame is pushed or popped.             *)
InPlace ==
  /\ Len(frame') = Len(frame) /\ frames' = frames
  /\ \A f \in 1..Len(frame) : Quiet(frame[f], frame'[f])
  /\ \A i \in 1..Len(open) : Stands(i) \/ open[i].node \notin FrameNodes
  /\ \A i \in 1..Len(open') :
       (i \in 1..Len(open) /\ Stands(i)) \/ open'[i].node \notin FrameNodes

(* Handler h pushes its frame; a sub leaves its placeholder in the top frame. *)
PushedBy(h) ==
  /\ h.node \in FrameNodes /\ h.frame_no = Len(frame) + 1 /\ (h.node = "use" => OpenUse)
  /\ h.node = "func" => h.pos = Len(frame[Top].codes) + 1
  /\ open' = Append(open, h) /\ frames' = Append(frames, Len(frame) + 1)
  /\ Len(frame') = Len(frame) + 1
  /\ \A f \in 1..Len(frame) :
       /\ Keeps(frame[f], frame'[f]) /\ frame'[f].exportables = frame[f].exportables
       /\ frame'[f].codes = IF h.node = "func" /\ f = Top THEN Append(frame[f].codes, 1)
                            ELSE frame[f].codes
       /\ h.node # "use" => frame'[f].frame_type = frame[f].frame_type
NewFrameOf(h, r) ==
  /\ r.outer = Top /\ r.node = h.node /\ r.codes = <<>> /\ r.exportables = <<>>
  /\ h.node # "use" => r.frame_type = "normal"
Pushes == \E h \in Handler : PushedBy(h) /\ NewFrameOf(h, frame'[Len(frame) + 1])

(* A handler pops its frame, and writes its number in the frame g below.      *)
Patches(g) ==
  /\ Current.node = "func"
  /\ frame'[g].codes = [frame[g].codes EXCEPT ![Current.pos] = Top]
Takes(g) ==
  /\ Current.node \in {"lambda", "block"}
  /\ frame'[g].codes = Append(frame[g].codes, Top)
Imports(g) ==
  /\ Current.node = "use"
  /\ Merges(frame[g], frame[Top].exportables, Top, frame'[g])
ClosesOver(g) ==
  /\ open # <<>> /\ Current.node \in FrameNodes
  /\ open' = Pop(open) /\ frames' = Pop(frames) /\ Len(frame') = Len(frame)
  /\ \A f \in 1..Len(frame) :
       /\ Keeps(frame[f], frame'[f]) /\ frame'[f].exportables = frame[f].exportables
       /\ frame'[f].frame_type = frame[f].frame_type
       /\ f # g => frame'[f].codes = frame[f].codes
  /\ Patches(g) \/ Takes(g) \/ Imports(g)
Closes == ClosesOver(Parent(Len(open)))

(* The climb of an exportable sub ends in frame g.                            *)
ExportsTo(g) ==
  /\ walk # Idle /\ walk.mode = "export" /\ StopsAt(g) /\ g \in 1..Len(frame)
  /\ Len(frame') = Len(frame) /\ frames' = frames /\ open' = open
  /\ \A f \in 1..Len(frame) :
       /\ Keeps(frame[f], frame'[f]) /\ frame'[f].codes = frame[f].codes
       /\ frame'[f].frame_type = frame[f].frame_type
       /\ f # g => frame'[f].exportables = frame[f].exportables
  /\ Prefix(frame[g].exportables, frame'[g].exportables)
  /\ Len(frame'[g].exportables) = Len(frame[g].exportables) + 1
  /\ frame'[g].exportables[Len(frame[g].exportables) + 1].name = walk.want
  /\ frame'[g].exportables[Len(frame[g].exportables) + 1].frame_no = walk.item
Exports == ExportsTo(walk.at)

Shaped == InPlace \/ Pushes \/ Closes \/ Exports

LEMMA HandlersUnchanged ==
  ASSUME open' = open
  PROVE  \A i \in 1..Len(open) : i \in 1..Len(open') /\ Stands(i)
BY DEF Stands, SameHandler

(* The handlers of a node that pushes no frame come and go.                   *)
LEMMA HandlerAdded ==
  ASSUME Inv, Inv', NEW h \in Handler, open' = Append(open, h)
  PROVE  /\ Len(open') = Len(open) + 1 /\ open'[Len(open) + 1] = h
         /\ \A i \in 1..Len(open) : i \in 1..Len(open') /\ Stands(i)
         /\ \A i \in 1..Len(open') : i \in 1..Len(open) \/ i = Len(open) + 1
<1>1. open \in Seq(Handler) /\ Len(open) \in Nat
  BY InvFacts DEF Inv, TypeOK
<1>2. /\ Len(open') = Len(open) + 1 /\ open'[Len(open) + 1] = h
      /\ \A i \in 1..Len(open) : open'[i] = open[i]
  BY <1>1, AppendProperties
<1>3. \A i \in 1..Len(open') : i \in 1..Len(open) \/ i = Len(open) + 1
  BY <1>1, <1>2
<1>4. \A i \in 1..Len(open) : i \in 1..Len(open') /\ \A j \in 1..i : j \in 1..Len(open)
  BY <1>1, <1>2
<1> QED
  BY <1>2, <1>3, <1>4 DEF Stands, SameHandler

LEMMA HandlerRemoved ==
  ASSUME Inv, open # <<>>, open' = Pop(open)
  PROVE  /\ Len(open') = Len(open) - 1 /\ Len(open) \in Nat \ {0}
         /\ \A i \in 1..Len(open) : i = Len(open) \/ (i \in 1..Len(open') /\ Stands(i))
         /\ \A i \in 1..Len(open') : i \in 1..Len(open) /\ Stands(i)
<1>1. open \in Seq(Handler)
  BY DEF Inv, TypeOK
<1>2. /\ Len(open') = Len(open) - 1 /\ Len(open) \in Nat \ {0}
      /\ \A i \in 1..(Len(open) - 1) : open'[i] = open[i]
  BY <1>1, PopProperties
<1>3. \A i \in 1..Len(open) : i = Len(open) \/ i \in 1..Len(open')
  BY <1>2
<1>4. \A i \in 1..Len(open') :
        i \in 1..Len(open) /\ \A j \in 1..i : j \in 1..(Len(open) - 1)
  BY <1>2
<1> QED
  BY <1>2, <1>3, <1>4 DEF Stands, SameHandler

(* A write of frame f that is quiet.                                         *)
LEMMA QuietWrite ==
  ASSUME Inv, NEW f \in 1..Len(frame), NEW s, Quiet(frame[f], s),
         frame' = [frame EXCEPT ![f] = s]
  PROVE  Len(frame') = Len(frame) /\ \A g \in 1..Len(frame) : Quiet(frame[g], frame'[g])
<1>1. frame \in Seq(KijiFrame) /\ \A g \in 1..Len(frame) : frame[g] \in KijiFrame
  BY InvFacts DEF Inv, TypeOK
<1>2. \A g \in 1..Len(frame) : Quiet(frame[g], frame[g])
  BY <1>1, QuietItself
<1>3. Len(frame') = Len(frame) /\ \A g \in 1..Len(frame) : frame'[g] = IF g = f THEN s ELSE frame[g]
  BY <1>1
<1> QED
  BY <1>2, <1>3

LEMMA QuietUnchanged ==
  ASSUME Inv, frame' = frame
  PROVE  Len(frame') = Len(frame) /\ \A g \in 1..Len(frame) : Quiet(frame[g], frame'[g])
BY InvFacts, QuietItself DEF Inv

LEMMA DeclareShape ==
  ASSUME Inv, Inv', Declare \/ \E id \in Ids : Parameter(id)
  PROVE  InPlace
<1>1. frame[Top] \in KijiFrame /\ Top \in 1..Len(frame)
  BY TopIsFrame
<1>2. ASSUME NEW id \in Ids, Our(id) \/ OpenBindOur(id)
      PROVE  Len(frame') = Len(frame) /\ \A g \in 1..Len(frame) : Quiet(frame[g], frame'[g])
  <2> DEFINE s == [frame[Top] EXCEPT !.package_variables = @ \cup {Var(id)}]
  <2>1. frame' = [frame EXCEPT ![Top] = s]
    BY <1>2 DEF Our, OpenBindOur
  <2>2. Quiet(frame[Top], s)
    BY <1>1, NameTypes, QuietWrites
  <2> HIDE DEF s
  <2> QED
    BY <1>1, <2>1, <2>2, QuietWrite
<1>3. ASSUME NEW id \in Ids, My(id) \/ OpenBindMy(id)
      PROVE  Len(frame') = Len(frame) /\ \A g \in 1..Len(frame) : Quiet(frame[g], frame'[g])
  <2> DEFINE s == [frame[Top] EXCEPT !.lexicals = Append(@, Var(id))]
  <2>1. frame' = [frame EXCEPT ![Top] = s]
    BY <1>3 DEF My, OpenBindMy
  <2>2. Quiet(frame[Top], s)
    BY <1>1, NameTypes, QuietWrites
  <2> HIDE DEF s
  <2> QED
    BY <1>1, <2>1, <2>2, QuietWrite
<1>4. ASSUME NEW n \in LexName, frame' = [frame EXCEPT ![Top] = Bind(@, n)]
      PROVE  Len(frame') = Len(frame) /\ \A g \in 1..Len(frame) : Quiet(frame[g], frame'[g])
  <2> DEFINE s == Bind(frame[Top], n)
  <2>1. frame' = [frame EXCEPT ![Top] = s]
    BY <1>4
  <2>2. Quiet(frame[Top], s)
    BY <1>1, QuietWrites
  <2> HIDE DEF s
  <2> QED
    BY <1>1, <2>1, <2>2, QuietWrite
<1>5. ASSUME NEW id \in Ids, DeclareBound(Var(id)) \/ DeclareBound(Bare(id)) \/ Parameter(id)
      PROVE  Len(frame') = Len(frame) /\ \A g \in 1..Len(frame) : Quiet(frame[g], frame'[g])
  BY <1>4, <1>5, NameTypes DEF DeclareBound, Parameter
<1>6. Len(frame') = Len(frame) /\ \A g \in 1..Len(frame) : Quiet(frame[g], frame'[g])
  BY <1>2, <1>3, <1>5 DEF Declare
<1>7. frames' = frames
  BY DEF Declare, Our, My, OpenBindMy, OpenBindOur, DeclareBound, Parameter
<1>8. ASSUME NEW node \in {"my", "our"}, NEW lex \in Nat, Suspend(node, Top, 0, 0, lex)
      PROVE  InPlace
  <2>1. TypeOK /\ Top \in Nat /\ node \in Nodes /\ node \notin FrameNodes
    BY <1>1, InvFacts DEF Inv, Nodes, FrameNodes
  <2>2. PICK h \in Handler : open' = Append(open, h) /\ h.node = node
    BY <1>8, <2>1, SuspendType
  <2>3. /\ open'[Len(open) + 1] = h
        /\ \A i \in 1..Len(open) : i \in 1..Len(open') /\ Stands(i)
        /\ \A i \in 1..Len(open') : i \in 1..Len(open) \/ i = Len(open) + 1
    BY <2>2, HandlerAdded
  <2> QED
    BY <1>6, <1>7, <2>1, <2>2, <2>3 DEF InPlace
<1>9. ASSUME open' = open PROVE InPlace
  BY <1>6, <1>7, <1>9, HandlersUnchanged DEF InPlace
<1>10. ASSUME NEW id \in Ids, Parameter(id) PROVE InPlace
  <2>1. open' = [open EXCEPT ![Len(open)].todo = @ - 1]
    BY <1>10 DEF Parameter
  <2>2. open \in Seq(Handler) /\ Len(open) \in Nat /\ \A i \in 1..Len(open) : open[i] \in Handler
    BY InvFacts DEF Inv, TypeOK
  <2>3. Len(open') = Len(open) /\ \A i \in 1..Len(open) : SameHandler(open[i], open'[i])
    <3> DEFINE h == [open[Len(open)] EXCEPT !.todo = @ - 1]
    <3>1. open' = [open EXCEPT ![Len(open)] = h]
      BY <2>1
    <3>2. ASSUME NEW i \in 1..Len(open), i = Len(open) PROVE SameHandler(open[i], h)
      BY <2>2, <3>2 DEF SameHandler, Handler
    <3> HIDE DEF h
    <3>3. Len(open') = Len(open) /\ \A i \in 1..Len(open) : open'[i] = IF i = Len(open) THEN h ELSE open[i]
      BY <2>2, <3>1
    <3>4. \A i \in 1..Len(open) : SameHandler(open[i], open[i])
      BY DEF SameHandler
    <3> QED
      BY <3>2, <3>3, <3>4
  <2>4. \A i \in 1..Len(open) : \A j \in 1..i : j \in 1..Len(open)
    BY <2>2
  <2>5. \A i \in 1..Len(open) : i \in 1..Len(open') /\ Stands(i)
    BY <2>3, <2>4 DEF Stands
  <2> QED
    BY <1>6, <1>7, <2>3, <2>5 DEF InPlace
<1>11. ASSUME NEW id \in Ids, OpenBindMy(id) PROVE InPlace
  <2>1. Len(frame[Top].lexicals) + 1 \in Nat
    BY <1>1, FrameFields
  <2> QED
    BY <1>8, <1>11, <2>1 DEF OpenBindMy
<1>12. ASSUME NEW id \in Ids, OpenBindOur(id) PROVE InPlace
  BY <1>8, <1>12 DEF OpenBindOur
<1> QED
  BY <1>9, <1>10, <1>11, <1>12 DEF Declare, Our, My, DeclareBound

LEMMA CloseBindShape ==
  ASSUME Inv, Inv', CloseBindMy \/ CloseBindOur
  PROVE  InPlace
<1>1. frame[Top] \in KijiFrame /\ Top \in 1..Len(frame)
  BY TopIsFrame
<1>2. Len(frame') = Len(frame) /\ \A g \in 1..Len(frame) : Quiet(frame[g], frame'[g])
  <2>1. CASE CloseBindMy
    <3> DEFINE q == Ref(Current.lex, 0, frame[Top].lexicals[Current.lex])
               s == [frame[Top] EXCEPT !.refs = @ \cup {q}]
    <3>1. frame' = [frame EXCEPT ![Top] = s]
      BY <1>1, <2>1 DEF CloseBindMy, EmitRef
    <3> HIDE DEF q
    <3>2. Quiet(frame[Top], s)
      BY <1>1, PackageType, QuietWrites
    <3> HIDE DEF s
    <3> QED
      BY <1>1, <3>1, <3>2, QuietWrite
  <2>2. CASE CloseBindOur
    BY <2>2, QuietUnchanged DEF CloseBindOur
  <2> QED
    BY <2>1, <2>2
<1>3. /\ frames' = frames /\ open # <<>> /\ open' = Pop(open)
      /\ Current.node \in {"my", "our"}
  BY DEF CloseBindMy, CloseBindOur
<1>4. open[Len(open)].node \notin FrameNodes
  BY <1>3 DEF Current, FrameNodes
<1>5. /\ \A i \in 1..Len(open) : i = Len(open) \/ (i \in 1..Len(open') /\ Stands(i))
      /\ \A i \in 1..Len(open') : i \in 1..Len(open) /\ Stands(i)
  BY <1>3, HandlerRemoved
<1> QED
  BY <1>2, <1>3, <1>4, <1>5 DEF InPlace

LEMMA LookupShape ==
  ASSUME Inv, Inv', FoundLexical
  PROVE  InPlace
<1>1. frame[Top] \in KijiFrame /\ Top \in 1..Len(frame)
  BY TopIsFrame
<1> DEFINE q == Ref(LexNo(walk.at, walk.want), walk.outer, walk.want)
           s == [frame[Top] EXCEPT !.refs = @ \cup {q}]
<1>2. frame' = [frame EXCEPT ![Top] = s]
  BY <1>1 DEF FoundLexical, EmitRef
<1> HIDE DEF q
<1>3. Quiet(frame[Top], s)
  BY <1>1, PackageType, QuietWrites
<1> HIDE DEF s
<1>4. Len(frame') = Len(frame) /\ \A g \in 1..Len(frame) : Quiet(frame[g], frame'[g])
  BY <1>1, <1>2, <1>3, QuietWrite
<1>5. frames' = frames /\ open' = open
  BY DEF FoundLexical
<1> QED
  BY <1>4, <1>5, HandlersUnchanged DEF InPlace

LEMMA StillShape ==
  ASSUME Inv, UNCHANGED <<frame, frames, open>>
  PROVE  InPlace
BY QuietUnchanged, HandlersUnchanged DEF InPlace
-----------------------------------------------------------------------------
(* The actions that push a frame.                                           *)

LEMMA FreshFrame ==
  ASSUME NEW node \in FrameNodes, NEW h \in Handler, h.node = node, Inv
  PROVE  NewFrame(node, Top) \in KijiFrame /\ NewFrameOf(h, NewFrame(node, Top))
<1>1. Top \in Nat
  BY TopIsFrame, InvFacts DEF Inv
<1>2. NewFrame(node, Top) \in KijiFrame
  BY <1>1, NewFrameType
<1>3. NewFrameOf(h, NewFrame(node, Top))
  BY DEF NewFrame, NewFrameOf
<1> QED
  BY <1>2, <1>3

LEMMA OpenFuncShape ==
  ASSUME Inv, NEW id \in Ids, NEW exportable, NEW params \in 0..MaxParams,
         OpenFunc(id, exportable, params)
  PROVE  Pushes
<1>1. /\ frame[Top] \in KijiFrame /\ Top \in 1..Len(frame)
      /\ frame \in Seq(KijiFrame) /\ Len(frame) \in Nat /\ TypeOK
      /\ \A f \in 1..Len(frame) : frame[f] \in KijiFrame
  BY TopIsFrame, InvFacts DEF Inv, TypeOK
<1> DEFINE p  == Len(frame[Top].codes) + 1
           C  == Append(frame[Top].codes, 1)
           b  == Bind(frame[Top], Amp(id))
           s  == GetCode(b, 1)
           fs == [frame EXCEPT ![Top] = s]
           new == NewFrame("func", Top)
<1>2. PICK h \in Handler :
        /\ open' = Append(open, h) /\ h.node = "func" /\ h.frame_no = Len(frame) + 1
        /\ h.pos = p
  <2>1. /\ "func" \in Nodes /\ Len(frame) + 1 \in Nat /\ params \in Nat /\ 0 \in Nat
    BY <1>1, BoundsAssumption DEF Nodes, FrameNodes
  <2>2. Suspend("func", Len(frame) + 1, p, params, 0)
    BY DEF OpenFunc
  <2>3. p \in Nat
    BY <1>1, FrameFields
  <2> HIDE DEF p
  <2> QED
    BY <1>1, <2>1, <2>2, <2>3, SuspendType
<1>3. new \in KijiFrame /\ NewFrameOf(h, new)
  BY <1>2, FreshFrame DEF FrameNodes
<1>4. frame' = Append(fs, new) /\ frames' = Append(frames, Len(frame) + 1)
  BY DEF OpenFunc, PushFrame
<1> HIDE DEF new
<1>5. b \in KijiFrame /\ Quiet(frame[Top], b)
  BY <1>1, NameTypes, BindType, QuietWrites
<1> HIDE DEF b
<1>6. /\ s \in KijiFrame /\ Keeps(b, s) /\ s.codes = C /\ s.exportables = b.exportables
      /\ s.frame_type = b.frame_type
  <2>1. /\ s \in KijiFrame
    BY <1>5, GetCodeType
  <2>2. C \in Seq(Nat)
    BY <1>1, FrameFields, AppendProperties
  <2>3. s = [b EXCEPT !.codes = C]
    BY <1>5 DEF GetCode, Quiet, Meek
  <2> HIDE DEF s, C
  <2> QED
    BY <1>5, <2>1, <2>2, <2>3, CodeWrites
<1> HIDE DEF s
<1>7. /\ Keeps(frame[Top], s) /\ s.exportables = frame[Top].exportables
      /\ s.frame_type = frame[Top].frame_type
  <2>1. /\ Len(frame[Top].lexicals) \in Nat /\ Len(b.lexicals) \in Nat /\ Len(s.lexicals) \in Nat
    BY <1>1, <1>5, <1>6, FrameFields
  <2>2. Keeps(frame[Top], b) /\ Keeps(b, s)
    BY <1>5, <1>6 DEF Quiet, Meek
  <2>3. Keeps(frame[Top], s)
    BY <2>1, <2>2 DEF Keeps
  <2> QED
    BY <1>5, <1>6, <2>3 DEF Quiet, Meek
<1>8. /\ fs \in Seq(KijiFrame) /\ Len(fs) = Len(frame)
      /\ \A f \in 1..Len(frame) : fs[f] = IF f = Top THEN s ELSE frame[f]
  BY <1>1, <1>6
<1> HIDE DEF fs
<1>9. /\ Len(frame') = Len(frame) + 1 /\ frame'[Len(frame) + 1] = new
      /\ \A f \in 1..Len(frame) : frame'[f] = fs[f]
  BY <1>3, <1>4, <1>8, AppendProperties
<1>10. \A f \in 1..Len(frame) : Quiet(frame[f], frame[f])
  BY <1>1, QuietItself
<1>11. \A f \in 1..Len(frame) :
         /\ Keeps(frame[f], frame'[f]) /\ frame'[f].exportables = frame[f].exportables
         /\ frame'[f].codes = IF h.node = "func" /\ f = Top THEN Append(frame[f].codes, 1)
                              ELSE frame[f].codes
         /\ frame'[f].frame_type = frame[f].frame_type
  BY <1>2, <1>6, <1>7, <1>8, <1>9, <1>10 DEF Quiet, Meek
<1>12. PushedBy(h)
  BY <1>2, <1>4, <1>9, <1>11 DEF PushedBy, FrameNodes
<1> QED
  BY <1>3, <1>9, <1>12 DEF Pushes

LEMMA OpenScopeShape ==
  ASSUME Inv, NEW node \in {"lambda", "block"}, NEW params \in Nat, OpenScope(node, params)
  PROVE  Pushes
<1>1. /\ Top \in 1..Len(frame) /\ frame \in Seq(KijiFrame) /\ Len(frame) \in Nat /\ TypeOK
      /\ \A f \in 1..Len(frame) : frame[f] \in KijiFrame
  BY TopIsFrame, InvFacts DEF Inv, TypeOK
<1> DEFINE new == NewFrame(node, Top)
<1>2. PICK h \in Handler :
        /\ open' = Append(open, h) /\ h.node = node /\ h.frame_no = Len(frame) + 1
  <2>1. node \in Nodes /\ Len(frame) + 1 \in Nat /\ 0 \in Nat
    BY <1>1 DEF Nodes, FrameNodes
  <2>2. Suspend(node, Len(frame) + 1, 0, params, 0)
    BY DEF OpenScope
  <2> QED
    BY <1>1, <2>1, <2>2, SuspendType
<1>3. h.node \in FrameNodes /\ h.node # "func"
  BY <1>2 DEF FrameNodes
<1>4. new \in KijiFrame /\ NewFrameOf(h, new)
  BY <1>2, <1>3, FreshFrame
<1>5. frame' = Append(frame, new) /\ frames' = Append(frames, Len(frame) + 1)
  BY DEF OpenScope, PushFrame
<1> HIDE DEF new
<1>6. /\ Len(frame') = Len(frame) + 1 /\ frame'[Len(frame) + 1] = new
      /\ \A f \in 1..Len(frame) : frame'[f] = frame[f]
  BY <1>1, <1>4, <1>5, AppendProperties
<1>7. \A f \in 1..Len(frame) : Quiet(frame[f], frame'[f])
  BY <1>1, <1>6, QuietItself
<1>8. PushedBy(h)
  BY <1>2, <1>3, <1>5, <1>6, <1>7 DEF PushedBy, Quiet, Meek
<1> QED
  BY <1>4, <1>6, <1>8 DEF Pushes

LEMMA OpenUseShape ==
  ASSUME Inv, OpenUse
  PROVE  Pushes
<1> DEFINE new == NewFrame("use", Top)
           fs  == Append(frame, new)
           no  == Len(frame) + 1
<1>1. /\ frame \in Seq(KijiFrame) /\ Len(frame) \in Nat /\ Top \in Nat /\ TypeOK
      /\ \A f \in 1..Len(frame) : frame[f] \in KijiFrame
  BY TopIsFrame, InvFacts DEF Inv, TypeOK
<1>2. PICK h \in Handler :
        /\ open' = Append(open, h) /\ h.node = "use" /\ h.frame_no = no
  <2>1. "use" \in Nodes /\ no \in Nat /\ 0 \in Nat
    BY <1>1 DEF Nodes, FrameNodes
  <2>2. Suspend("use", no, 0, 0, 0)
    BY DEF OpenUse
  <2> HIDE DEF no
  <2> QED
    BY <1>1, <2>1, <2>2, SuspendType
<1>3. new \in KijiFrame /\ NewFrameOf(h, new)
  BY <1>2, FreshFrame DEF FrameNodes
<1>4. /\ frame' = fs \/ \E g : frame' = [fs EXCEPT ![g].frame_type = "use"]
      /\ frames' = Append(frames, no)
  BY DEF OpenUse, new
<1> HIDE DEF new
<1>5. /\ fs \in Seq(KijiFrame) /\ Len(fs) = no /\ fs[no] = new
      /\ \A f \in 1..Len(frame) : fs[f] = frame[f]
  BY <1>1, <1>3, AppendProperties
<1> HIDE DEF fs
<1>6. \A f \in 1..no : fs[f] \in KijiFrame
  BY <1>5, ElementOfSeq
<1>7. Len(frame') = no /\ \A f \in 1..no : Meek(fs[f], frame'[f])
  <2>1. CASE frame' = fs
    BY <1>5, <1>6, <2>1, QuietItself DEF Quiet
  <2>2. ASSUME NEW g, frame' = [fs EXCEPT ![g].frame_type = "use"]
        PROVE  Len(frame') = no /\ \A f \in 1..no : Meek(fs[f], frame'[f])
    <3> DEFINE mark(r) == [r EXCEPT !.frame_type = "use"]
    <3>1. frame' = [fs EXCEPT ![g] = mark(fs[g])]
      BY <2>2
    <3>2. \A r \in KijiFrame : Meek(r, mark(r)) /\ Meek(r, r)
      <4>1. ASSUME NEW r \in KijiFrame PROVE Meek(r, mark(r)) /\ Meek(r, r)
        <5>1. Meek(r, [r EXCEPT !.frame_type = "use"])
          BY PackageType, QuietWrites
        <5> QED
          BY <5>1, QuietItself DEF Quiet
      <4> HIDE DEF mark
      <4> QED
        BY <4>1
    <3> HIDE DEF mark
    <3>3. Len(frame') = Len(fs) /\ \A f \in 1..Len(fs) : frame'[f] = IF f = g THEN mark(fs[f]) ELSE fs[f]
      BY <1>5, <3>1
    <3> QED
      BY <1>5, <1>6, <3>2, <3>3
  <2> QED
    BY <1>4, <2>1, <2>2
<1>8. no \in 1..no /\ \A f \in 1..Len(frame) : f \in 1..no
  BY <1>1
<1>9. NewFrameOf(h, frame'[no])
  <2>1. Meek(new, frame'[no])
    BY <1>5, <1>7, <1>8
  <2> QED
    BY <1>2, <1>3, <2>1 DEF Meek, Keeps, NewFrameOf
<1>10. \A f \in 1..Len(frame) : Meek(frame[f], frame'[f])
  BY <1>5, <1>7, <1>8
<1>11. PushedBy(h)
  BY <1>2, <1>4, <1>7, <1>10 DEF PushedBy, FrameNodes, Meek
<1> QED
  BY <1>9, <1>11 DEF Pushes
-----------------------------------------------------------------------------
(* The actions that close one, and the one that exports.                     *)

Wrote(g, s) ==
  /\ open # <<>> /\ Current.node \in FrameNodes
  /\ open' = Pop(open) /\ frames' = Pop(frames) /\ Len(frame') = Len(frame)
  /\ frame'[g] = s
  /\ \A f \in 1..Len(frame) :
       /\ Keeps(frame[f], frame'[f]) /\ frame'[f].exportables = frame[f].exportables
       /\ frame'[f].frame_type = frame[f].frame_type
       /\ f # g => frame'[f].codes = frame[f].codes

LEMMA CloseWrite ==
  ASSUME Inv, NEW node \in FrameNodes, Closing(node), NEW g, g = Parent(Len(open)),
         NEW s, Keeps(frame[g], s), s.exportables = frame[g].exportables,
         s.frame_type = frame[g].frame_type,
         frame' = [frame EXCEPT ![g] = s]
  PROVE  Wrote(g, s)
<1>1. frame \in Seq(KijiFrame) /\ \A f \in 1..Len(frame) : frame[f] \in KijiFrame
  BY InvFacts DEF Inv, TypeOK
<1>2. g \in 1..Len(frame)
  BY ClosingFacts
<1>3. \A f \in 1..Len(frame) : Quiet(frame[f], frame[f])
  BY <1>1, QuietItself
<1>4. Len(frame') = Len(frame) /\ \A f \in 1..Len(frame) : frame'[f] = IF f = g THEN s ELSE frame[f]
  BY <1>1
<1>5. /\ open # <<>> /\ Current.node \in FrameNodes
      /\ open' = Pop(open) /\ frames' = Pop(frames)
  BY DEF Closing
<1> QED
  BY <1>2, <1>3, <1>4, <1>5 DEF Quiet, Meek, Wrote

LEMMA CloseShape ==
  ASSUME Inv, CloseFunc \/ CloseUse \/ CloseScope("lambda") \/ CloseScope("block")
  PROVE  Closes
<1> DEFINE g == Pop(frames)[Len(frames) - 1]
<1>1. ASSUME NEW node \in FrameNodes, Closing(node)
      PROVE  /\ g \in 1..Len(frame) /\ frame[g] \in KijiFrame /\ g = Parent(Len(open))
             /\ Current.node = node /\ Current.frame_no = Top /\ Top \in Nat
             /\ node = "func" => Current.pos \in 1..Len(frame[g].codes)
  <2>1. Current.node = node
    BY <1>1 DEF Closing
  <2> QED
    BY <1>1, <2>1, ClosingFacts DEF Inv
<1> HIDE DEF g
<1>2. CASE CloseFunc
  <2> DEFINE C == [frame[g].codes EXCEPT ![Current.pos] = Top]
             s == [frame[g] EXCEPT !.codes = C]
  <2>1. Closing("func") /\ "func" \in FrameNodes
    BY <1>2 DEF CloseFunc, FrameNodes
  <2>2. /\ g \in 1..Len(frame) /\ frame[g] \in KijiFrame /\ g = Parent(Len(open))
        /\ Current.node = "func" /\ Current.frame_no = Top /\ Top \in Nat
    BY <1>1, <2>1
  <2>3. frame' = [frame EXCEPT ![g] = s]
    BY <1>2, <2>2 DEF CloseFunc, g
  <2>4. C \in Seq(Nat)
    <3>1. frame[g].codes \in Seq(Nat)
      BY <2>2, FrameFields
    <3>2. Current.pos \in 1..Len(frame[g].codes)
      BY <1>1, <2>1
    <3> QED
      BY <2>2, <3>1, <3>2, ExceptSeq
  <2> HIDE DEF C
  <2>5. /\ Keeps(frame[g], s) /\ s.codes = C /\ s.exportables = frame[g].exportables
        /\ s.frame_type = frame[g].frame_type
    BY <2>2, <2>4, CodeWrites
  <2> HIDE DEF s
  <2>6. Wrote(g, s)
    BY <2>1, <2>2, <2>3, <2>5, CloseWrite
  <2>7. Patches(g)
    BY <2>2, <2>5, <2>6 DEF Patches, Wrote, C
  <2> QED
    BY <2>2, <2>6, <2>7 DEF Closes, ClosesOver, Wrote
<1>3. ASSUME NEW node \in {"lambda", "block"}, CloseScope(node) PROVE Closes
  <2> DEFINE C == Append(frame[g].codes, Top)
             s == [frame[g] EXCEPT !.codes = C]
  <2>1. Closing(node) /\ node \in FrameNodes
    BY <1>3 DEF CloseScope, FrameNodes
  <2>2. /\ g \in 1..Len(frame) /\ frame[g] \in KijiFrame /\ g = Parent(Len(open))
        /\ Current.node = node /\ Current.frame_no = Top /\ Top \in Nat
    BY <1>1, <2>1
  <2>3. frame' = [frame EXCEPT ![g] = s]
    BY <1>3, <2>2 DEF CloseScope, GetCode, g
  <2>4. C \in Seq(Nat)
    BY <2>2, FrameFields, AppendProperties
  <2> HIDE DEF C
  <2>5. /\ Keeps(frame[g], s) /\ s.codes = C /\ s.exportables = frame[g].exportables
        /\ s.frame_type = frame[g].frame_type
    BY <2>2, <2>4, CodeWrites
  <2> HIDE DEF s
  <2>6. Wrote(g, s)
    BY <2>1, <2>2, <2>3, <2>5, CloseWrite
  <2>7. Takes(g)
    BY <2>2, <2>5, <2>6 DEF Takes, Wrote, C
  <2> QED
    BY <2>2, <2>6, <2>7 DEF Closes, ClosesOver, Wrote
<1>4. CASE CloseUse
  <2> DEFINE exports == frame[Top].exportables
             s == Import(frame[g], exports, Top)
  <2>1. Closing("use") /\ "use" \in FrameNodes
    BY <1>4 DEF CloseUse, FrameNodes
  <2>2. /\ g \in 1..Len(frame) /\ frame[g] \in KijiFrame /\ g = Parent(Len(open))
        /\ Current.node = "use" /\ Current.frame_no = Top /\ Top \in Nat
    BY <1>1, <2>1
  <2>3. frame' = [frame EXCEPT ![g] = s]
    BY <1>4, <2>2 DEF CloseUse, g
  <2>4. exports \in Seq([name : LexName, frame_no : Nat])
    BY TopIsFrame, FrameFields
  <2> HIDE DEF exports
  <2>5. /\ Keeps(frame[g], s) /\ s.exportables = frame[g].exportables
        /\ s.frame_type = frame[g].frame_type
        /\ Merges(frame[g], exports, Top, s)
    BY <2>2, <2>4, ImportWrite
  <2> HIDE DEF s
  <2>6. Wrote(g, s)
    BY <2>1, <2>2, <2>3, <2>5, CloseWrite
  <2>7. Imports(g)
    BY <2>2, <2>5, <2>6 DEF Imports, Wrote, exports
  <2> QED
    BY <2>2, <2>6, <2>7 DEF Closes, ClosesOver, Wrote
<1> QED
  BY <1>2, <1>3, <1>4

LEMMA ExportShape ==
  ASSUME Inv, AddExportable
  PROVE  Exports
<1> DEFINE e == [name |-> walk.want, frame_no |-> walk.item]
<1> PICK g : g = walk.at
  OBVIOUS
<1>1. /\ walk # Idle /\ walk.mode = "export" /\ StopsAt(g) /\ frames' = frames /\ open' = open
      /\ frame' = [frame EXCEPT ![g].exportables = Append(@, e)]
  BY DEF AddExportable, Exporting
<1>2. g \in 1..Len(frame) /\ walk.want \in LexName /\ walk.item \in Nat
  BY <1>1, WalkFacts DEF Inv, WalkFits
<1>3. e \in [name : LexName, frame_no : Nat] /\ e.name = walk.want /\ e.frame_no = walk.item
  BY <1>2
<1> HIDE DEF e
<1>4. frame \in Seq(KijiFrame) /\ \A f \in 1..Len(frame) : frame[f] \in KijiFrame
  BY InvFacts DEF Inv, TypeOK
<1> DEFINE s == [frame[g] EXCEPT !.exportables = Append(@, e)]
<1>5. frame' = [frame EXCEPT ![g] = s]
  BY <1>1
<1>6. /\ Keeps(frame[g], s) /\ s.codes = frame[g].codes /\ s.frame_type = frame[g].frame_type
      /\ Prefix(frame[g].exportables, s.exportables)
      /\ Len(s.exportables) = Len(frame[g].exportables) + 1
      /\ s.exportables[Len(frame[g].exportables) + 1] = e
  BY <1>2, <1>3, <1>4, ExportWrite
<1> HIDE DEF s
<1>7. Len(frame') = Len(frame) /\ \A f \in 1..Len(frame) : frame'[f] = IF f = g THEN s ELSE frame[f]
  BY <1>4, <1>5
<1>8. \A f \in 1..Len(frame) : Quiet(frame[f], frame[f])
  BY <1>4, QuietItself
<1>9. \A f \in 1..Len(frame) :
        /\ Keeps(frame[f], frame'[f]) /\ frame'[f].codes = frame[f].codes
        /\ frame'[f].frame_type = frame[f].frame_type
        /\ f # g => frame'[f].exportables = frame[f].exportables
  BY <1>6, <1>7, <1>8 DEF Quiet, Meek
<1>10. frame'[g] = s
  BY <1>2, <1>7
<1> QED
  BY <1>1, <1>2, <1>3, <1>6, <1>7, <1>9, <1>10 DEF Exports, ExportsTo

LEMMA NextShapes ==
  ASSUME Inv, Inv', [Next]_vars
  PROVE  Shaped
<1>1. ASSUME Declare \/ \E id \in Ids : Parameter(id) PROVE InPlace
  BY <1>1, DeclareShape
<1>2. ASSUME Open PROVE Pushes
  <2>1. ASSUME NEW id \in Ids, NEW e \in BOOLEAN, NEW n \in 0..MaxParams, OpenFunc(id, e, n)
        PROVE  Pushes
    BY <2>1, OpenFuncShape
  <2>2. \A n \in 0..MaxParams : n \in Nat
    BY BoundsAssumption
  <2>3. ASSUME NEW node \in {"lambda", "block"}, NEW n \in Nat, OpenScope(node, n) PROVE Pushes
    BY <2>3, OpenScopeShape
  <2> QED
    BY <1>2, <2>1, <2>2, <2>3, OpenUseShape DEF Open
<1>3. ASSUME Close PROVE InPlace \/ Closes
  BY <1>3, CloseBindShape, CloseShape DEF Close
<1>4. ASSUME WalkStep PROVE InPlace \/ Exports
  <2>1. ASSUME FoundPackageVariable \/ WalkOuter \/ NotFound \/ WalkToLibrary PROVE InPlace
    BY <2>1, StillShape DEF FoundPackageVariable, WalkOuter, NotFound, WalkToLibrary
  <2> QED
    BY <1>4, <2>1, LookupShape, ExportShape DEF WalkStep
<1>5. ASSUME Refer \/ Finish \/ Terminated \/ UNCHANGED vars PROVE InPlace
  BY <1>5, StillShape DEF Refer, UseVariable, CallSub, UseIdent, Finish, Terminated, vars
<1> QED
  BY <1>1, <1>2, <1>3, <1>4, <1>5 DEF Next, Shaped
-----------------------------------------------------------------------------
(* The operands of GETCODE.  The handler on the C stack and the frame it      *)
(* pushed are of one kind; each entry of codes is the placeholder of a sub    *)
(* being compiled, a frame nested directly in the frame that holds it, or one *)
(* a library exports; and a frame is named where it was closed.              *)

KindsMatch ==
  \A i \in 1..Len(open) :
    open[i].node \in FrameNodes => frame[open[i].frame_no].node = open[i].node
Nested(g, c) == c \in 1..Len(frame) /\ frame[c].outer = g
Names(g, i)  ==
  \/ Placeholder(g, i)
  \/ Nested(g, frame[g].codes[i])
  \/ ImportedInto(g, frame[g].codes[i])
EntriesName ==
  \A g \in 1..Len(frame) : \A i \in 1..Len(frame[g].codes) : Names(g, i)
Coded(f) ==
  /\ frame[f].outer \in 1..Len(frame)
  /\ \E i \in 1..Len(frame[frame[f].outer].codes) : frame[frame[f].outer].codes[i] = f
ClosedAreCoded == \A f \in 1..Len(frame) : OnStack(f) \/ Coded(f)
Codes == KindsMatch /\ EntriesName /\ ClosedAreCoded

FramesGrow ==
  /\ Len(frame) <= Len(frame')
  /\ \A f \in 1..Len(frame) : Grown(frame[f], frame'[f])

LEMMA ShapedGrows ==
  ASSUME Inv, Inv', Shaped
  PROVE  FramesGrow
<1>1. Len(frame) \in Nat /\ \A f \in 1..Len(frame) : frame[f] \in KijiFrame
  BY InvFacts DEF Inv
<1>2. \A f \in 1..Len(frame) : Quiet(frame[f], frame[f]) /\ Grown(frame[f], frame[f])
  BY <1>1, QuietItself, QuietGrown
<1>3. \A f \in 1..Len(frame) : Prefix(frame[f].exportables, frame[f].exportables)
  BY <1>2 DEF Grown
<1>4. CASE InPlace
  BY <1>1, <1>4, QuietGrown DEF InPlace, FramesGrow
<1>5. CASE Pushes
  BY <1>1, <1>3, <1>5 DEF Pushes, PushedBy, FramesGrow, Grown
<1>6. CASE Closes
  BY <1>1, <1>3, <1>6 DEF Closes, ClosesOver, FramesGrow, Grown
<1>7. CASE Exports
  <2>1. PICK g : ExportsTo(g)
    BY <1>7 DEF Exports
  <2>2. \A f \in 1..Len(frame) : Prefix(frame[f].exportables, frame'[f].exportables)
    BY <1>3, <2>1 DEF ExportsTo
  <2> QED
    BY <1>1, <2>1, <2>2 DEF ExportsTo, FramesGrow, Grown
<1> QED
  BY <1>4, <1>5, <1>6, <1>7 DEF Shaped

LEMMA ImportedStays ==
  ASSUME Inv, Inv', FramesGrow, NEW g, NEW c, ImportedInto(g, c)
  PROVE  ImportedInto(g, c)'
<1>1. Len(frame) \in Nat /\ Len(frame') \in Nat /\ DOMAIN frame = 1..Len(frame)
      /\ DOMAIN frame' = 1..Len(frame') /\ Len(frame) <= Len(frame')
  BY LenProperties DEF Inv, TypeOK, FramesGrow
<1>2. PICK u \in 1..Len(frame) :
        /\ frame[u].node = "use" /\ frame[u].outer = g
        /\ \E i \in DOMAIN frame[u].exportables : frame[u].exportables[i].frame_no = c
  BY <1>1 DEF ImportedInto
<1>3. u \in 1..Len(frame')
  BY <1>1
<1>4. frame[u] \in KijiFrame /\ frame'[u] \in KijiFrame
  BY <1>3, ElementOfSeq DEF Inv, TypeOK
<1>5. Grown(frame[u], frame'[u])
  BY DEF FramesGrow
<1>6. /\ DOMAIN frame[u].exportables = 1..Len(frame[u].exportables)
      /\ DOMAIN frame'[u].exportables = 1..Len(frame'[u].exportables)
      /\ Len(frame[u].exportables) \in Nat /\ Len(frame'[u].exportables) \in Nat
  BY <1>4, FrameFields, LenProperties
<1>7. \E i \in DOMAIN frame'[u].exportables : frame'[u].exportables[i].frame_no = c
  BY <1>2, <1>5, <1>6 DEF Grown, Prefix
<1>8. frame'[u].node = "use" /\ frame'[u].outer = g
  BY <1>2, <1>5 DEF Grown, Keeps
<1> QED
  BY <1>1, <1>3, <1>7, <1>8 DEF ImportedInto

LEMMA NestedStays ==
  ASSUME Inv, FramesGrow, Inv', NEW g, NEW c, Nested(g, c)
  PROVE  Nested(g, c)'
<1>1. Len(frame) \in Nat /\ Len(frame') \in Nat
  BY LenProperties DEF Inv, TypeOK
<1>2. c \in 1..Len(frame) /\ c \in 1..Len(frame')
  BY <1>1 DEF Nested, FramesGrow
<1> QED
  BY <1>2 DEF Nested, FramesGrow, Grown, Keeps

(* An entry that is not written, whose placeholder stays one.                *)
Persists(g, i) ==
  /\ g \in 1..Len(frame) /\ i \in 1..Len(frame[g].codes)
  /\ frame'[g].codes[i] = frame[g].codes[i]
  /\ Placeholder(g, i) => Placeholder(g, i)'

LEMMA StepEntries ==
  ASSUME Inv, Inv', EntriesName, FramesGrow,
         \A g \in 1..Len(frame') : \A i \in 1..Len(frame'[g].codes) :
           Names(g, i)' \/ Persists(g, i)
  PROVE  EntriesName'
<1>1. ASSUME NEW g, NEW i, Persists(g, i) PROVE Names(g, i)'
  <2>1. Names(g, i)
    BY <1>1 DEF Persists, EntriesName
  <2>2. frame'[g].codes[i] = frame[g].codes[i]
    BY <1>1 DEF Persists
  <2>3. CASE Placeholder(g, i)
    BY <1>1, <2>3 DEF Persists, Names
  <2>4. CASE Nested(g, frame[g].codes[i])
    <3>1. Nested(g, frame[g].codes[i])'
      <4> PICK c : c = frame[g].codes[i]
        OBVIOUS
      <4>1. Nested(g, c)'
        BY <2>4, NestedStays
      <4> QED
        BY <2>2, <4>1 DEF Nested
    <3> QED
      BY <3>1 DEF Names
  <2>5. CASE ImportedInto(g, frame[g].codes[i])
    <3>1. ImportedInto(g, frame[g].codes[i])'
      <4> PICK c : c = frame[g].codes[i]
        OBVIOUS
      <4>1. ImportedInto(g, c)'
        BY <2>5, ImportedStays
      <4> QED
        BY <2>2, <4>1 DEF ImportedInto
    <3> QED
      BY <3>1 DEF Names
  <2> QED
    BY <2>1, <2>3, <2>4, <2>5 DEF Names
<1> QED
  BY <1>1 DEF EntriesName

(* The placeholder of a handler that stands.                                 *)
LEMMA PlaceholderStands ==
  ASSUME Inv, Inv', NEW g, NEW i, NEW h \in 1..Len(open), Stands(h),
         open[h].node = "func", Parent(h) = g, open[h].pos = i
  PROVE  Placeholder(g, i)'
<1>1. Len(open) \in Nat /\ DOMAIN open' = 1..Len(open')
  BY LenProperties DEF Inv, TypeOK
<1>2. h \in 1..Len(open') /\ SameHandler(open[h], open'[h])
  BY <1>1 DEF Stands
<1>3. Parent(h)' = g
  <2>1. CASE h = 1
    BY <2>1 DEF Parent
  <2>2. CASE h # 1
    <3>1. h - 1 \in 1..h
      BY <1>1, <2>2
    <3>2. open'[h - 1].frame_no = open[h - 1].frame_no
      BY <3>1 DEF Stands, SameHandler
    <3> QED
      BY <2>2, <3>2 DEF Parent
  <2> QED
    BY <2>1, <2>2
<1>4. open'[h].node = "func" /\ open'[h].pos = i
  BY <1>2 DEF SameHandler
<1> QED
  BY <1>1, <1>2, <1>3, <1>4 DEF Placeholder

LEMMA PlaceholdersStay ==
  ASSUME Inv, Inv', \A h \in 1..Len(open) : Stands(h) \/ open[h].node \notin FrameNodes,
         NEW g, NEW i, Placeholder(g, i)
  PROVE  Placeholder(g, i)'
<1>1. DOMAIN open = 1..Len(open)
  BY LenProperties DEF Inv, TypeOK
<1>2. PICK h \in 1..Len(open) : open[h].node = "func" /\ Parent(h) = g /\ open[h].pos = i
  BY <1>1 DEF Placeholder
<1>3. Stands(h)
  BY <1>2 DEF FrameNodes
<1> QED
  BY <1>2, <1>3, PlaceholderStands

(* A frame that was named is still named where no entry but a placeholder     *)
(* has changed: no closed frame has the number 1 a placeholder holds.         *)
CodesStay ==
  \A g \in 1..Len(frame) : \A i \in 1..Len(frame[g].codes) :
    /\ i \in 1..Len(frame'[g].codes)
    /\ frame'[g].codes[i] = frame[g].codes[i] \/ frame[g].codes[i] = 1

LEMMA StepCoded ==
  ASSUME Inv, Inv', ClosedAreCoded, FramesGrow, CodesStay,
         \A f \in 1..Len(frame') :
           OnStack(f)' \/ Coded(f)' \/ (f \in 1..Len(frame) /\ ~ OnStack(f))
  PROVE  ClosedAreCoded'
<1>1. ASSUME NEW f \in 1..Len(frame), ~ OnStack(f) PROVE Coded(f)'
  <2>1. f # 1
    <3>1. frames[1] = 1 /\ 1 \in DOMAIN frames
      BY InvFacts, LenProperties DEF Inv, TypeOK, Shape, ScopesNest
    <3> QED
      BY <1>1, <3>1 DEF OnStack
  <2> PICK g : g = frame[f].outer
    OBVIOUS
  <2>2. PICK i \in 1..Len(frame[g].codes) : frame[g].codes[i] = f
    BY <1>1 DEF ClosedAreCoded, Coded
  <2>3. g \in 1..Len(frame)
    BY <1>1 DEF ClosedAreCoded, Coded
  <2>4. i \in 1..Len(frame'[g].codes) /\ frame'[g].codes[i] = f
    BY <2>1, <2>2, <2>3 DEF CodesStay
  <2>5. frame'[f].outer = g
    BY DEF FramesGrow, Grown, Keeps
  <2>6. g \in 1..Len(frame')
    <3>1. Len(frame) \in Nat /\ Len(frame') \in Nat
      BY LenProperties DEF Inv, TypeOK
    <3> QED
      BY <2>3, <3>1 DEF FramesGrow
  <2> QED
    BY <2>4, <2>5, <2>6 DEF Coded
<1> QED
  BY <1>1 DEF ClosedAreCoded

(* A frame leaves the stack only when it is closed.                          *)
StackMoves ==
  \A f \in 1..Len(frame') :
    \/ OnStack(f)'
    \/ f \in 1..Len(frame) /\ (~ OnStack(f) \/ (Closes /\ f = Top))

LEMMA StepKinds ==
  ASSUME Inv, Inv', KindsMatch, FramesGrow,
         \A i \in 1..Len(open') :
           \/ i \in 1..Len(open) /\ Stands(i)
           \/ open'[i].node \notin FrameNodes
           \/ frame'[open'[i].frame_no].node = open'[i].node
  PROVE  KindsMatch'
<1>1. ASSUME NEW i \in 1..Len(open), Stands(i), open'[i].node \in FrameNodes
      PROVE  frame'[open'[i].frame_no].node = open'[i].node
  <2>1. i \in 1..i
    BY InvFacts DEF Inv
  <2>2. SameHandler(open[i], open'[i])
    BY <1>1, <2>1 DEF Stands
  <2>3. open[i].frame_no \in 1..Len(frame)
    BY HandlerFacts DEF Inv
  <2>4. frame[open[i].frame_no].node = open[i].node
    BY <1>1, <2>2 DEF KindsMatch, SameHandler
  <2> QED
    BY <2>2, <2>3, <2>4 DEF SameHandler, FramesGrow, Grown, Keeps
<1> QED
  BY <1>1 DEF KindsMatch

LEMMA InPlaceCodes ==
  ASSUME Inv, Inv', Codes, FramesGrow, InPlace
  PROVE  Codes' /\ CodesStay /\ StackMoves
<1>1. /\ Len(frame') = Len(frame) /\ \A f \in 1..Len(frame) : frame'[f].codes = frame[f].codes
      /\ frames' = frames
  BY DEF InPlace, Quiet, Meek
<1>2. \A h \in 1..Len(open) : Stands(h) \/ open[h].node \notin FrameNodes
  BY DEF InPlace
<1>3. \A g, i : Placeholder(g, i) => Placeholder(g, i)'
  BY <1>2, PlaceholdersStay
<1>4. EntriesName'
  BY <1>1, <1>3, StepEntries DEF Codes, Persists
<1>5. ClosedAreCoded' /\ CodesStay /\ StackMoves
  <2>1. CodesStay /\ StackMoves
    BY <1>1 DEF CodesStay, StackMoves, OnStack
  <2> QED
    BY <1>1, <2>1, StepCoded DEF Codes, OnStack
<1>6. KindsMatch'
  BY StepKinds DEF Codes, InPlace
<1> QED
  BY <1>4, <1>5, <1>6 DEF Codes

LEMMA ExportsCodes ==
  ASSUME Inv, Inv', Codes, FramesGrow, Exports
  PROVE  Codes' /\ CodesStay /\ StackMoves
<1>1. /\ Len(frame') = Len(frame) /\ \A f \in 1..Len(frame) : frame'[f].codes = frame[f].codes
      /\ frames' = frames /\ open' = open
  BY DEF Exports, ExportsTo
<1>2. \A h \in 1..Len(open) : h \in 1..Len(open') /\ Stands(h)
  BY <1>1, HandlersUnchanged
<1>3. \A g, i : Placeholder(g, i) => Placeholder(g, i)'
  BY <1>2, PlaceholdersStay
<1>4. EntriesName'
  BY <1>1, <1>3, StepEntries DEF Codes, Persists
<1>5. ClosedAreCoded' /\ CodesStay /\ StackMoves
  <2>1. CodesStay /\ StackMoves
    BY <1>1 DEF CodesStay, StackMoves, OnStack
  <2> QED
    BY <1>1, <2>1, StepCoded DEF Codes, OnStack
<1>6. KindsMatch'
  BY <1>1, <1>2, StepKinds DEF Codes
<1> QED
  BY <1>4, <1>5, <1>6 DEF Codes

LEMMA PushesCodes ==
  ASSUME Inv, Inv', Codes, FramesGrow, Pushes
  PROVE  Codes' /\ CodesStay /\ StackMoves
<1>1. PICK h \in Handler : PushedBy(h) /\ NewFrameOf(h, frame'[Len(frame) + 1])
  BY DEF Pushes
<1>2. /\ Len(frame) \in Nat /\ Len(frame') = Len(frame) + 1
      /\ \A f \in 1..Len(frame) : frame[f] \in KijiFrame
      /\ Top \in 1..Len(frame) /\ frames \in Seq(Nat) /\ Len(frames) \in Nat
      /\ Len(open) \in Nat
  BY <1>1, InvFacts DEF Inv, TypeOK, PushedBy
<1>3. \A f \in 1..Len(frame') : f \in 1..Len(frame) \/ f = Len(frame) + 1
  BY <1>2
<1>4. /\ Len(open') = Len(open) + 1 /\ open'[Len(open) + 1] = h
      /\ \A i \in 1..Len(open) : i \in 1..Len(open') /\ Stands(i)
      /\ \A i \in 1..Len(open') : i \in 1..Len(open) \/ i = Len(open) + 1
  BY <1>1, HandlerAdded DEF PushedBy
<1>5. \A g, i : Placeholder(g, i) => Placeholder(g, i)'
  BY <1>4, PlaceholdersStay
<1>6. \A f \in 1..Len(frame) :
        \A i \in 1..Len(frame[f].codes) :
          i \in 1..Len(frame'[f].codes) /\ frame'[f].codes[i] = frame[f].codes[i]
  <2>1. ASSUME NEW f \in 1..Len(frame)
        PROVE  \A i \in 1..Len(frame[f].codes) :
                 i \in 1..Len(frame'[f].codes) /\ frame'[f].codes[i] = frame[f].codes[i]
    <3>1. frame[f].codes \in Seq(Nat) /\ Len(frame[f].codes) \in Nat
      BY <1>2, FrameFields
    <3>2. frame'[f].codes = Append(frame[f].codes, 1) \/ frame'[f].codes = frame[f].codes
      BY <1>1 DEF PushedBy
    <3>3. \A i \in 1..Len(frame[f].codes) :
            /\ i \in 1..Len(Append(frame[f].codes, 1))
            /\ Append(frame[f].codes, 1)[i] = frame[f].codes[i]
      BY <3>1, AppendProperties
    <3> QED
      BY <3>2, <3>3
  <2> QED
    BY <2>1
<1>7. ASSUME NEW g \in 1..Len(frame'), NEW i \in 1..Len(frame'[g].codes)
      PROVE  Names(g, i)' \/ Persists(g, i)
  <2>1. CASE g = Len(frame) + 1
    <3>1. frame'[g].codes = <<>>
      BY <1>1, <2>1 DEF NewFrameOf
    <3> QED
      BY <3>1
  <2>2. CASE g \in 1..Len(frame) /\ i \in 1..Len(frame[g].codes)
    BY <1>5, <1>6, <2>2 DEF Persists
  <2>3. CASE g \in 1..Len(frame) /\ i \notin 1..Len(frame[g].codes)
    <3>1. frame[g].codes \in Seq(Nat) /\ Len(frame[g].codes) \in Nat
      BY <1>2, <2>3, FrameFields
    <3>2. h.node = "func" /\ g = Top
      BY <1>1, <2>3 DEF PushedBy
    <3>3. i = Len(frame[g].codes) + 1
      <4>1. frame'[g].codes = Append(frame[g].codes, 1)
        BY <1>1, <2>3, <3>2 DEF PushedBy
      <4>2. Len(frame'[g].codes) = Len(frame[g].codes) + 1
        BY <3>1, <4>1, AppendProperties
      <4> QED
        BY <2>3, <3>1, <4>2
    <3>4. h.pos = i
      BY <1>1, <3>2, <3>3 DEF PushedBy
    <3> PICK k : k = Len(open) + 1
      OBVIOUS
    <3>5. Parent(k)' = Top
      <4>1. Parent(Len(open) + 1) = Top
        BY HandlerFacts DEF Inv
      <4>2. CASE Len(open) = 0
        BY <1>2, <4>1, <4>2 DEF Parent
      <4>3. CASE Len(open) # 0
        <5>1. Len(open) \in 1..Len(open) /\ k # 1 /\ k - 1 = Len(open)
          BY <1>2, <4>3
        <5>2. open'[k - 1].frame_no = open[k - 1].frame_no
          BY <1>4, <5>1 DEF Stands, SameHandler
        <5> QED
          BY <4>1, <5>1, <5>2 DEF Parent
      <4> QED
        BY <4>2, <4>3
    <3>6. k \in DOMAIN open' /\ open'[k] = h
      <4>1. DOMAIN open' = 1..Len(open')
        BY LenProperties DEF Inv, TypeOK
      <4> QED
        BY <1>2, <1>4, <4>1
    <3>7. Placeholder(g, i)'
      BY <3>2, <3>4, <3>5, <3>6 DEF Placeholder
    <3> QED
      BY <3>7 DEF Names
  <2> QED
    BY <1>3, <2>1, <2>2, <2>3
<1>8. EntriesName'
  BY <1>7, StepEntries DEF Codes
<1>9. \A f : OnStack(f) \/ f = Len(frame) + 1 => OnStack(f)'
  <2>1. frames' = Append(frames, Len(frame) + 1) /\ Len(frame) + 1 \in Nat
    BY <1>1, <1>2 DEF PushedBy
  <2>2. /\ Len(frames') = Len(frames) + 1 /\ frames'[Len(frames) + 1] = Len(frame) + 1
        /\ \A i \in 1..Len(frames) : frames'[i] = frames[i]
    BY <1>2, <2>1, AppendProperties
  <2>3. DOMAIN frames' = 1..Len(frames') /\ DOMAIN frames = 1..Len(frames)
    BY LenProperties DEF Inv, TypeOK
  <2>4. /\ Len(frames) + 1 \in DOMAIN frames'
        /\ \A i \in DOMAIN frames : i \in DOMAIN frames' /\ i \in 1..Len(frames)
    BY <1>2, <2>2, <2>3
  <2> QED
    BY <2>2, <2>4 DEF OnStack
<1>10. ClosedAreCoded' /\ CodesStay /\ StackMoves
  <2>1. CodesStay /\ StackMoves
    BY <1>3, <1>6, <1>9 DEF CodesStay, StackMoves
  <2> QED
    BY <1>3, <1>9, <2>1, StepCoded DEF Codes
<1>11. KindsMatch'
  <2>1. frame'[h.frame_no].node = h.node
    BY <1>1 DEF PushedBy, NewFrameOf
  <2> QED
    BY <1>4, <2>1, StepKinds DEF Codes
<1> QED
  BY <1>8, <1>10, <1>11 DEF Codes

(* Where the handler that closes stands.                                     *)
LEMMA ClosingPlace ==
  ASSUME Inv, KindsMatch, NEW g, g = Parent(Len(open)), ClosesOver(g)
  PROVE  /\ g \in 1..Len(frame) /\ Top \in 1..Len(frame) /\ frame[Top].outer = g
         /\ frame[Top].node = Current.node /\ Len(open) \in 1..Len(open)
         /\ Current.node = "func" =>
              Current.pos \in 1..Len(frame[g].codes) /\ frame[g].codes[Current.pos] = 1
<1>1. open # <<>> /\ Current.node \in FrameNodes /\ Current = open[Len(open)]
  BY DEF ClosesOver, Current
<1>2. Len(open) \in 1..Len(open) /\ Top \in 1..Len(frame)
  BY <1>1, InvFacts DEF Inv
<1>3. Top = Current.frame_no
  BY <1>1, HandlerFacts DEF Inv
<1>4. /\ g \in 1..Len(frame) /\ frame[Top].outer = g
      /\ Current.node = "func" =>
           Current.pos \in 1..Len(frame[g].codes) /\ frame[g].codes[Current.pos] = 1
  BY <1>1, <1>2, <1>3, HandlerFacts DEF Inv
<1>5. frame[Top].node = Current.node
  BY <1>1, <1>2, <1>3 DEF KindsMatch
<1> QED
  BY <1>2, <1>4, <1>5

(* Where the codes of the frame below are written.                           *)
Written(g, i) ==
  \/ i \notin 1..Len(frame[g].codes)
  \/ Current.node = "func" /\ i = Current.pos

LEMMA ClosingEntries ==
  ASSUME Inv, Inv', Codes, FramesGrow, NEW g, g = Parent(Len(open)), ClosesOver(g),
         NEW i \in 1..Len(frame'[g].codes)
  PROVE  /\ Written(g, i) =>
              \/ frame'[g].codes[i] = Top
              \/ \E c : c = frame'[g].codes[i] /\ ImportedInto(g, c)'
         /\ ~ Written(g, i) => frame'[g].codes[i] = frame[g].codes[i]
<1>1. /\ g \in 1..Len(frame) /\ Top \in 1..Len(frame) /\ frame[Top].outer = g
      /\ frame[Top].node = Current.node
      /\ Current.node = "func" => Current.pos \in 1..Len(frame[g].codes)
  BY ClosingPlace DEF Codes
<1>2. frame[g].codes \in Seq(Nat) /\ Len(frame[g].codes) \in Nat /\ frame[Top] \in KijiFrame
  BY <1>1, InvFacts, FrameFields DEF Inv
<1>3. CASE Patches(g)
  BY <1>1, <1>2, <1>3 DEF Patches, Written
<1>4. CASE Takes(g)
  <2>1. frame'[g].codes = Append(frame[g].codes, Top) /\ Current.node # "func"
    BY <1>4 DEF Takes
  <2>2. /\ Len(frame'[g].codes) = Len(frame[g].codes) + 1
        /\ frame'[g].codes[Len(frame[g].codes) + 1] = Top
        /\ \A j \in 1..Len(frame[g].codes) : frame'[g].codes[j] = frame[g].codes[j]
    <3>1. Top \in Nat
      BY <1>1, InvFacts DEF Inv
    <3> QED
      BY <1>2, <2>1, <3>1, AppendProperties
  <2>3. i \in 1..Len(frame[g].codes) \/ i = Len(frame[g].codes) + 1
    BY <1>2, <2>2
  <2> QED
    BY <2>1, <2>2, <2>3 DEF Written
<1>5. CASE Imports(g)
  <2> DEFINE exports == frame[Top].exportables
             n == Len(exports)
             m == Len(frame[g].codes)
  <2>1. n \in Nat /\ m \in Nat /\ DOMAIN exports = 1..n
    BY <1>2, Exportables, FrameFields, LenProperties
  <2>2. /\ Current.node = "use"
        /\ Len(frame'[g].codes) = m + n + 1
        /\ \A j \in 1..m : frame'[g].codes[j] = frame[g].codes[j]
        /\ \A j \in 1..n : frame'[g].codes[m + j] = exports[j].frame_no
        /\ frame'[g].codes[m + n + 1] = Top
    BY <1>5 DEF Imports, Merges
  <2>3. ASSUME NEW j \in 1..n PROVE \E c : c = exports[j].frame_no /\ ImportedInto(g, c)'
    <3>1. ImportedInto(g, exports[j].frame_no)
      <4>1. Top \in DOMAIN frame /\ frame[Top].node = "use"
        BY <1>1, <2>2, TopIsFrame
      <4>2. j \in DOMAIN exports
        BY <2>1
      <4> QED
        BY <1>1, <4>1, <4>2 DEF ImportedInto
    <3>2. PICK c : c = exports[j].frame_no
      OBVIOUS
    <3>3. ImportedInto(g, c)'
      BY <3>1, <3>2, ImportedStays
    <3> QED
      BY <3>2, <3>3
  <2> HIDE DEF exports, n, m
  <2>4. i \in 1..m \/ i = m + n + 1 \/ \E j \in 1..n : i = m + j
    <3>1. i \in 1..(m + n + 1)
      BY <2>2
    <3>2. CASE i > m /\ i < m + n + 1
      <4>1. i - m \in 1..n /\ i = m + (i - m)
        BY <2>1, <3>1, <3>2
      <4> QED
        BY <4>1
    <3> QED
      BY <2>1, <3>1, <3>2
  <2>5. CASE \E j \in 1..n : i = m + j
    <3>1. PICK j \in 1..n : i = m + j
      BY <2>5
    <3>2. i \notin 1..m
      BY <2>1, <3>1
    <3>3. \E c : c = frame'[g].codes[i] /\ ImportedInto(g, c)'
      BY <2>2, <2>3, <3>1
    <3> QED
      BY <3>2, <3>3 DEF Written, m
  <2>6. CASE i \in 1..m
    BY <2>2, <2>6 DEF Written, m
  <2>7. CASE i = m + n + 1
    <3>1. i \notin 1..m
      BY <2>1, <2>7
    <3> QED
      BY <2>2, <2>7, <3>1 DEF Written, m
  <2> QED
    BY <2>4, <2>5, <2>6, <2>7
<1> QED
  BY <1>3, <1>4, <1>5 DEF ClosesOver

LEMMA ClosesCodes ==
  ASSUME Inv, Inv', Codes, FramesGrow, Closes
  PROVE  Codes' /\ CodesStay /\ StackMoves
<1> PICK g : g = Parent(Len(open))
  OBVIOUS
<1>1. ClosesOver(g)
  BY DEF Closes
<1>2. /\ g \in 1..Len(frame) /\ Top \in 1..Len(frame) /\ frame[Top].outer = g
      /\ Len(open) \in 1..Len(open)
      /\ Current.node = "func" =>
           Current.pos \in 1..Len(frame[g].codes) /\ frame[g].codes[Current.pos] = 1
  BY <1>1, ClosingPlace DEF Codes
<1>3. /\ Len(frame') = Len(frame) /\ frames' = Pop(frames) /\ open # <<>> /\ open' = Pop(open)
      /\ \A f \in 1..Len(frame) : f # g => frame'[f].codes = frame[f].codes
  BY <1>1 DEF ClosesOver
<1>4. /\ \A i \in 1..Len(open) : i = Len(open) \/ (i \in 1..Len(open') /\ Stands(i))
      /\ \A i \in 1..Len(open') : i \in 1..Len(open) /\ Stands(i)
  BY <1>3, HandlerRemoved
<1>5. ASSUME NEW f, NEW i, Placeholder(f, i), f # g \/ ~ Written(g, i), i \in 1..Len(frame[f].codes)
      PROVE  Placeholder(f, i)'
  <2>1. DOMAIN open = 1..Len(open)
    BY LenProperties DEF Inv, TypeOK
  <2>2. PICK h \in 1..Len(open) : open[h].node = "func" /\ Parent(h) = f /\ open[h].pos = i
    BY <1>5, <2>1 DEF Placeholder
  <2>3. h # Len(open)
    BY <1>5, <2>2 DEF Written, Current
  <2> QED
    BY <1>4, <2>2, <2>3, PlaceholderStands
<1>6. ASSUME NEW f \in 1..Len(frame'), NEW i \in 1..Len(frame'[f].codes)
      PROVE  Names(f, i)' \/ Persists(f, i)
  <2>1. CASE f # g
    BY <1>3, <1>5, <2>1 DEF Persists
  <2>2. CASE f = g /\ ~ Written(g, i)
    <3>1. frame'[g].codes[i] = frame[g].codes[i]
      BY <1>1, <2>2, ClosingEntries
    <3>2. i \in 1..Len(frame[g].codes)
      BY <2>2 DEF Written
    <3> QED
      BY <1>2, <1>5, <2>2, <3>1, <3>2 DEF Persists
  <2>3. CASE f = g /\ Written(g, i)
    <3>1. frame'[g].codes[i] = Top \/ \E c : c = frame'[g].codes[i] /\ ImportedInto(g, c)'
      BY <1>1, <2>3, ClosingEntries
    <3>2. CASE frame'[g].codes[i] = Top
      <4>1. PICK c : c = Top
        OBVIOUS
      <4>2. Nested(g, c)'
        BY <1>2, <1>3, <4>1 DEF Nested, FramesGrow, Grown, Keeps
      <4> QED
        BY <2>3, <3>2, <4>1, <4>2 DEF Names, Nested
    <3>3. ASSUME NEW c, c = frame'[g].codes[i], ImportedInto(g, c)' PROVE Names(f, i)'
      BY <2>3, <3>3 DEF Names, ImportedInto
    <3> QED
      BY <3>1, <3>2, <3>3
  <2> QED
    BY <2>1, <2>2, <2>3
<1>7. EntriesName'
  BY <1>6, StepEntries DEF Codes
<1>8. /\ Len(frame[g].codes) \in Nat /\ Len(frame'[g].codes) \in Nat
      /\ Len(frame[g].codes) <= Len(frame'[g].codes)
      /\ \E i \in 1..Len(frame'[g].codes) : frame'[g].codes[i] = Top
  <2>1. g \in 1..Len(frame')
    BY <1>2, <1>3
  <2>2. frame[g] \in KijiFrame /\ frame'[g] \in KijiFrame /\ frame[Top] \in KijiFrame
    BY <1>2, <2>1, ElementOfSeq DEF Inv, TypeOK
  <2>3. /\ frame[g].codes \in Seq(Nat) /\ Len(frame[g].codes) \in Nat
        /\ Len(frame'[g].codes) \in Nat /\ Len(frame[Top].exportables) \in Nat /\ Top \in Nat
    BY <1>2, <2>2, FrameFields, Exportables, InvFacts DEF Inv
  <2>4. CASE Patches(g)
    <3>1. frame'[g].codes = [frame[g].codes EXCEPT ![Current.pos] = Top] /\ Current.node = "func"
      BY <2>4 DEF Patches
    <3>2. Len(frame'[g].codes) = Len(frame[g].codes) /\ frame'[g].codes[Current.pos] = Top
      BY <1>2, <2>3, <3>1
    <3> QED
      BY <1>2, <2>3, <3>1, <3>2
  <2>5. CASE Takes(g)
    <3>1. frame'[g].codes = Append(frame[g].codes, Top)
      BY <2>5 DEF Takes
    <3>2. /\ Len(frame'[g].codes) = Len(frame[g].codes) + 1
          /\ frame'[g].codes[Len(frame[g].codes) + 1] = Top
      BY <2>3, <3>1, AppendProperties
    <3>3. PICK at : at = Len(frame[g].codes) + 1
      OBVIOUS
    <3>4. at \in 1..Len(frame'[g].codes) /\ frame'[g].codes[at] = Top
      BY <2>3, <3>2, <3>3
    <3>5. Len(frame[g].codes) <= Len(frame'[g].codes)
      BY <2>3, <3>2
    <3>6. \E i \in 1..Len(frame'[g].codes) : frame'[g].codes[i] = Top
      BY <3>4
    <3> QED
      BY <2>3, <3>5, <3>6, Zenon
  <2>6. CASE Imports(g)
    <3> DEFINE l == Len(frame[g].codes) + Len(frame[Top].exportables) + 1
    <3>1. Len(frame'[g].codes) = l /\ frame'[g].codes[l] = Top
      BY <2>6 DEF Imports, Merges
    <3>2. l \in 1..Len(frame'[g].codes) /\ Len(frame[g].codes) <= l
      <4>1. Len(frame[g].codes) \in Nat /\ Len(frame[Top].exportables) \in Nat
        BY <2>3
      <4>2. \A a \in Nat, b \in Nat : a + b + 1 \in Nat \ {0} /\ a <= a + b + 1
        OBVIOUS
      <4>3. l \in Nat \ {0} /\ Len(frame[g].codes) <= l
        BY <4>1, <4>2
      <4> HIDE DEF l
      <4> QED
        BY <3>1, <4>3
    <3> QED
      BY <2>3, <3>1, <3>2
  <2> QED
    BY <1>1, <2>4, <2>5, <2>6 DEF ClosesOver
<1>9. CodesStay
  <2>1. ASSUME NEW i \in 1..Len(frame[g].codes)
        PROVE  /\ i \in 1..Len(frame'[g].codes)
               /\ frame'[g].codes[i] = frame[g].codes[i] \/ frame[g].codes[i] = 1
    <3>1. i \in 1..Len(frame'[g].codes)
      BY <1>8
    <3>2. CASE Written(g, i)
      BY <1>2, <3>1, <3>2 DEF Written
    <3>3. CASE ~ Written(g, i)
      BY <1>1, <3>1, <3>3, ClosingEntries
    <3> QED
      BY <3>1, <3>2, <3>3
  <2> QED
    BY <1>3, <2>1 DEF CodesStay
<1> PICK t : t = Top
  OBVIOUS
<1>10. Coded(t)'
  <2>1. frame'[t].outer = g /\ g \in 1..Len(frame')
    BY <1>2, <1>3 DEF FramesGrow, Grown, Keeps
  <2> QED
    BY <1>8, <2>1 DEF Coded
<1>11. \A f : OnStack(f) => f = t \/ OnStack(f)'
  <2>1. /\ frames \in Seq(Nat) /\ frames # <<>> /\ DOMAIN frames = 1..Len(frames)
        /\ DOMAIN frames' = 1..Len(frames')
    BY LenProperties, InvFacts DEF Inv, TypeOK, Shape, ScopesNest
  <2>2. /\ Len(frames') = Len(frames) - 1 /\ Len(frames) \in Nat \ {0}
        /\ \A i \in 1..(Len(frames) - 1) : frames'[i] = frames[i]
    BY <1>3, <2>1, PopProperties
  <2>3. \A i \in DOMAIN frames : i = Len(frames) \/ (i \in DOMAIN frames' /\ frames'[i] = frames[i])
    BY <2>1, <2>2
  <2> QED
    BY <2>3 DEF OnStack, Top
<1>12. ClosedAreCoded' /\ StackMoves
  <2>1. StackMoves
    BY <1>3, <1>11 DEF StackMoves
  <2> QED
    BY <1>3, <1>9, <1>10, <1>11, <2>1, StepCoded DEF Codes
<1>13. KindsMatch'
  BY <1>4, StepKinds DEF Codes
<1> QED
  BY <1>7, <1>9, <1>12, <1>13 DEF Codes

LEMMA NextCodes ==
  ASSUME Inv, Inv', Codes, [Next]_vars
  PROVE  Codes' /\ Shaped /\ FramesGrow /\ CodesStay /\ StackMoves
<1>1. Shaped /\ FramesGrow
  BY NextShapes, ShapedGrows
<1> QED
  BY <1>1, InPlaceCodes, PushesCodes, ClosesCodes, ExportsCodes DEF Shaped

LEMMA InitCodes == Init => Codes
<1> SUFFICES ASSUME Init PROVE Codes
  OBVIOUS
<1> DEFINE s == Bind(NewFrame("main", 0), Package)
<1>1. s.codes = <<>>
  BY DEF Bind, NewFrame
<1>2. frame = <<s>> /\ open = <<>> /\ frames = <<1>>
  BY DEF Init
<1> HIDE DEF s
<1>3. Len(frame) = 1 /\ frame[1] = s /\ Len(open) = 0 /\ frames[1] = 1 /\ 1 \in DOMAIN frames
  BY <1>2
<1>4. EntriesName
  BY <1>1, <1>3 DEF EntriesName
<1>5. ClosedAreCoded /\ KindsMatch
  BY <1>3 DEF ClosedAreCoded, OnStack, KindsMatch
<1> QED
  BY <1>4, <1>5 DEF Codes

LEMMA CodesName ==
  ASSUME Inv, Codes
  PROVE  CodesNameFrames
<1>1. /\ DOMAIN frame = 1..Len(frame)
      /\ \A f \in 1..Len(frame) : DOMAIN frame[f].codes = 1..Len(frame[f].codes)
  <2>1. \A f \in 1..Len(frame) : frame[f] \in KijiFrame
    BY InvFacts DEF Inv
  <2> QED
    BY <2>1, FrameFields, LenProperties DEF Inv, TypeOK
<1>2. ASSUME NEW g \in DOMAIN frame, NEW i \in DOMAIN frame[g].codes
      PROVE  LET f == frame[g].codes[i] IN
               Placeholder(g, i) \/ frame[f].outer = g \/ ImportedInto(g, f)
  BY <1>1, <1>2 DEF Codes, EntriesName, Names, Nested
<1>3. ASSUME NEW f \in DOMAIN frame, ~ OnStack(f)
      PROVE  \E i \in DOMAIN frame[frame[f].outer].codes : frame[frame[f].outer].codes[i] = f
  BY <1>1, <1>3 DEF Codes, ClosedAreCoded, Coded
<1> QED
  BY <1>2, <1>3 DEF CodesNameFrames

(* Codes is an invariant: each operand names what it should at every step,     *)
(* while its sub is still being compiled included.                           *)
THEOREM Coding == Spec => []Codes
<1>1. Init => Codes
  BY InitCodes
<1>2. Inv /\ Inv' /\ Codes /\ [Next]_vars => Codes'
  BY NextCodes
<1> QED
  BY <1>1, <1>2, Invariance, PTL DEF Spec

(* Every GETCODE operand names a frame nested directly in the frame that      *)
(* holds it, or one that a library used there exports, once the sub it        *)
(* stands for is compiled; and every closed frame is named in its outer one   *)
(* (NODE_FUNC's patch, NODE_LAMBDA, NODE_BLOCK, NODE_USE in nd_func.c and     *)
(* nd_control.c).                                                            *)
THEOREM Naming == Spec => []CodesNameFrames
<1>1. Inv /\ Codes => CodesNameFrames
  BY CodesName
<1> QED
  BY <1>1, Invariance, Coding, PTL
-----------------------------------------------------------------------------
(* What `use' imports.  While every `use' comes before the first frame is     *)
(* closed, the marked frames are those of libraries, so an exportable sub is  *)
(* entered in the first library its outer frames lead to, or in the root.     *)
(* A library that is finished has given its exports to the frame that uses    *)
(* it, and gets no more: an export goes to a frame of the stack.              *)

AllFirst ==
  \A u \in 1..Len(frame) : frame[u].node = "use" => NothingClosedBefore(u)
MarksAreUses ==
  \A f \in 1..Len(frame) : frame[f].frame_type = "use" => frame[f].node = "use"

(* k outer pointers lead from f to g, by way of frames of no library.         *)
LeadsBy(f, g, k, c) ==
  /\ c[0] = f /\ c[k] = g
  /\ \A i \in 1..k : /\ c[i - 1] \in 1..Len(frame) /\ frame[c[i - 1]].node # "use"
                     /\ c[i] = frame[c[i - 1]].outer
LeadsTo(f, g) == \E k \in Nat : \E c \in [0..k -> Nat] : LeadsBy(f, g, k, c)

Collects(g) == frame[g].node = "use" \/ frame[g].outer = 0
ExportsLead ==
  \A g \in 1..Len(frame) : \A i \in 1..Len(frame[g].exportables) :
    LeadsTo(frame[g].exportables[i].frame_no, g) /\ Collects(g)

Climbing  == walk # Idle /\ walk.mode = "export"
WalkLeads == Climbing => LeadsTo(walk.item, walk.at)
FirstLead == AllFirst => MarksAreUses /\ ExportsLead /\ WalkLeads

(* No export is the main frame, whose number is that of the placeholders.     *)
ExportsFit ==
  /\ \A g \in 1..Len(frame) : \A i \in 1..Len(frame[g].exportables) :
       frame[g].exportables[i].frame_no # 1
  /\ Climbing => walk.item # 1

Given(g, e) ==
  /\ \E j \in 1..Len(frame[g].lexicals) : frame[g].lexicals[j] = e.name
  /\ \E j \in 1..Len(frame[g].codes) : frame[g].codes[j] = e.frame_no
Brought(u) ==
  /\ frame[u].outer \in 1..Len(frame)
  /\ \A i \in 1..Len(frame[u].exportables) : Given(frame[u].outer, frame[u].exportables[i])
AllBrought ==
  \A u \in 1..Len(frame) : frame[u].node = "use" => OnStack(u) \/ Brought(u)

Importing == FirstLead /\ ExportsFit /\ AllBrought

LEMMA FirstEarlier ==
  ASSUME Inv, Inv', FramesGrow, AllFirst'
  PROVE  AllFirst
<1>1. Len(frame) \in Nat /\ Len(frame') \in Nat /\ Len(frame) <= Len(frame')
  BY LenProperties DEF Inv, TypeOK, FramesGrow
<1>2. ASSUME NEW u \in 1..Len(frame), frame[u].node = "use", NEW g \in 1..(u - 1)
      PROVE  frame[g + 1].outer = g
  <2>1. u \in 1..Len(frame') /\ g + 1 \in 1..Len(frame)
    BY <1>1
  <2>2. frame'[u].node = "use"
    BY <1>2 DEF FramesGrow, Grown, Keeps
  <2>3. \A x \in 1..(u - 1) : frame'[x + 1].outer = x
    BY <2>1, <2>2 DEF AllFirst, NothingClosedBefore
  <2>4. frame'[g + 1].outer = g
    BY <2>3
  <2> QED
    BY <2>1, <2>4 DEF FramesGrow, Grown, Keeps
<1> QED
  BY <1>2 DEF AllFirst, NothingClosedBefore

(* Outer pointers and kinds never change, so what leads somewhere still does. *)
LEMMA LeadsStays ==
  ASSUME Inv, Inv', FramesGrow, NEW f, NEW g, LeadsTo(f, g)
  PROVE  LeadsTo(f, g)'
<1>1. Len(frame) \in Nat /\ Len(frame') \in Nat /\ Len(frame) <= Len(frame')
  BY LenProperties DEF Inv, TypeOK, FramesGrow
<1>2. PICK k \in Nat : \E c \in [0..k -> Nat] : LeadsBy(f, g, k, c)
  BY DEF LeadsTo
<1>3. PICK c \in [0..k -> Nat] : LeadsBy(f, g, k, c)
  BY <1>2
<1>4. \A x \in 1..Len(frame) :
        x \in 1..Len(frame') /\ frame'[x].node = frame[x].node /\ frame'[x].outer = frame[x].outer
  <2> SUFFICES ASSUME NEW x \in 1..Len(frame)
               PROVE  /\ x \in 1..Len(frame')
                      /\ frame'[x].node = frame[x].node /\ frame'[x].outer = frame[x].outer
    OBVIOUS
  <2>1. x \in 1..Len(frame')
    BY <1>1
  <2> QED
    BY <2>1 DEF FramesGrow, Grown, Keeps
<1>5. LeadsBy(f, g, k, c)'
  BY <1>3, <1>4 DEF LeadsBy
<1> QED
  BY <1>5 DEF LeadsTo

LEMMA LeadsItself ==
  ASSUME NEW f \in Nat
  PROVE  LeadsTo(f, f)'
<1> DEFINE c == [i \in 0..0 |-> f]
<1>1. c \in [0..0 -> Nat] /\ c[0] = f
  OBVIOUS
<1> HIDE DEF c
<1>2. LeadsBy(f, f, 0, c)'
  BY <1>1 DEF LeadsBy
<1> QED
  BY <1>1, <1>2 DEF LeadsTo

LEMMA LeadsOn ==
  ASSUME NEW f, NEW g \in 1..Len(frame), LeadsTo(f, g), frame[g].node # "use",
         frame[g].outer \in Nat
  PROVE  LeadsTo(f, frame[g].outer)
<1>1. PICK k \in Nat : \E c \in [0..k -> Nat] : LeadsBy(f, g, k, c)
  BY DEF LeadsTo
<1>2. PICK c \in [0..k -> Nat] : LeadsBy(f, g, k, c)
  BY <1>1
<1> DEFINE o == frame[g].outer
           d == [i \in 0..(k + 1) |-> IF i = k + 1 THEN o ELSE c[i]]
<1>3. \A i \in 0..(k + 1) : i = k + 1 \/ i \in 0..k
  OBVIOUS
<1>4. d \in [0..(k + 1) -> Nat] /\ d[k + 1] = o /\ \A i \in 0..k : d[i] = c[i]
  <2> HIDE DEF o
  <2>1. \A i \in 0..(k + 1) : (IF i = k + 1 THEN o ELSE c[i]) \in Nat
    BY <1>3 DEF o
  <2>2. \A i \in 0..k : i \in 0..(k + 1) /\ i # k + 1
    OBVIOUS
  <2>3. k + 1 \in 0..(k + 1)
    OBVIOUS
  <2> QED
    BY <2>1, <2>2, <2>3
<1> HIDE DEF d
<1>5. d[0] = f
  <2>1. 0 \in 0..k
    OBVIOUS
  <2> QED
    BY <1>2, <1>4, <2>1 DEF LeadsBy
<1>6. ASSUME NEW i \in 1..(k + 1)
      PROVE  /\ d[i - 1] \in 1..Len(frame) /\ frame[d[i - 1]].node # "use"
             /\ d[i] = frame[d[i - 1]].outer
  <2>1. CASE i = k + 1
    <3>1. i - 1 = k /\ k \in 0..k
      BY <2>1
    <3>2. d[i - 1] = g
      BY <1>2, <1>4, <3>1 DEF LeadsBy
    <3> QED
      BY <1>4, <2>1, <3>2
  <2>2. CASE i # k + 1
    <3>1. i \in 1..k /\ i \in 0..k /\ i - 1 \in 0..k
      BY <2>2
    <3>2. d[i - 1] = c[i - 1] /\ d[i] = c[i]
      BY <1>4, <3>1
    <3> QED
      BY <1>2, <3>1, <3>2 DEF LeadsBy
  <2> QED
    BY <2>1, <2>2
<1>7. LeadsBy(f, o, k + 1, d)
  BY <1>4, <1>5, <1>6 DEF LeadsBy
<1>8. k + 1 \in Nat /\ d \in [0..(k + 1) -> Nat]
  BY <1>4
<1> HIDE DEF o
<1>9. LeadsTo(f, o)
  BY <1>7, <1>8 DEF LeadsTo
<1> QED
  BY <1>9 DEF o

(* The frame where a climb stops is the library the property speaks of.       *)
LEMMA LeadsToLibrary ==
  ASSUME Inv, NEW f, NEW g \in 1..Len(frame), LeadsTo(f, g), Collects(g),
         NEW u \in 1..Len(frame), frame[u].node = "use", IsLibraryOf(u, f)
  PROVE  u = g
<1>1. PICK m \in Nat : \E c \in [0..m -> Nat] : LeadsBy(f, g, m, c)
  BY DEF LeadsTo
<1>2. PICK c \in [0..m -> Nat] : LeadsBy(f, g, m, c)
  BY <1>1
<1>3. /\ c[0] = f /\ c[m] = g
      /\ \A i \in 1..m : c[i - 1] # 0 /\ frame[c[i - 1]].node # "use"
                         /\ c[i] = frame[c[i - 1]].outer
  <2>1. ASSUME NEW i \in 1..m, c[i - 1] \in 1..Len(frame)
        PROVE  c[i - 1] # 0
    BY <2>1
  <2> QED
    BY <1>2, <2>1 DEF LeadsBy
<1>4. f \in Nat
  BY <1>3
<1>5. PICK k \in 0..f : Up(f, k) = u /\ \A j \in 0..(k - 1) : frame[Up(f, j)].node # "use"
  BY DEF IsLibraryOf
<1>6. k \in Nat
  BY <1>4
<1>7. ASSUME NEW n \in 0..m PROVE Up(f, n) = c[n]
  <2> DEFINE d == [i \in 0..n |-> c[i]]
  <2>1. \A i \in 0..n : i \in 0..m
    OBVIOUS
  <2>2. \A i \in 1..n : i \in 1..m /\ i \in 0..n /\ i - 1 \in 0..n
    OBVIOUS
  <2>3. n \in 0..n /\ 0 \in 0..n /\ n \in Nat
    OBVIOUS
  <2>4. d \in [0..n -> Nat] /\ \A i \in 0..n : d[i] = c[i]
    BY <2>1
  <2> HIDE DEF d
  <2>5. d[0] = f
    BY <1>3, <2>3, <2>4
  <2>6. \A i \in 1..n : d[i] = IF d[i - 1] = 0 THEN 0 ELSE frame[d[i - 1]].outer
    BY <1>3, <2>2, <2>4
  <2>7. Up(f, n) = d[n]
    BY <2>3, <2>4, <2>5, <2>6, UpIs
  <2> QED
    BY <2>3, <2>4, <2>7
<1>8. CASE k = m
  <2>1. m \in 0..m
    OBVIOUS
  <2> QED
    BY <1>3, <1>5, <1>7, <1>8, <2>1
<1>9. CASE k < m
  <2>1. k \in 0..m /\ k + 1 \in 1..m /\ (k + 1) - 1 = k
    BY <1>6, <1>9
  <2>2. u = c[k]
    BY <1>5, <1>7, <2>1
  <2>3. frame[c[k]].node # "use"
    BY <1>3, <2>1
  <2> QED
    BY <2>2, <2>3
<1>10. CASE k > m
  <2>1. m \in 0..(k - 1) /\ m \in 0..m
    BY <1>6, <1>10
  <2>2. frame[g].node # "use"
    BY <1>3, <1>5, <1>7, <2>1
  <2>3. frame[g].outer = 0
    BY <2>2 DEF Collects
  <2> DEFINE d == [i \in 0..k |-> IF i <= m THEN c[i] ELSE 0]
  <2>4. \A i \in 0..k : i <= m => i \in 0..m
    BY <1>6
  <2>5. d \in [0..k -> Nat] /\ \A i \in 0..k : d[i] = IF i <= m THEN c[i] ELSE 0
    BY <2>4
  <2> HIDE DEF d
  <2>6. d[0] = f /\ d[k] = 0
    <3>1. 0 \in 0..k /\ 0 <= m /\ k \in 0..k /\ ~(k <= m)
      BY <1>6, <1>10
    <3> QED
      BY <1>3, <2>5, <3>1
  <2>7. ASSUME NEW i \in 1..k
        PROVE  d[i] = IF d[i - 1] = 0 THEN 0 ELSE frame[d[i - 1]].outer
    <3>1. i \in 0..k /\ i - 1 \in 0..k
      BY <1>6
    <3>2. CASE i <= m
      <4>1. i \in 1..m /\ i - 1 <= m
        BY <1>6, <3>2
      <4>2. d[i] = c[i] /\ d[i - 1] = c[i - 1]
        BY <2>5, <3>1, <3>2, <4>1
      <4> QED
        BY <1>3, <4>1, <4>2
    <3>3. CASE i = m + 1
      <4>1. i - 1 = m /\ m <= m /\ ~(i <= m)
        BY <3>3
      <4>2. d[i] = 0 /\ d[i - 1] = g
        BY <1>3, <2>5, <3>1, <4>1
      <4> QED
        BY <2>3, <4>2
    <3>4. CASE i > m + 1
      <4>1. ~(i - 1 <= m) /\ ~(i <= m)
        BY <1>6, <3>4
      <4>2. d[i] = 0 /\ d[i - 1] = 0
        BY <2>5, <3>1, <4>1
      <4> QED
        BY <4>2
    <3>5. i <= m \/ i = m + 1 \/ i > m + 1
      BY <1>6
    <3> QED
      BY <3>2, <3>3, <3>4, <3>5
  <2>8. Up(f, k) = 0
    BY <1>6, <2>5, <2>6, <2>7, UpIs
  <2>9. u # 0
    BY InvFacts DEF Inv
  <2> QED
    BY <1>5, <2>8, <2>9
<1> QED
  BY <1>6, <1>8, <1>9, <1>10

(* What is exported was, or is the sub whose climb ends.                     *)
WasExported(g, i) ==
  /\ g \in 1..Len(frame) /\ i \in 1..Len(frame[g].exportables)
  /\ frame'[g].exportables[i] = frame[g].exportables[i]
IsExported(g, i) ==
  /\ Exports /\ g = walk.at /\ Climbing /\ StopsAt(g) /\ g \in 1..Len(frame)
  /\ frame'[g].exportables[i].frame_no = walk.item

LEMMA StepExports ==
  ASSUME Inv, Inv', Shaped, FramesGrow,
         NEW g \in 1..Len(frame'), NEW i \in 1..Len(frame'[g].exportables)
  PROVE  WasExported(g, i) \/ IsExported(g, i)
<1>1. Len(frame) \in Nat
  BY InvFacts DEF Inv
<1>2. CASE InPlace
  BY <1>2 DEF InPlace, Quiet, Meek, WasExported
<1>3. CASE Pushes
  <2>1. PICK h \in Handler : PushedBy(h) /\ NewFrameOf(h, frame'[Len(frame) + 1])
    BY <1>3 DEF Pushes
  <2>2. g \in 1..Len(frame) \/ g = Len(frame) + 1
    BY <1>1, <2>1 DEF PushedBy
  <2>3. CASE g = Len(frame) + 1
    <3>1. frame'[g].exportables = <<>>
      BY <2>1, <2>3 DEF NewFrameOf
    <3> QED
      BY <3>1
  <2>4. CASE g \in 1..Len(frame)
    BY <2>1, <2>4 DEF PushedBy, WasExported
  <2> QED
    BY <2>2, <2>3, <2>4
<1>4. CASE Closes
  BY <1>4 DEF Closes, ClosesOver, WasExported
<1>5. CASE Exports
  <2>1. PICK a : a = walk.at
    OBVIOUS
  <2>2. ExportsTo(a)
    BY <1>5, <2>1 DEF Exports
  <2>3. CASE g # a
    BY <2>2, <2>3 DEF ExportsTo, WasExported
  <2>4. CASE g = a
    <3>1. Len(frame[g].exportables) \in Nat /\ g \in 1..Len(frame)
      <4>1. g \in 1..Len(frame)
        BY <2>2, <2>4 DEF ExportsTo
      <4> QED
        BY <4>1, InvFacts, Exportables DEF Inv
    <3>2. i \in 1..Len(frame[g].exportables) \/ i = Len(frame[g].exportables) + 1
      BY <2>2, <2>4, <3>1 DEF ExportsTo
    <3>3. CASE i \in 1..Len(frame[g].exportables)
      BY <2>2, <2>4, <3>1, <3>3 DEF ExportsTo, Prefix, WasExported
    <3>4. CASE i = Len(frame[g].exportables) + 1
      BY <1>5, <2>1, <2>2, <2>4, <3>4 DEF ExportsTo, IsExported, Climbing
    <3> QED
      BY <3>2, <3>3, <3>4
  <2> QED
    BY <2>3, <2>4
<1> QED
  BY <1>2, <1>3, <1>4, <1>5 DEF Shaped

(* The climb starts at the frame of the sub, and climbs to the outer frame.   *)
Starts ==
  /\ Len(frame') = Len(frame) + 1
  /\ walk'.item = Len(frame) + 1 /\ walk'.at = Len(frame) + 1
Climbs ==
  /\ Climbing /\ ~ StopsAt(walk.at) /\ UNCHANGED frame
  /\ walk'.item = walk.item /\ walk'.at = frame[walk.at].outer
LEMMA ClimbSteps ==
  ASSUME Inv, [Next]_vars, Climbing'
  PROVE  walk' = walk \/ Starts \/ Climbs
<1>1. walk' # Idle /\ walk'.mode = "export"
  BY DEF Climbing
<1>2. ASSUME NEW mode \in {"variable", "lexical", "ident"}, NEW n, NEW item, StartWalk(mode, n, item)
      PROVE  FALSE
  <2>1. walk'.mode = mode
    BY <1>2 DEF StartWalk
  <2> QED
    BY <1>1, <2>1
<1>3. ASSUME Declare \/ (\E id \in Ids : Parameter(id)) \/ Finish \/ Terminated \/ UNCHANGED vars
      PROVE  walk' = walk
  BY <1>3 DEF Declare, Our, My, OpenBindMy, OpenBindOur, DeclareBound, Parameter, Finish,
              Terminated, vars
<1>4. ASSUME Open PROVE walk' = walk \/ Starts
  <2>1. ASSUME NEW id \in Ids, NEW e \in BOOLEAN, NEW n \in 0..MaxParams, OpenFunc(id, e, n)
        PROVE  Starts
    <3>1. Len(frame') = Len(frame) + 1
      BY <2>1, OpenFuncShape DEF Pushes, PushedBy
    <3>2. walk' = IF e THEN [mode |-> "export", want |-> Amp(id), at |-> Len(frame) + 1,
                             outer |-> 0, item |-> Len(frame) + 1]
                  ELSE Idle
      BY <2>1 DEF OpenFunc
    <3> QED
      BY <1>1, <3>1, <3>2 DEF Starts
  <2>2. ASSUME NEW node, NEW n, OpenScope(node, n) PROVE walk' = walk
    BY <2>2 DEF OpenScope
  <2>3. ASSUME OpenUse PROVE walk' = walk
    BY <2>3 DEF OpenUse
  <2> QED
    BY <1>4, <2>1, <2>2, <2>3 DEF Open
<1>5. ASSUME Close PROVE walk' = walk
  <2>1. ASSUME CloseBindOur PROVE FALSE
    BY <1>2, <2>1 DEF CloseBindOur
  <2>2. ASSUME NEW node, Closing(node) PROVE walk' = walk
    BY <2>2 DEF Closing
  <2> QED
    BY <1>5, <2>1, <2>2 DEF Close, CloseBindMy, CloseFunc, CloseUse, CloseScope
<1>6. ASSUME Refer PROVE FALSE
  BY <1>2, <1>6 DEF Refer, UseVariable, CallSub, UseIdent
<1>7. ASSUME WalkStep PROVE Climbs
  <2>1. ASSUME FoundLexical \/ AddExportable PROVE FALSE
    BY <1>1, <2>1 DEF FoundLexical, AddExportable
  <2>2. ASSUME FoundPackageVariable PROVE FALSE
    BY <1>2, <2>2 DEF FoundPackageVariable
  <2>3. ASSUME NotFound PROVE FALSE
    <3>1. StartWalk("lexical", Amp(walk.want[2]), 0) \/ walk' = Idle
      BY <2>3 DEF NotFound
    <3> QED
      BY <1>1, <1>2, <3>1
  <2>4. ASSUME WalkOuter \/ WalkToLibrary
        PROVE  /\ walk # Idle /\ walk'.mode = walk.mode /\ walk'.item = walk.item
               /\ walk'.at = frame[walk.at].outer /\ UNCHANGED frame
    <3>1. walk # Idle
      BY <2>4 DEF WalkOuter, WalkToLibrary, Looking, Exporting
    <3>2. walk \in Walk
      BY <3>1, WalkFacts
    <3>3. /\ walk' = [walk EXCEPT !.at = frame[walk.at].outer, !.outer = @ + 1]
          /\ UNCHANGED frame
      BY <2>4 DEF WalkOuter, WalkToLibrary
    <3> QED
      BY <3>1, <3>2, <3>3 DEF Walk
  <2>5. ASSUME WalkOuter PROVE FALSE
    BY <1>1, <2>4, <2>5 DEF WalkOuter, Looking
  <2>6. ASSUME WalkToLibrary PROVE Climbs
    BY <2>4, <2>6 DEF WalkToLibrary, Exporting, Climbs, Climbing
  <2> QED
    BY <1>7, <2>1, <2>2, <2>3, <2>5, <2>6 DEF WalkStep
<1> QED
  BY <1>3, <1>4, <1>5, <1>6, <1>7 DEF Next

LEMMA NextFit ==
  ASSUME Inv, Inv', ExportsFit, Shaped, FramesGrow, [Next]_vars
  PROVE  ExportsFit'
<1>1. ASSUME NEW g \in 1..Len(frame'), NEW i \in 1..Len(frame'[g].exportables)
      PROVE  frame'[g].exportables[i].frame_no # 1
  <2>1. WasExported(g, i) \/ IsExported(g, i)
    BY StepExports
  <2> QED
    BY <2>1 DEF WasExported, IsExported, ExportsFit
<1>2. ASSUME Climbing' PROVE walk'.item # 1
  <2>1. walk' = walk \/ Starts \/ Climbs
    BY <1>2, ClimbSteps
  <2>2. CASE Starts
    <3>1. Len(frame) \in Nat \ {0}
      BY InvFacts DEF Inv
    <3> QED
      BY <2>2, <3>1 DEF Starts
  <2>3. CASE walk' = walk
    BY <1>2, <2>3 DEF ExportsFit, Climbing
  <2>4. CASE Climbs
    BY <2>4 DEF ExportsFit, Climbs
  <2> QED
    BY <2>1, <2>2, <2>3, <2>4
<1> QED
  BY <1>1, <1>2 DEF ExportsFit

(* What was given is still there.                                            *)
LEMMA GivenStays ==
  ASSUME Inv, Inv', FramesGrow, CodesStay, NEW g \in 1..Len(frame), NEW e, e.frame_no # 1,
         Given(g, e)
  PROVE  Given(g, e)'
<1>1. g \in 1..Len(frame')
  <2>1. Len(frame) \in Nat /\ Len(frame') \in Nat
    BY LenProperties DEF Inv, TypeOK
  <2> QED
    BY <2>1 DEF FramesGrow
<1>2. frame[g] \in KijiFrame /\ frame'[g] \in KijiFrame
  BY <1>1, ElementOfSeq DEF Inv, TypeOK
<1>3. Len(frame[g].lexicals) \in Nat /\ Len(frame'[g].lexicals) \in Nat
  BY <1>2, FrameFields
<1>4. Keeps(frame[g], frame'[g])
  BY DEF FramesGrow, Grown
<1>5. \E j \in 1..Len(frame'[g].lexicals) : frame'[g].lexicals[j] = e.name
  <2>1. PICK j \in 1..Len(frame[g].lexicals) : frame[g].lexicals[j] = e.name
    BY DEF Given
  <2>2. j \in 1..Len(frame'[g].lexicals) /\ frame'[g].lexicals[j] = frame[g].lexicals[j]
    BY <1>3, <1>4 DEF Keeps
  <2> QED
    BY <2>1, <2>2
<1>6. \E j \in 1..Len(frame'[g].codes) : frame'[g].codes[j] = e.frame_no
  <2>1. PICK j \in 1..Len(frame[g].codes) : frame[g].codes[j] = e.frame_no
    BY DEF Given
  <2>2. j \in 1..Len(frame'[g].codes) /\ frame'[g].codes[j] = frame[g].codes[j]
    BY <2>1 DEF CodesStay
  <2> QED
    BY <2>1, <2>2
<1> QED
  BY <1>5, <1>6 DEF Given

(* Closing a library gives.                                                  *)
LEMMA ClosingGives ==
  ASSUME Inv, Inv', Codes, FramesGrow, Closes, frame[Top].node = "use", NEW u, u = Top
  PROVE  Brought(u)'
<1> PICK g : g = Parent(Len(open))
  OBVIOUS
<1>1. ClosesOver(g)
  BY DEF Closes
<1>2. /\ g \in 1..Len(frame) /\ u \in 1..Len(frame) /\ frame[u].outer = g
      /\ Current.node = "use"
  BY <1>1, ClosingPlace DEF Codes
<1> DEFINE exports == frame[u].exportables
<1>3. Merges(frame[g], exports, Top, frame'[g])
  BY <1>1, <1>2 DEF ClosesOver, Patches, Takes, Imports
<1>4. g \in 1..Len(frame') /\ frame'[u].outer = g /\ frame'[u].exportables = exports
  BY <1>1, <1>2 DEF ClosesOver, Keeps
<1>5. /\ Len(frame[g].lexicals) \in Nat /\ Len(frame[g].codes) \in Nat /\ Len(exports) \in Nat
  BY <1>2, InvFacts, FrameFields, Exportables DEF Inv
<1> HIDE DEF exports
<1>6. ASSUME NEW i \in 1..Len(exports)
      PROVE  /\ \E j \in 1..Len(frame'[g].lexicals) : frame'[g].lexicals[j] = exports[i].name
             /\ \E j \in 1..Len(frame'[g].codes) : frame'[g].codes[j] = exports[i].frame_no
  <2> DEFINE l == Len(frame[g].lexicals) + i
             c == Len(frame[g].codes) + i
  <2>1. /\ Len(frame'[g].lexicals) = Len(frame[g].lexicals) + Len(exports)
        /\ frame'[g].lexicals[l] = exports[i].name
        /\ Len(frame'[g].codes) = Len(frame[g].codes) + Len(exports) + 1
        /\ frame'[g].codes[c] = exports[i].frame_no
    BY <1>3 DEF Merges
  <2>2. \A m \in Nat, n \in Nat : i \in 1..n => m + i \in 1..(m + n) /\ m + i \in 1..(m + n + 1)
    OBVIOUS
  <2>3. l \in 1..Len(frame'[g].lexicals) /\ c \in 1..Len(frame'[g].codes)
    BY <1>5, <2>1, <2>2
  <2> HIDE DEF l, c
  <2> QED
    BY <2>1, <2>3
<1> QED
  BY <1>4, <1>6 DEF Brought, Given

LEMMA NextBrought ==
  ASSUME Inv, Inv', Codes, ExportsFit, AllBrought, Shaped, FramesGrow, CodesStay, StackMoves
  PROVE  AllBrought'
<1> SUFFICES ASSUME NEW u \in 1..Len(frame'), frame'[u].node = "use", ~ OnStack(u)'
             PROVE  Brought(u)'
  BY DEF AllBrought
<1>1. u \in 1..Len(frame) /\ (~ OnStack(u) \/ (Closes /\ u = Top))
  BY DEF StackMoves
<1>2. frame[u].node = "use" /\ frame'[u].outer = frame[u].outer
  BY <1>1 DEF FramesGrow, Grown, Keeps
<1>3. CASE Closes /\ u = Top
  BY <1>2, <1>3, ClosingGives
<1>4. CASE ~ OnStack(u)
  <2>1. Brought(u)
    BY <1>1, <1>2, <1>4 DEF AllBrought
  <2> PICK g : g = frame[u].outer
    OBVIOUS
  <2>2. g \in 1..Len(frame)
    BY <2>1 DEF Brought
  <2>3. g \in 1..Len(frame')
    <3>1. Len(frame) \in Nat /\ Len(frame') \in Nat
      BY LenProperties DEF Inv, TypeOK
    <3> QED
      BY <2>2, <3>1 DEF FramesGrow
  <2>4. ASSUME NEW i \in 1..Len(frame'[u].exportables)
        PROVE  \E e : e = frame'[u].exportables[i] /\ Given(g, e)'
    <3>1. ~ IsExported(u, i)
      <4>1. SUFFICES ASSUME IsExported(u, i) PROVE FALSE
        OBVIOUS
      <4>2. walk # Idle /\ walk.at = u /\ u # 0
        BY <1>1, <4>1, InvFacts DEF IsExported, Climbing, Inv
      <4>3. Len(frames) - walk.outer \in 1..Len(frames) /\ u = frames[Len(frames) - walk.outer]
        BY <4>2, WalkFacts
      <4>4. DOMAIN frames = 1..Len(frames)
        BY LenProperties DEF Inv, TypeOK
      <4> QED
        BY <1>4, <4>3, <4>4 DEF OnStack
    <3>2. WasExported(u, i)
      BY <3>1, StepExports
    <3> PICK e : e = frame'[u].exportables[i]
      OBVIOUS
    <3>3. i \in 1..Len(frame[u].exportables) /\ e = frame[u].exportables[i]
      BY <3>2 DEF WasExported
    <3>4. Given(g, e) /\ e.frame_no # 1
      BY <1>1, <2>1, <3>3 DEF Brought, ExportsFit
    <3>5. Given(g, e)'
      BY <2>2, <3>4, GivenStays
    <3> QED
      BY <3>5
  <2>5. \A i \in 1..Len(frame'[u].exportables) : Given(g, frame[u].exportables[i])'
    BY <2>4 DEF Given
  <2> QED
    BY <1>2, <2>3, <2>5 DEF Brought
<1> QED
  BY <1>1, <1>3, <1>4

(* While every `use' comes first, only a `use' marks a frame: its own.        *)
LEMMA NextMarksUses ==
  ASSUME Inv, Inv', MarksAreUses, AllFirst', Shaped, FramesGrow
  PROVE  MarksAreUses'
<1> SUFFICES ASSUME NEW f \in 1..Len(frame'), frame'[f].frame_type = "use"
             PROVE  frame'[f].node = "use"
  BY DEF MarksAreUses
<1>1. Len(frame) \in Nat
  BY InvFacts DEF Inv
<1>2. ASSUME f \in 1..Len(frame), frame'[f].frame_type = frame[f].frame_type
      PROVE  frame'[f].node = "use"
  BY <1>2 DEF MarksAreUses, FramesGrow, Grown, Keeps
<1>3. CASE InPlace
  BY <1>2, <1>3 DEF InPlace, Quiet
<1>4. CASE Closes
  BY <1>2, <1>4 DEF Closes, ClosesOver
<1>5. CASE Exports
  BY <1>2, <1>5 DEF Exports, ExportsTo
<1>6. CASE Pushes
  <2>1. PICK h \in Handler : PushedBy(h) /\ NewFrameOf(h, frame'[Len(frame) + 1])
    BY <1>6 DEF Pushes
  <2> PICK u : u = Len(frame) + 1
    OBVIOUS
  <2>2. f \in 1..Len(frame) \/ f = u
    BY <1>1, <2>1 DEF PushedBy
  <2>3. CASE h.node # "use"
    BY <1>2, <2>1, <2>2, <2>3 DEF PushedBy, NewFrameOf
  <2>4. CASE h.node = "use"
    <3>1. OpenUse /\ frame'[u].node = "use"
      BY <2>1, <2>4 DEF PushedBy, NewFrameOf
    <3>2. u \in 1..Len(frame') /\ u > Len(frame)
      BY <1>1, <2>1 DEF PushedBy
    <3>3. NothingClosedBefore(u)'
      BY <3>1, <3>2 DEF AllFirst
    <3>4. \A g \in 1..Len(frame) : frame'[g] = frame[g]
      BY <3>1, <3>2, <3>3, OpenUseHits
    <3> QED
      BY <1>2, <2>2, <3>1, <3>4
  <2> QED
    BY <2>3, <2>4
<1> QED
  BY <1>3, <1>4, <1>5, <1>6 DEF Shaped

LEMMA CollectsStays ==
  ASSUME FramesGrow, NEW g \in 1..Len(frame), Collects(g)
  PROVE  Collects(g)'
BY DEF FramesGrow, Grown, Keeps, Collects

LEMMA NextLead ==
  ASSUME Inv, Inv', Lasting, FirstLead, Shaped, FramesGrow, [Next]_vars
  PROVE  FirstLead'
<1> SUFFICES ASSUME AllFirst' PROVE MarksAreUses' /\ ExportsLead' /\ WalkLeads'
  BY DEF FirstLead
<1>1. AllFirst
  BY FirstEarlier
<1>2. MarksAreUses /\ ExportsLead /\ WalkLeads
  BY <1>1 DEF FirstLead
<1>3. MarksAreUses'
  BY <1>2, NextMarksUses
<1>4. ASSUME NEW g \in 1..Len(frame'), NEW i \in 1..Len(frame'[g].exportables)
      PROVE  \E n : n = frame'[g].exportables[i].frame_no /\ LeadsTo(n, g)' /\ Collects(g)'
  <2>1. WasExported(g, i) \/ IsExported(g, i)
    BY StepExports
  <2> PICK n : n = frame'[g].exportables[i].frame_no
    OBVIOUS
  <2>2. g \in 1..Len(frame) /\ LeadsTo(n, g) /\ Collects(g)
    <3>1. CASE WasExported(g, i)
      BY <1>2, <3>1 DEF WasExported, ExportsLead
    <3>2. CASE IsExported(g, i)
      BY <1>2, <3>2 DEF IsExported, WalkLeads, MarksAreUses, StopsAt, Collects
    <3> QED
      BY <2>1, <3>1, <3>2
  <2>3. LeadsTo(n, g)' /\ Collects(g)'
    BY <2>2, LeadsStays, CollectsStays
  <2> QED
    BY <2>3
<1>5. ExportsLead'
  <2> SUFFICES ASSUME NEW g \in 1..Len(frame'), NEW i \in 1..Len(frame'[g].exportables)
               PROVE  (LeadsTo(frame[g].exportables[i].frame_no, g) /\ Collects(g))'
    BY DEF ExportsLead
  <2>1. PICK n : n = frame'[g].exportables[i].frame_no /\ LeadsTo(n, g)' /\ Collects(g)'
    BY <1>4
  <2>2. PICK k \in Nat : \E c \in [0..k -> Nat] : LeadsBy(n, g, k, c)'
    BY <2>1 DEF LeadsTo
  <2>3. PICK c \in [0..k -> Nat] : LeadsBy(n, g, k, c)'
    BY <2>2
  <2>4. LeadsBy(frame[g].exportables[i].frame_no, g, k, c)'
    BY <2>1, <2>3 DEF LeadsBy
  <2>5. LeadsTo(frame[g].exportables[i].frame_no, g)'
    BY <2>3, <2>4 DEF LeadsTo
  <2> QED
    BY <2>1, <2>5
<1>6. ASSUME Climbing' PROVE \E f, g : f = walk'.item /\ g = walk'.at /\ LeadsTo(f, g)'
  <2>1. walk' = walk \/ Starts \/ Climbs
    BY <1>6, ClimbSteps
  <2> PICK f : f = walk'.item
    OBVIOUS
  <2> PICK g : g = walk'.at
    OBVIOUS
  <2>2. CASE Starts
    <3>1. f \in Nat /\ g = f
      BY <2>2, InvFacts DEF Starts, Inv
    <3> QED
      BY <3>1, LeadsItself
  <2>3. CASE walk' = walk
    <3>1. LeadsTo(f, g)
      BY <1>2, <1>6, <2>3 DEF WalkLeads, Climbing
    <3> QED
      BY <3>1, LeadsStays
  <2>4. CASE Climbs
    <3> PICK a : a = walk.at
      OBVIOUS
    <3>1. a \in 1..Len(frame) /\ frame[a].outer \in Nat
      <4>1. walk # Idle /\ a # 0
        BY <2>4 DEF Climbs, Climbing, Inv, WalkFits
      <4>2. a \in 1..Len(frame)
        BY <4>1, WalkFacts
      <4> QED
        BY <4>2, InvFacts, FrameFields DEF Inv
    <3>2. frame[a].node # "use"
      <4>1. frame[a].frame_type # "use"
        BY <2>4 DEF Climbs, StopsAt
      <4>2. a \in DOMAIN frame
        BY <3>1, LenProperties DEF Inv, TypeOK
      <4> QED
        BY <1>1, <3>1, <4>1, <4>2 DEF AllFirst, Lasting, UseMarksItsFrame
    <3>3. LeadsTo(f, a)
      BY <1>2, <2>4 DEF WalkLeads, Climbs
    <3>4. g = frame[a].outer
      BY <2>4 DEF Climbs
    <3>5. LeadsTo(f, g)
      BY <3>1, <3>2, <3>3, <3>4, LeadsOn
    <3> QED
      BY <3>5, LeadsStays
  <2> QED
    BY <2>1, <2>2, <2>3, <2>4
<1>7. WalkLeads'
  BY <1>6 DEF WalkLeads, LeadsTo, LeadsBy
<1> QED
  BY <1>3, <1>5, <1>7

LEMMA NextImporting ==
  ASSUME Inv, Inv', Lasting, Codes, Importing, [Next]_vars
  PROVE  Importing'
<1>1. Shaped /\ FramesGrow /\ CodesStay /\ StackMoves
  BY NextCodes
<1> QED
  BY <1>1, NextFit, NextBrought, NextLead DEF Importing

LEMMA InitImporting == Init => Importing
<1> SUFFICES ASSUME Init PROVE Importing
  OBVIOUS
<1> DEFINE s == Bind(NewFrame("main", 0), Package)
<1>1. s.exportables = <<>> /\ s.node = "main" /\ s.frame_type = "normal"
  BY DEF Bind, NewFrame
<1>2. frame = <<s>> /\ walk = Idle
  BY DEF Init
<1> HIDE DEF s
<1>3. Len(frame) = 1 /\ frame[1] = s /\ ~ Climbing
  BY <1>2 DEF Climbing
<1>4. \A g \in 1..Len(frame) : frame[g].exportables = <<>> /\ frame[g].node # "use"
                               /\ frame[g].frame_type # "use"
  BY <1>1, <1>3
<1>5. ExportsFit /\ AllBrought
  BY <1>3, <1>4 DEF ExportsFit, AllBrought
<1>6. FirstLead
  BY <1>3, <1>4 DEF FirstLead, MarksAreUses, ExportsLead, WalkLeads
<1> QED
  BY <1>5, <1>6 DEF Importing

LEMMA UsesGive ==
  ASSUME Inv, Importing
  PROVE  FirstUsesImport
<1>1. /\ DOMAIN frame = 1..Len(frame)
      /\ \A f \in 1..Len(frame) : /\ DOMAIN frame[f].codes = 1..Len(frame[f].codes)
                                  /\ DOMAIN frame[f].lexicals = 1..Len(frame[f].lexicals)
                                  /\ DOMAIN frame[f].exportables = 1..Len(frame[f].exportables)
  <2>1. \A f \in 1..Len(frame) : frame[f] \in KijiFrame
    BY InvFacts DEF Inv
  <2> QED
    BY <2>1, FrameFields, LenProperties DEF Inv, TypeOK
<1> SUFFICES ASSUME \A u \in DOMAIN frame : frame[u].node = "use" => NothingClosedBefore(u),
                    NEW u \in DOMAIN frame, FinishedLibrary(u)
             PROVE  Imported(u)
  BY DEF FirstUsesImport
<1>2. AllFirst
  BY <1>1 DEF AllFirst
<1>3. u \in 1..Len(frame) /\ frame[u].node = "use" /\ Brought(u)
  BY <1>1 DEF FinishedLibrary, Importing, AllBrought
<1>4. ASSUME NEW g \in DOMAIN frame, NEW i \in DOMAIN frame[g].exportables,
             IsLibraryOf(u, frame[g].exportables[i].frame_no)
      PROVE  LET e == frame[g].exportables[i] IN
               /\ Declares(frame[u].outer, e.name)
               /\ \E c \in DOMAIN frame[frame[u].outer].codes :
                    frame[frame[u].outer].codes[c] = e.frame_no
  <2>1. g \in 1..Len(frame) /\ i \in 1..Len(frame[g].exportables)
    BY <1>1
  <2>2. LeadsTo(frame[g].exportables[i].frame_no, g) /\ Collects(g)
    BY <1>2, <2>1 DEF Importing, FirstLead, ExportsLead
  <2>3. u = g
    BY <1>3, <1>4, <2>1, <2>2, LeadsToLibrary
  <2>4. frame[u].outer \in 1..Len(frame) /\ Given(frame[u].outer, frame[g].exportables[i])
    BY <1>3, <2>1, <2>3 DEF Brought
  <2> QED
    BY <1>1, <2>4 DEF Given, Declares
<1> QED
  BY <1>4 DEF Imported

(* Importing is an invariant: an exportable sub is entered where its outer     *)
(* frames lead, and a finished library has handed over all it has.            *)
THEOREM Bringing == Spec => []Importing
<1>1. Init => Importing
  BY InitImporting
<1>2. Inv /\ Inv' /\ Lasting /\ Codes /\ Importing /\ [Next]_vars => Importing'
  BY NextImporting
<1> QED
  BY <1>1, <1>2, Invariance, Lastingness, Coding, PTL DEF Spec

(* In a program whose every `use' comes before the first frame is closed, a   *)
(* `use' that has returned has declared every exportable sub of its library   *)
(* in the using frame and named its frame there (Kiji_frame_add_exportable,   *)
(* frame.c; NODE_USE, nd_func.c).                                            *)
THEOREM Importation == Spec => []FirstUsesImport
<1>1. Inv /\ Importing => FirstUsesImport
  BY UsesGive
<1> QED
  BY <1>1, Invariance, Bringing, PTL
=============================================================================
