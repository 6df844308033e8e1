--------------------------- MODULE Frames_proofs ---------------------------
(***************************************************************************)
(* Proofs about Frames: type correctness, the nesting of scopes, that a      *)
(* resumed handler finds its frame, and that a lookup obeys lexical scoping. *)
(***************************************************************************)
EXTENDS Frames, NatSets_proofs, SequenceTheorems, TLAPS

-----------------------------------------------------------------------------
(* What the operators on frame records return.                              *)

(* Record s is r with more in it: the same outer frame, the same code.       *)
Extends(r, s) ==
  /\ s.outer = r.outer
  /\ s.node = r.node
  /\ Len(r.lexicals) <= Len(s.lexicals)
  /\ Len(r.codes) <= Len(s.codes)
  /\ \A i \in 1..Len(r.codes) : s.codes[i] = r.codes[i]

LEMMA KeepsCodes ==
  ASSUME NEW r \in KijiFrame, NEW s \in KijiFrame, Extends(r, s), NEW i \in 1..Len(r.codes)
  PROVE  i \in DOMAIN s.codes /\ s.codes[i] = r.codes[i]
<1>1. r.codes \in Seq(Nat) /\ s.codes \in Seq(Nat)
  BY DEF KijiFrame
<1>2. DOMAIN s.codes = 1..Len(s.codes) /\ Len(s.codes) \in Nat /\ Len(r.codes) \in Nat
  BY <1>1, LenProperties
<1> QED
  BY <1>2 DEF Extends

LEMMA ExtendsItself ==
  ASSUME NEW r \in KijiFrame
  PROVE  Extends(r, r)
  BY LenProperties DEF Extends, KijiFrame

LEMMA NewFrameType ==
  ASSUME NEW node \in FrameNodes, NEW outer \in Nat
  PROVE  /\ NewFrame(node, outer) \in KijiFrame
         /\ NewFrame(node, outer).outer = outer
         /\ NewFrame(node, outer).node = node
  BY DEF NewFrame, KijiFrame

(* Names.                                                                   *)
LEMMA NameTypes ==
  ASSUME NEW id \in Ids
  PROVE  /\ Var(id) \in Name /\ Amp(id) \in Name /\ Bare(id) \in Name
         /\ Var(id) \in LexName /\ Amp(id) \in LexName /\ Bare(id) \in LexName
  BY DEF Var, Amp, Bare, Name, LexName

Refs == [lex : Nat, outer : Nat, name : LexName]

LEMMA FrameFields ==
  ASSUME NEW r \in KijiFrame
  PROVE  /\ r.lexicals \in Seq(LexName) /\ r.refs \subseteq Refs /\ r.codes \in Seq(Nat)
         /\ r.outer \in Nat
         /\ r.exportables \in Seq([name : LexName, frame_no : Nat])
         /\ Len(r.lexicals) \in Nat /\ Len(r.codes) \in Nat
  BY DEF KijiFrame, Refs

(* The fields the handlers change.                                          *)
LEMMA SetLexicals ==
  ASSUME NEW r \in KijiFrame, NEW L \in Seq(LexName)
  PROVE  LET s == [r EXCEPT !.lexicals = L] IN
           /\ s \in KijiFrame /\ s.lexicals = L /\ s.outer = r.outer /\ s.node = r.node
           /\ s.codes = r.codes /\ s.refs = r.refs
  BY DEF KijiFrame

LEMMA SetRefs ==
  ASSUME NEW r \in KijiFrame, NEW R \in SUBSET Refs
  PROVE  LET s == [r EXCEPT !.refs = R] IN
           /\ s \in KijiFrame /\ s.refs = R /\ s.outer = r.outer /\ s.node = r.node
           /\ s.codes = r.codes /\ s.lexicals = r.lexicals
  BY DEF KijiFrame, Refs

LEMMA SetCodes ==
  ASSUME NEW r \in KijiFrame, NEW C \in Seq(Nat)
  PROVE  LET s == [r EXCEPT !.codes = C] IN
           /\ s \in KijiFrame /\ s.codes = C /\ s.outer = r.outer /\ s.node = r.node
           /\ s.refs = r.refs /\ s.lexicals = r.lexicals
  BY DEF KijiFrame

LEMMA DeclareType ==
  ASSUME NEW r \in KijiFrame, NEW n \in LexName
  PROVE  /\ [r EXCEPT !.lexicals = Append(@, n)] \in KijiFrame
         /\ Extends(r, [r EXCEPT !.lexicals = Append(@, n)])
<1>1. Append(r.lexicals, n) \in Seq(LexName)
  BY FrameFields, AppendProperties
<1> DEFINE L == Append(r.lexicals, n)
<1> HIDE DEF L
<1>2. L \in Seq(LexName) /\ Len(L) = Len(r.lexicals) + 1
  BY <1>1, AppendProperties, FrameFields DEF L
<1>3. [r EXCEPT !.lexicals = L] \in KijiFrame /\ Extends(r, [r EXCEPT !.lexicals = L])
  BY <1>2, SetLexicals, FrameFields DEF Extends
<1> QED
  BY <1>3 DEF L

LEMMA RefType ==
  ASSUME NEW l \in Nat, NEW o \in Nat, NEW n \in LexName
  PROVE  Ref(l, o, n) \in Refs
  BY DEF Ref, Refs

LEMMA AddRefType ==
  ASSUME NEW r \in KijiFrame, NEW q \in Refs
  PROVE  /\ [r EXCEPT !.refs = @ \cup {q}] \in KijiFrame
         /\ Extends(r, [r EXCEPT !.refs = @ \cup {q}])
         /\ q \in [r EXCEPT !.refs = @ \cup {q}].refs
<1> DEFINE R == r.refs \cup {q}
<1>1. R \in SUBSET Refs /\ q \in R
  BY FrameFields
<1> HIDE DEF R
<1> DEFINE s == [r EXCEPT !.refs = R]
<1>2. /\ s \in KijiFrame /\ s.refs = R /\ s.outer = r.outer /\ s.node = r.node
      /\ s.codes = r.codes /\ s.lexicals = r.lexicals
  BY <1>1, SetRefs
<1> HIDE DEF s
<1>3. Extends(r, s)
  BY <1>2, FrameFields DEF Extends
<1> QED
  BY <1>1, <1>2, <1>3 DEF R, s

LEMMA BindType ==
  ASSUME NEW r \in KijiFrame, NEW n \in LexName
  PROVE  Bind(r, n) \in KijiFrame /\ Extends(r, Bind(r, n))
<1> DEFINE s == [r EXCEPT !.lexicals = Append(@, n)]
           q == Ref(Len(r.lexicals) + 1, 0, n)
<1>1. q \in Refs
  BY FrameFields, RefType
<1>2. Bind(r, n) = [s EXCEPT !.refs = @ \cup {q}]
  BY DEF Bind, KijiFrame
<1>3. s \in KijiFrame /\ Extends(r, s)
  BY DeclareType
<1> HIDE DEF s, q
<1>4. Bind(r, n) \in KijiFrame /\ Extends(s, Bind(r, n))
  BY <1>1, <1>2, <1>3, AddRefType
<1> QED
  BY SMTT(30), <1>3, <1>4, FrameFields DEF Extends

LEMMA GetCodeType ==
  ASSUME NEW r \in KijiFrame, NEW f \in Nat
  PROVE  /\ GetCode(r, f) \in KijiFrame /\ Extends(r, GetCode(r, f))
         /\ Len(GetCode(r, f).codes) = Len(r.codes) + 1
         /\ GetCode(r, f).codes[Len(r.codes) + 1] = f
<1> DEFINE C == Append(r.codes, f)
<1>1. /\ C \in Seq(Nat) /\ Len(C) = Len(r.codes) + 1
      /\ C[Len(r.codes) + 1] = f
      /\ \A i \in 1..Len(r.codes) : C[i] = r.codes[i]
  BY FrameFields, AppendProperties
<1>2. GetCode(r, f) = [r EXCEPT !.codes = C]
  BY DEF GetCode
<1> HIDE DEF C
<1> QED
  BY <1>1, <1>2, SetCodes, FrameFields DEF Extends

LEMMA ImportType ==
  ASSUME NEW r \in KijiFrame, NEW lib \in Nat,
         NEW exports \in Seq([name : LexName, frame_no : Nat])
  PROVE  Import(r, exports, lib) \in KijiFrame /\ Extends(r, Import(r, exports, lib))
<1> DEFINE n == Len(exports)
           names == [i \in 1..n |-> exports[i].name]
           nos   == [i \in 1..n |-> exports[i].frame_no]
           new   == {Ref(Len(r.lexicals) + i, 0, exports[i].name) : i \in 1..n}
           L == r.lexicals \o names
           R == r.refs \cup new
           D == r.codes \o nos
           C == Append(D, lib)
<1>1. n \in Nat /\ \A i \in 1..n : exports[i].name \in LexName /\ exports[i].frame_no \in Nat
  <2>1. \A i \in 1..n : exports[i] \in [name : LexName, frame_no : Nat]
    BY ElementOfSeq
  <2> QED
    BY <2>1, LenProperties
<1>2. names \in Seq(LexName) /\ nos \in Seq(Nat)
  BY <1>1, SeqDef
<1>3. L \in Seq(LexName) /\ Len(r.lexicals) <= Len(L)
  <2> HIDE DEF names
  <2> QED
    BY <1>2, FrameFields, ConcatProperties, LenProperties
<1>4. new \subseteq Refs
  BY <1>1, FrameFields, RefType
<1>5. R \in SUBSET Refs
  BY <1>4, FrameFields
<1>6. Import(r, exports, lib) = [r EXCEPT !.lexicals = L, !.refs = R, !.codes = C]
  BY DEF Import
<1>7. /\ C \in Seq(Nat) /\ Len(r.codes) <= Len(C)
      /\ \A i \in 1..Len(r.codes) : C[i] = r.codes[i]
  <2> HIDE DEF nos
  <2>1. /\ Len(nos) \in Nat /\ Len(r.codes) \in Nat /\ r.codes \in Seq(Nat)
    BY <1>2, FrameFields, LenProperties
  <2>2. /\ D \in Seq(Nat) /\ Len(D) = Len(r.codes) + Len(nos)
        /\ \A i \in 1..Len(r.codes) : D[i] = r.codes[i]
    BY <1>2, <2>1, ConcatProperties
  <2> HIDE DEF D
  <2> QED
    BY <2>1, <2>2, AppendProperties
<1> HIDE DEF L, R, C
<1>8. [r EXCEPT !.lexicals = L, !.refs = R, !.codes = C] \in KijiFrame
  BY <1>3, <1>5, <1>7, SetLexicals, SetRefs, SetCodes DEF KijiFrame
<1> QED
  BY <1>3, <1>6, <1>7, <1>8 DEF Extends, KijiFrame
(* A declared name has a last entry.                                        *)
LEMMA LexNoProperties ==
  ASSUME NEW f, NEW n, frame[f] \in KijiFrame, Declares(f, n)
  PROVE  /\ LexNo(f, n) \in 1..Len(frame[f].lexicals)
         /\ frame[f].lexicals[LexNo(f, n)] = n
<1> DEFINE L == frame[f].lexicals
           T == {i \in DOMAIN L : L[i] = n}
<1>1. DOMAIN L = 1..Len(L) /\ Len(L) \in Nat
  BY FrameFields, LenProperties
<1>2. T \subseteq Nat /\ T # {} /\ \A i \in T : i <= Len(L)
  BY <1>1 DEF Declares
<1>3. \E i \in T : \A j \in T : j <= i
  BY <1>1, <1>2, MaxNat
<1>4. \E i \in DOMAIN L : L[i] = n /\ \A j \in DOMAIN L : L[j] = n => j <= i
  BY <1>3
<1> QED
  BY <1>1, <1>4 DEF LexNo
-----------------------------------------------------------------------------
(* What the handlers do to the compunit's frames.                           *)

(* Frames t are frames s, some of them extended, and perhaps new ones.       *)
Grows(s, t) ==
  /\ Len(s) <= Len(t)
  /\ \A f \in 1..Len(s) : Extends(s[f], t[f])

LEMMA UpdateFrame ==
  ASSUME NEW s \in Seq(KijiFrame), NEW f \in 1..Len(s), NEW r \in KijiFrame,
         Extends(s[f], r)
  PROVE  LET t == [s EXCEPT ![f] = r] IN
           t \in Seq(KijiFrame) /\ Len(t) = Len(s) /\ t[f] = r /\ Grows(s, t)
<1> DEFINE t == [s EXCEPT ![f] = r]
<1>1. /\ t \in Seq(KijiFrame) /\ Len(t) = Len(s)
      /\ \A g \in 1..Len(s) : t[g] = IF g = f THEN r ELSE s[g]
  BY ExceptSeq
<1>2. \A g \in 1..Len(s) : s[g] \in KijiFrame
  BY ElementOfSeq
<1>3. Len(s) \in Nat
  BY LenProperties
<1> HIDE DEF t
<1>4. \A g \in 1..Len(s) : Extends(s[g], t[g])
  BY <1>1, <1>2, ExtendsItself
<1>5. Grows(s, t)
  BY <1>1, <1>3, <1>4 DEF Grows
<1> QED
  BY <1>1, <1>5 DEF t

LEMMA AppendFrame ==
  ASSUME NEW s \in Seq(KijiFrame), NEW r \in KijiFrame
  PROVE  LET t == Append(s, r) IN
           /\ t \in Seq(KijiFrame) /\ Len(t) = Len(s) + 1 /\ t[Len(s) + 1] = r
           /\ \A f \in 1..Len(s) : t[f] = s[f]
           /\ Grows(s, t)
<1> DEFINE t == Append(s, r)
<1>1. /\ t \in Seq(KijiFrame) /\ Len(t) = Len(s) + 1 /\ t[Len(s) + 1] = r
      /\ \A f \in 1..Len(s) : t[f] = s[f]
  BY AppendProperties
<1>2. \A g \in 1..Len(s) : s[g] \in KijiFrame
  BY ElementOfSeq
<1>3. Len(s) \in Nat
  BY LenProperties
<1> HIDE DEF t
<1>4. Grows(s, t)
  BY <1>1, <1>2, <1>3, ExtendsItself DEF Grows
<1> QED
  BY <1>1, <1>4 DEF t

LEMMA ExtendsTransitive ==
  ASSUME NEW r \in KijiFrame, NEW s \in KijiFrame, NEW t \in KijiFrame,
         Extends(r, s), Extends(s, t)
  PROVE  Extends(r, t)
<1>1. /\ Len(r.codes) \in Nat /\ Len(s.codes) \in Nat /\ Len(t.codes) \in Nat
      /\ Len(r.lexicals) \in Nat /\ Len(s.lexicals) \in Nat /\ Len(t.lexicals) \in Nat
  BY FrameFields
<1>2. Len(r.lexicals) <= Len(t.lexicals)
  BY <1>1 DEF Extends
<1>3. \A i \in 1..Len(r.codes) : i \in 1..Len(s.codes)
  BY <1>1 DEF Extends
<1>4. \A i \in 1..Len(r.codes) : t.codes[i] = r.codes[i]
  BY <1>3 DEF Extends
<1> QED
  BY <1>1, <1>2, <1>4 DEF Extends

LEMMA GrowsTransitive ==
  ASSUME NEW s \in Seq(KijiFrame), NEW t \in Seq(KijiFrame), NEW u \in Seq(KijiFrame),
         Grows(s, t), Grows(t, u)
  PROVE  Grows(s, u)
<1>1. /\ Len(s) \in Nat /\ Len(t) \in Nat /\ Len(u) \in Nat
      /\ Len(s) <= Len(t) /\ Len(t) <= Len(u)
  BY LenProperties DEF Grows
<1>2. ASSUME NEW f \in 1..Len(s)
      PROVE  Extends(s[f], u[f])
  <2>1. f \in 1..Len(t) /\ f \in 1..Len(u)
    BY <1>1
  <2>2. s[f] \in KijiFrame /\ t[f] \in KijiFrame /\ u[f] \in KijiFrame
    BY <2>1, ElementOfSeq
  <2>3. Extends(s[f], t[f]) /\ Extends(t[f], u[f])
    BY <2>1 DEF Grows
  <2> QED
    BY <2>2, <2>3, ExtendsTransitive
<1> QED
  BY <1>1, <1>2 DEF Grows

LEMMA PrefixProperties ==
  ASSUME NEW S, NEW s \in Seq(S), NEW n \in 0..Len(s)
  PROVE  /\ SubSeq(s, 1, n) \in Seq(S) /\ Len(SubSeq(s, 1, n)) = n
         /\ \A i \in 1..n : SubSeq(s, 1, n)[i] = s[i]
<1>1. SubSeq(s, 1, n) \in Seq(S)
  OBVIOUS
<1>2. Len(SubSeq(s, 1, n)) = n
  OBVIOUS
<1>3. ASSUME NEW i \in 1..n PROVE SubSeq(s, 1, n)[i] = s[i]
  OBVIOUS
<1> QED
  BY <1>1, <1>2, <1>3

LEMMA PopProperties ==
  ASSUME NEW S, NEW s \in Seq(S), s # <<>>
  PROVE  /\ Pop(s) \in Seq(S) /\ Len(Pop(s)) = Len(s) - 1 /\ Len(s) \in Nat \ {0}
         /\ \A i \in 1..(Len(s) - 1) : Pop(s)[i] = s[i]
<1>1. Len(s) \in Nat \ {0}
  BY EmptySeq
<1> DEFINE n == Len(s) - 1
<1>2. n \in 0..Len(s)
  BY <1>1
<1> HIDE DEF n
<1>3. /\ SubSeq(s, 1, n) \in Seq(S) /\ Len(SubSeq(s, 1, n)) = n
      /\ \A i \in 1..n : SubSeq(s, 1, n)[i] = s[i]
  BY <1>2, PrefixProperties
<1> QED
  BY <1>1, <1>3 DEF Pop, n
-----------------------------------------------------------------------------
(* The inductive invariant.                                                 *)

(* The handlers were suspended from the root towards the top of the stack,   *)
(* and a `my' about to be bound is a lexical of its frame.                   *)
OpenOrdered ==
  \A i \in DOMAIN open :
    /\ open[i].frame_no \in 1..Len(frame)
    /\ open[i].node \in FrameNodes => Parent(i) < open[i].frame_no
    /\ \A j \in 1..i : open[j].frame_no <= open[i].frame_no
    /\ open[i].node = "my" => open[i].lex \in 1..Len(frame[open[i].frame_no].lexicals)

(* The search for a library stops at the root at the latest, and a bare word *)
(* is an identifier.                                                        *)
WalkFits ==
  walk # Idle => /\ walk.mode = "export" => walk.at # 0
                 /\ walk.mode = "ident"  => walk.want \in Name

Shape == ScopesNest /\ HandlersFindTheirFrame /\ OpenOrdered

Inv == TypeOK /\ Shape /\ WalkFollowsStack /\ WalkFits

(* The same, on the lengths of the sequences.                               *)
LEMMA InvFacts ==
  ASSUME TypeOK, Shape
  PROVE  /\ Len(frame) \in Nat /\ Len(frames) \in Nat \ {0} /\ Len(open) \in Nat
         /\ \A f \in 1..Len(frame) : frame[f] \in KijiFrame
         /\ \A i \in 1..Len(frames) : frames[i] \in 1..Len(frame)
         /\ \A i \in 1..Len(open) : open[i] \in Handler
         /\ Top \in 1..Len(frame)
         /\ 1 \in 1..Len(frame)
         /\ open # <<>> => Len(open) \in 1..Len(open) /\ Current \in Handler
<1>1. /\ frame \in Seq(KijiFrame) /\ frames \in Seq(Nat) /\ open \in Seq(Handler)
  BY DEF TypeOK
<1>2. /\ Len(frame) \in Nat /\ Len(frames) \in Nat /\ Len(open) \in Nat
      /\ DOMAIN frames = 1..Len(frames) /\ DOMAIN frame = 1..Len(frame)
  BY <1>1, LenProperties
<1>3. frames # <<>> /\ frames[1] = 1 /\ \A i \in 1..Len(frames) : frames[i] \in 1..Len(frame)
  <2>1. /\ frames # <<>> /\ frames[1] = 1
        /\ \A i \in DOMAIN frames : frames[i] \in DOMAIN frame
    BY DEF Shape, ScopesNest
  <2> QED
    BY <1>2, <2>1
<1>4. Len(frames) \in Nat \ {0} /\ (open # <<>> => Len(open) \in Nat \ {0})
  BY <1>1, <1>3, EmptySeq
<1>5. \A f \in 1..Len(frame) : frame[f] \in KijiFrame
  BY <1>1, ElementOfSeq
<1>6. \A i \in 1..Len(open) : open[i] \in Handler
  BY <1>1, ElementOfSeq
<1> QED
  BY <1>2, <1>3, <1>4, <1>5, <1>6 DEF Top, Current

(* The handlers' frames, on the lengths of the sequences.                    *)
LEMMA HandlerFacts ==
  ASSUME TypeOK, Shape
  PROVE  /\ \A i \in 1..Len(open) :
              /\ open[i].frame_no \in 1..Len(frame) /\ Parent(i) \in 1..Len(frame)
              /\ open[i].node \in FrameNodes => Parent(i) < open[i].frame_no
              /\ open[i].node \notin FrameNodes => open[i].frame_no = Parent(i)
              /\ \A j \in 1..i : open[j].frame_no <= open[i].frame_no
              /\ open[i].node = "my" =>
                   open[i].lex \in 1..Len(frame[open[i].frame_no].lexicals)
         /\ \A i \in 1..Len(open) : open[i].node \in FrameNodes =>
              /\ frame[open[i].frame_no].outer = Parent(i)
              /\ open[i].node = "func" =>
                   /\ open[i].pos \in 1..Len(frame[Parent(i)].codes)
                   /\ frame[Parent(i)].codes[open[i].pos] = 1
         /\ Top = IF open = <<>> THEN 1 ELSE Current.frame_no
         /\ Parent(Len(open) + 1) = Top
<1>1. /\ Len(frame) \in Nat /\ Len(open) \in Nat /\ 1 \in 1..Len(frame)
      /\ DOMAIN open = 1..Len(open) /\ DOMAIN frame = 1..Len(frame)
  BY InvFacts, LenProperties DEF TypeOK
<1>2. \A i \in 1..Len(open) : open[i].frame_no \in 1..Len(frame)
  BY <1>1 DEF Shape, OpenOrdered
<1>3. \A i \in 1..Len(open) : Parent(i) \in 1..Len(frame)
  BY <1>1, <1>2 DEF Parent
<1>4. \A i \in 1..Len(open) :
        /\ open[i].node \in FrameNodes => Parent(i) < open[i].frame_no
        /\ open[i].node \notin FrameNodes => open[i].frame_no = Parent(i)
        /\ \A j \in 1..i : open[j].frame_no <= open[i].frame_no
        /\ open[i].node = "my" => open[i].lex \in 1..Len(frame[open[i].frame_no].lexicals)
  BY <1>1 DEF Shape, OpenOrdered, HandlersFindTheirFrame
<1>5. ASSUME NEW i \in 1..Len(open), open[i].node \in FrameNodes
      PROVE  /\ frame[open[i].frame_no].outer = Parent(i)
             /\ open[i].node = "func" =>
                  /\ open[i].pos \in 1..Len(frame[Parent(i)].codes)
                  /\ frame[Parent(i)].codes[open[i].pos] = 1
  <2>1. /\ frame[open[i].frame_no].outer = Parent(i)
        /\ open[i].node = "func" =>
             /\ open[i].pos \in DOMAIN frame[Parent(i)].codes
             /\ frame[Parent(i)].codes[open[i].pos] = 1
    BY <1>1, <1>5 DEF Shape, HandlersFindTheirFrame
  <2>2. frame[Parent(i)].codes \in Seq(Nat)
    BY <1>3, InvFacts, FrameFields
  <2> QED
    BY <2>1, <2>2, LenProperties
<1>6. Top = IF open = <<>> THEN 1 ELSE Current.frame_no
  BY DEF Shape, HandlersFindTheirFrame
<1>7. Parent(Len(open) + 1) = Top
  <2>1. open = <<>> => Len(open) = 0
    BY EmptySeq
  <2>2. open # <<>> => Len(open) # 0
    BY EmptySeq DEF TypeOK
  <2> QED
    BY <1>1, <1>6, <2>1, <2>2 DEF Parent, Current
<1> QED
  BY <1>2, <1>3, <1>4, <1>5, <1>6, <1>7

LEMMA HandlersBelowTop ==
  ASSUME TypeOK, Shape
  PROVE  \A j \in 1..Len(open) : open[j].frame_no <= Top
<1>1. CASE open = <<>>
  BY <1>1, EmptySeq
<1>2. CASE open # <<>>
  BY <1>2, InvFacts, HandlerFacts DEF Current
<1> QED
  BY <1>1, <1>2
-----------------------------------------------------------------------------
(* The kinds of step.                                                       *)

(* Every frame stays where it hangs and keeps its lexicals.                  *)
FramesKept ==
  /\ Len(frame) <= Len(frame')
  /\ \A f \in 1..Len(frame) : /\ frame'[f].outer = frame[f].outer
                              /\ Len(frame[f].lexicals) <= Len(frame'[f].lexicals)

LEMMA GrowsKeepsFrames == Grows(frame, frame') => FramesKept
  BY DEF Grows, Extends, FramesKept

(* The conjuncts of HandlersFindTheirFrame and OpenOrdered for one handler.   *)
FindsFrame(i) ==
  IF open[i].node \in FrameNodes
  THEN /\ open[i].frame_no \in DOMAIN frame
       /\ frame[open[i].frame_no].outer = Parent(i)
       /\ open[i].node = "func" =>
            /\ open[i].pos \in DOMAIN frame[Parent(i)].codes
            /\ frame[Parent(i)].codes[open[i].pos] = 1
  ELSE open[i].frame_no = Parent(i)

InOrder(i) ==
  /\ open[i].frame_no \in 1..Len(frame)
  /\ open[i].node \in FrameNodes => Parent(i) < open[i].frame_no
  /\ \A j \in 1..i : open[j].frame_no <= open[i].frame_no
  /\ open[i].node = "my" => open[i].lex \in 1..Len(frame[open[i].frame_no].lexicals)

LEMMA StackNests ==
  ASSUME TypeOK, Shape, TypeOK', Grows(frame, frame'), frames' = frames
  PROVE  ScopesNest'
<1>1. /\ Len(frame) \in Nat /\ Len(frame') \in Nat /\ Len(frame) <= Len(frame')
      /\ DOMAIN frames = 1..Len(frames) /\ DOMAIN frame' = 1..Len(frame')
      /\ Len(frames) \in Nat \ {0}
  BY InvFacts, LenProperties DEF TypeOK, Grows
<1>2. /\ frames # <<>> /\ frames[1] = 1
      /\ \A i \in 1..Len(frames) :
           /\ frames[i] \in 1..Len(frame)
           /\ frame[frames[i]].outer = IF i = 1 THEN 0 ELSE frames[i - 1]
           /\ i > 1 => frames[i - 1] < frames[i]
  BY <1>1, InvFacts DEF Shape, ScopesNest
<1>3. \A f \in 1..Len(frame) : frame'[f].outer = frame[f].outer
  BY DEF Grows, Extends
<1> QED
  BY <1>1, <1>2, <1>3 DEF ScopesNest

LEMMA LexStays ==
  ASSUME TypeOK, Shape, TypeOK', FramesKept, NEW i \in 1..Len(open), open[i].node = "my"
  PROVE  open[i].lex \in 1..Len(frame'[open[i].frame_no].lexicals)
<1> PICK f : f = open[i].frame_no
  OBVIOUS
<1>1. f \in 1..Len(frame) /\ open[i].lex \in 1..Len(frame[f].lexicals)
  BY HandlerFacts
<1>2. f \in 1..Len(frame') /\ Len(frame[f].lexicals) <= Len(frame'[f].lexicals)
  <2>1. Len(frame) \in Nat /\ Len(frame') \in Nat /\ Len(frame) <= Len(frame')
    BY LenProperties DEF FramesKept, TypeOK
  <2>2. Len(frame[f].lexicals) <= Len(frame'[f].lexicals)
    BY <1>1 DEF FramesKept
  <2> QED
    BY <1>1, <2>1, <2>2
<1>3. Len(frame[f].lexicals) \in Nat /\ Len(frame'[f].lexicals) \in Nat
  <2>1. frame[f] \in KijiFrame /\ frame'[f] \in KijiFrame
    BY <1>1, <1>2, ElementOfSeq DEF TypeOK
  <2> QED
    BY <2>1, FrameFields
<1>4. open[i].lex \in 1..Len(frame'[f].lexicals)
  <2> DEFINE lex == open[i].lex
             m   == Len(frame[f].lexicals)
             n   == Len(frame'[f].lexicals)
  <2>1. lex \in 1..m /\ m <= n /\ m \in Nat /\ n \in Nat
    BY <1>1, <1>2, <1>3
  <2> HIDE DEF lex, m, n
  <2>2. lex \in 1..n
    BY <2>1
  <2> QED
    BY <2>2 DEF lex, n
<1> QED
  BY <1>4

(* A handler that stays suspended still finds its frame.                     *)
LEMMA HandlersKept ==
  ASSUME TypeOK, Shape, TypeOK', FramesKept,
         NEW i \in 1..Len(open), i \in 1..Len(open'),
         Extends(frame[Parent(i)], frame'[Parent(i)]),
         \A j \in 1..i : /\ open'[j].node = open[j].node
                         /\ open'[j].frame_no = open[j].frame_no
                         /\ open'[j].pos = open[j].pos
                         /\ open'[j].lex = open[j].lex
  PROVE  FindsFrame(i)' /\ InOrder(i)'
<1>1. /\ Len(frame) \in Nat /\ Len(frame') \in Nat /\ Len(frame) <= Len(frame')
      /\ DOMAIN frame' = 1..Len(frame') /\ Len(open) \in Nat
  BY InvFacts, LenProperties DEF TypeOK, FramesKept
<1>2. Parent(i)' = Parent(i)
  BY <1>1 DEF Parent
<1>3. /\ Parent(i) \in 1..Len(frame) /\ open[i].frame_no \in 1..Len(frame)
      /\ open[i].node \in FrameNodes => Parent(i) < open[i].frame_no
      /\ open[i].node \notin FrameNodes => open[i].frame_no = Parent(i)
      /\ \A j \in 1..i : open[j].frame_no <= open[i].frame_no
      /\ open[i].node \in FrameNodes =>
           /\ frame[open[i].frame_no].outer = Parent(i)
           /\ open[i].node = "func" =>
                /\ open[i].pos \in 1..Len(frame[Parent(i)].codes)
                /\ frame[Parent(i)].codes[open[i].pos] = 1
  BY HandlerFacts
<1>4. \A f \in 1..Len(frame) : frame'[f].outer = frame[f].outer
  BY DEF FramesKept
<1>5. open[i].node = "func" =>
        /\ open[i].pos \in DOMAIN frame'[Parent(i)].codes
        /\ frame'[Parent(i)].codes[open[i].pos] = 1
  <2>1. Parent(i) \in 1..Len(frame') /\ frame'[Parent(i)] \in KijiFrame
    BY <1>1, <1>3, ElementOfSeq DEF TypeOK
  <2>2. frame[Parent(i)] \in KijiFrame
    BY <1>3, InvFacts
  <2>3. open[i].node = "func" =>
          /\ open[i].pos \in 1..Len(frame[Parent(i)].codes)
          /\ frame[Parent(i)].codes[open[i].pos] = 1
    BY <1>3 DEF FrameNodes
  <2> QED
    BY <2>1, <2>2, <2>3, KeepsCodes
<1>6. open[i].node = "my" => open[i].lex \in 1..Len(frame'[open[i].frame_no].lexicals)
  BY LexStays
<1> QED
  BY SMTT(30), <1>1, <1>2, <1>3, <1>4, <1>5, <1>6 DEF FindsFrame, InOrder

(* A step that neither suspends nor resumes a handler.                      *)
LEMMA StepInPlace ==
  ASSUME TypeOK, Shape, TypeOK', Grows(frame, frame'), frames' = frames,
         Len(open') = Len(open),
         \A j \in 1..Len(open) : /\ open'[j].node = open[j].node
                                 /\ open'[j].frame_no = open[j].frame_no
                                 /\ open'[j].pos = open[j].pos
                                 /\ open'[j].lex = open[j].lex
  PROVE  Shape'
<1>1. ScopesNest'
  BY StackNests
<1>2. Len(open) \in Nat /\ DOMAIN open' = 1..Len(open)
  BY InvFacts, LenProperties DEF TypeOK
<1>3. \A i \in 1..Len(open) : i \in 1..Len(open') /\ \A j \in 1..i : j \in 1..Len(open)
  BY <1>2
<1>4. \A i \in DOMAIN open' :
        FindsFrame(i)' /\ InOrder(i)'
  <2>1. \A i \in 1..Len(open) : Extends(frame[Parent(i)], frame'[Parent(i)])
    BY HandlerFacts DEF Grows
  <2> QED
    BY <1>2, <1>3, <2>1, GrowsKeepsFrames, HandlersKept
<1>5. Top' = IF open' = <<>> THEN 1 ELSE Current'.frame_no
  <2>1. Top' = Top
    BY DEF Top
  <2>2. Top = IF open = <<>> THEN 1 ELSE Current.frame_no
    BY HandlerFacts
  <2>3. (open' = <<>>) <=> (open = <<>>)
    BY EmptySeq, <1>2 DEF TypeOK
  <2>4. open # <<>> => Current'.frame_no = Current.frame_no
    BY InvFacts DEF Current
  <2> QED
    BY <2>1, <2>2, <2>3, <2>4
<1>6. HandlersFindTheirFrame'
  BY <1>4, <1>5 DEF HandlersFindTheirFrame, FindsFrame
<1>7. OpenOrdered'
  BY <1>4 DEF OpenOrdered, InOrder
<1> QED
  BY <1>1, <1>6, <1>7 DEF Shape

(* A handler that pushes no frame suspends itself.                          *)
LEMMA StepSuspend ==
  ASSUME TypeOK, Shape, TypeOK', Grows(frame, frame'), frames' = frames,
         NEW h \in Handler, open' = Append(open, h),
         h.node \notin FrameNodes, h.frame_no = Top,
         h.node = "my" => h.lex \in 1..Len(frame'[Top].lexicals)
  PROVE  Shape'
<1>1. ScopesNest'
  BY StackNests
<1> PICK n : n = Len(open) + 1
  OBVIOUS
<1>2. /\ Len(open) \in Nat /\ Len(open') = n /\ DOMAIN open' = 1..n /\ open'[n] = h
      /\ \A i \in 1..Len(open) : open'[i] = open[i]
      /\ open' # <<>> /\ Len(frame) \in Nat /\ Len(frame') \in Nat /\ Len(frame) <= Len(frame')
  BY SMTT(30), InvFacts, AppendProperties, LenProperties, EmptySeq DEF TypeOK, Grows
<1>3. Top' = Top /\ Current' = h /\ Parent(n)' = Top /\ Top \in 1..Len(frame)
  <2>1. Parent(n) = Top
    BY HandlerFacts
  <2> QED
    BY <1>2, <2>1, InvFacts DEF Top, Current, Parent
<1>4. \A i \in 1..Len(open) :
        FindsFrame(i)' /\ InOrder(i)'
  <2>1. \A i \in 1..Len(open) : Extends(frame[Parent(i)], frame'[Parent(i)])
    BY HandlerFacts DEF Grows
  <2>2. \A i \in 1..Len(open) : i \in 1..Len(open') /\ \A j \in 1..i : j \in 1..Len(open)
    BY <1>2
  <2> QED
    BY <1>2, <2>1, <2>2, GrowsKeepsFrames, HandlersKept
<1>5. FindsFrame(n)'
  BY <1>2, <1>3 DEF FindsFrame
<1>6. \A j \in 1..n : open'[j].frame_no <= open'[n].frame_no
  <2>1. \A j \in 1..Len(open) : open[j].frame_no <= Top
    BY HandlersBelowTop
  <2> QED
    BY <1>2, <1>3, <2>1
<1>7. InOrder(n)'
  BY <1>2, <1>3, <1>6 DEF InOrder
<1>8. \A i \in DOMAIN open' : FindsFrame(i)' /\ InOrder(i)'
  BY <1>2, <1>4, <1>5, <1>7
<1>9. HandlersFindTheirFrame'
  BY <1>2, <1>3, <1>8 DEF HandlersFindTheirFrame, FindsFrame
<1> QED
  BY <1>1, <1>8, <1>9 DEF Shape, OpenOrdered, InOrder

(* A handler that pushed no frame resumes and returns.                      *)
LEMMA StepResume ==
  ASSUME TypeOK, Shape, TypeOK', Grows(frame, frame'), frames' = frames,
         open # <<>>, open' = Pop(open), Current.node \notin FrameNodes
  PROVE  Shape'
<1>1. ScopesNest'
  BY StackNests
<1> DEFINE n == Len(open) - 1
<1>2. /\ n \in Nat /\ Len(open) = n + 1 /\ Len(open') = n /\ DOMAIN open' = 1..n
      /\ \A i \in 1..n : open'[i] = open[i]
      /\ n + 1 \in 1..Len(open)
  BY InvFacts, PopProperties, LenProperties DEF TypeOK
<1>3. \A i \in DOMAIN open' :
        FindsFrame(i)' /\ InOrder(i)'
  <2>1. \A i \in 1..Len(open) : Extends(frame[Parent(i)], frame'[Parent(i)])
    BY HandlerFacts DEF Grows
  <2>2. \A i \in 1..n : /\ i \in 1..Len(open) /\ i \in 1..Len(open')
                        /\ \A j \in 1..i : j \in 1..n
    BY <1>2
  <2> QED
    BY <1>2, <2>1, <2>2, GrowsKeepsFrames, HandlersKept
<1>4. Top' = IF open' = <<>> THEN 1 ELSE Current'.frame_no
  <2>1. Top' = Top /\ Top = Current.frame_no
    BY HandlerFacts DEF Top
  <2>2. Current.frame_no = Parent(n + 1)
    BY <1>2, HandlerFacts DEF Current
  <2>3. (open' = <<>>) <=> (n = 0)
    BY <1>2, EmptySeq DEF TypeOK
  <2> QED
    BY <1>2, <2>1, <2>2, <2>3 DEF Parent, Current
<1>5. HandlersFindTheirFrame'
  BY <1>3, <1>4 DEF HandlersFindTheirFrame, FindsFrame
<1>6. OpenOrdered'
  BY <1>3 DEF OpenOrdered, InOrder
<1> QED
  BY <1>1, <1>5, <1>6 DEF Shape

(* A handler pushes a frame and suspends itself.                            *)
LEMMA StepPush ==
  ASSUME TypeOK, Shape, TypeOK', Grows(frame, frame'),
         Len(frame') = Len(frame) + 1, frame'[Len(frame) + 1].outer = Top,
         frames' = Append(frames, Len(frame) + 1),
         NEW h \in Handler, open' = Append(open, h),
         h.node \in FrameNodes, h.frame_no = Len(frame) + 1,
         h.node = "func" => /\ h.pos \in DOMAIN frame'[Top].codes
                            /\ frame'[Top].codes[h.pos] = 1
  PROVE  Shape'
<1> PICK n : n = Len(open) + 1
  OBVIOUS
<1> PICK m : m = Len(frames) + 1
  OBVIOUS
<1>1. /\ Len(open) \in Nat /\ Len(open') = n /\ DOMAIN open' = 1..n /\ open'[n] = h
      /\ \A i \in 1..Len(open) : open'[i] = open[i]
      /\ open' # <<>>
  <2>1. open \in Seq(Handler) /\ Len(open) \in Nat
    BY InvFacts DEF TypeOK
  <2>2. /\ open' \in Seq(Handler) /\ Len(open') = n /\ open'[n] = h
        /\ \A i \in 1..Len(open) : open'[i] = open[i]
    BY <2>1, AppendProperties
  <2> QED
    BY <2>1, <2>2, LenProperties, EmptySeq
<1>2. /\ Len(frame) \in Nat /\ DOMAIN frame' = 1..(Len(frame) + 1) /\ Top \in 1..Len(frame)
  BY InvFacts, LenProperties DEF TypeOK
<1>3. /\ Len(frames) \in Nat \ {0} /\ Len(frames') = m /\ DOMAIN frames' = 1..m
      /\ frames'[m] = Len(frame) + 1
      /\ \A i \in 1..Len(frames) : frames'[i] = frames[i]
      /\ frames' # <<>>
  <2>1. frames \in Seq(Nat) /\ Len(frame) + 1 \in Nat
    BY <1>2 DEF TypeOK
  <2> QED
    BY <2>1, InvFacts, AppendProperties, LenProperties, EmptySeq
<1>4. Top' = Len(frame) + 1 /\ Current' = h /\ Parent(n)' = Top
  <2>1. Parent(n) = Top
    BY HandlerFacts
  <2>2. Parent(n)' = Parent(n)
    BY <1>1 DEF Parent
  <2> QED
    BY <1>1, <1>3, <2>1, <2>2 DEF Top, Current
<1>5. FramesKept
  BY GrowsKeepsFrames
<1>6. ScopesNest'
  <2>1. /\ frames[1] = 1
        /\ \A i \in 1..Len(frames) :
             /\ frames[i] \in 1..Len(frame)
             /\ frame[frames[i]].outer = IF i = 1 THEN 0 ELSE frames[i - 1]
             /\ i > 1 => frames[i - 1] < frames[i]
    BY InvFacts, <1>3, LenProperties DEF Shape, ScopesNest, TypeOK
  <2>2. ASSUME NEW i \in 1..Len(frames)
        PROVE  /\ frames'[i] \in DOMAIN frame'
               /\ frame'[frames'[i]].outer = IF i = 1 THEN 0 ELSE frames'[i - 1]
               /\ i > 1 => frames'[i - 1] < frames'[i]
    <3>1. /\ frames'[i] = frames[i] /\ frames[i] \in 1..Len(frame)
          /\ i # 1 => frames'[i - 1] = frames[i - 1]
      BY <1>3, <2>1
    <3>2. frame'[frames[i]].outer = frame[frames[i]].outer
      BY <1>5, <3>1 DEF FramesKept
    <3>3. frames[i] \in DOMAIN frame'
      BY <1>2, <3>1
    <3> QED
      BY SMTT(30), <2>1, <3>1, <3>2, <3>3
  <2>3. /\ frames'[m] \in DOMAIN frame'
        /\ frame'[frames'[m]].outer = IF m = 1 THEN 0 ELSE frames'[m - 1]
        /\ m > 1 => frames'[m - 1] < frames'[m]
    BY <1>2, <1>3 DEF Top
  <2> QED
    BY SMTT(30), <1>3, <2>1, <2>2, <2>3 DEF ScopesNest
<1>7. \A i \in 1..Len(open) : FindsFrame(i)' /\ InOrder(i)'
  <2>1. \A i \in 1..Len(open) : Extends(frame[Parent(i)], frame'[Parent(i)])
    BY HandlerFacts DEF Grows
  <2>2. \A i \in 1..Len(open) : i \in 1..Len(open') /\ \A j \in 1..i : j \in 1..Len(open)
    BY <1>1
  <2> QED
    BY <1>1, <1>5, <2>1, <2>2, HandlersKept
<1>8. FindsFrame(n)'
  BY <1>1, <1>2, <1>4 DEF FindsFrame
<1>9. InOrder(n)'
  <2>1. \A j \in 1..Len(open) : open'[j].frame_no <= open'[n].frame_no
    <3>1. \A j \in 1..Len(open) : open[j].frame_no \in 1..Len(frame)
      BY HandlerFacts
    <3> QED
      BY <1>1, <1>2, <3>1
  <2>2. \A j \in 1..n : j \in 1..Len(open) \/ j = n
    BY <1>1
  <2>3. open'[n].frame_no = Len(frame) + 1 /\ Len(frame) + 1 \in 1..Len(frame')
    BY <1>1, <1>2
  <2>4. \A j \in 1..n : open'[j].frame_no <= open'[n].frame_no
    BY <1>2, <2>1, <2>2, <2>3
  <2>5. open'[n].node # "my"
    BY <1>1 DEF FrameNodes
  <2> QED
    BY <1>2, <1>4, <2>3, <2>4, <2>5 DEF InOrder
<1>10. \A i \in DOMAIN open' : FindsFrame(i)' /\ InOrder(i)'
  <2>1. \A i \in DOMAIN open' : i \in 1..Len(open) \/ i = n
    BY <1>1
  <2> QED
    BY <1>7, <1>8, <1>9, <2>1
<1>11. HandlersFindTheirFrame'
  BY <1>1, <1>4, <1>10 DEF HandlersFindTheirFrame, FindsFrame
<1> QED
  BY <1>6, <1>10, <1>11 DEF Shape, OpenOrdered, InOrder

(* A handler pops the frame it pushed, writes in the frame below and returns.*)
LEMMA StepPop ==
  ASSUME TypeOK, Shape, TypeOK', FramesKept,
         open # <<>>, Current.node \in FrameNodes,
         frames' = Pop(frames), open' = Pop(open),
         \A f \in 1..Len(frame) : f # Parent(Len(open)) => Extends(frame[f], frame'[f])
  PROVE  Shape'
<1> PICK n : n = Len(open) - 1
  OBVIOUS
<1> PICK m : m = Len(frames) - 1
  OBVIOUS
<1>1. /\ n \in Nat /\ Len(open) = n + 1 /\ Len(open') = n /\ DOMAIN open' = 1..n
      /\ \A i \in 1..n : open'[i] = open[i]
      /\ n + 1 \in 1..Len(open)
  <2>1. open \in Seq(Handler)
    BY DEF TypeOK
  <2>2. /\ open' \in Seq(Handler) /\ Len(open') = n /\ Len(open) \in Nat \ {0}
        /\ \A i \in 1..n : open'[i] = open[i]
    BY <2>1, PopProperties
  <2> QED
    BY <2>2, LenProperties
<1>2. /\ Len(frame) \in Nat /\ Len(frame') \in Nat /\ Len(frame) <= Len(frame')
      /\ DOMAIN frame' = 1..Len(frame')
  BY InvFacts, LenProperties DEF TypeOK, FramesKept
<1>3. /\ frames[1] = 1 /\ frames # <<>>
      /\ \A i \in 1..Len(frames) :
           /\ frames[i] \in 1..Len(frame)
           /\ frame[frames[i]].outer = IF i = 1 THEN 0 ELSE frames[i - 1]
           /\ i > 1 => frames[i - 1] < frames[i]
  BY InvFacts, LenProperties DEF Shape, ScopesNest, TypeOK
<1>4. /\ Top = Current.frame_no /\ frame[Top].outer = Parent(n + 1)
      /\ Parent(n + 1) \in 1..Len(frame)
  BY <1>1, HandlerFacts DEF Current
<1>5. /\ m \in Nat /\ Len(frames) = m + 1 /\ Len(frames') = m
      /\ \A i \in 1..m : frames'[i] = frames[i]
      /\ frames' \in Seq(Nat)
  <2>1. frames \in Seq(Nat)
    BY DEF TypeOK
  <2>2. /\ Pop(frames) \in Seq(Nat) /\ Len(Pop(frames)) = m /\ Len(frames) \in Nat \ {0}
        /\ \A i \in 1..m : Pop(frames)[i] = frames[i]
    BY <1>3, <2>1, PopProperties
  <2> QED
    BY <2>2
<1>6. m # 0 /\ frames[m] = Parent(n + 1)
  <2>1. Len(frames) \in 1..Len(frames) /\ Len(frames) - 1 = m
    BY <1>5
  <2>2. frame[frames[Len(frames)]].outer = IF Len(frames) = 1 THEN 0 ELSE frames[m]
    BY <1>3, <2>1
  <2>3. Parent(n + 1) = IF m = 0 THEN 0 ELSE frames[m]
    BY <1>4, <1>5, <2>2 DEF Top
  <2> QED
    BY <1>4, <2>3
<1>7. /\ DOMAIN frames' = 1..m /\ frames' # <<>>
      /\ Top' = Parent(n + 1)
  <2>1. Top' = frames'[m]
    BY <1>5 DEF Top
  <2>2. m \in 1..m
    BY <1>5, <1>6
  <2> QED
    BY <1>5, <1>6, <2>1, <2>2, LenProperties, EmptySeq
<1>8. ScopesNest'
  <2>1. ASSUME NEW i \in 1..m
        PROVE  /\ frames'[i] \in DOMAIN frame'
               /\ frame'[frames'[i]].outer = IF i = 1 THEN 0 ELSE frames'[i - 1]
               /\ i > 1 => frames'[i - 1] < frames'[i]
    <3>1. /\ i \in 1..Len(frames) /\ frames'[i] = frames[i] /\ frames[i] \in 1..Len(frame)
          /\ i # 1 => frames'[i - 1] = frames[i - 1]
      BY <1>3, <1>5
    <3>2. frame'[frames[i]].outer = frame[frames[i]].outer
      BY <3>1 DEF FramesKept
    <3>3. frames[i] \in DOMAIN frame'
      BY <1>2, <3>1
    <3> QED
      BY <1>3, <3>1, <3>2, <3>3
  <2>2. frames'[1] = 1
    BY <1>3, <1>5, <1>6
  <2> QED
    BY <1>7, <2>1, <2>2 DEF ScopesNest
<1>9. \A i \in DOMAIN open' : FindsFrame(i)' /\ InOrder(i)'
  <2>1. ASSUME NEW i \in 1..n
        PROVE  FindsFrame(i)' /\ InOrder(i)'
    <3>1. /\ i \in 1..Len(open) /\ i \in 1..Len(open')
          /\ \A j \in 1..i : open'[j] = open[j]
      BY <1>1
    <3>2. Parent(i) \in 1..Len(frame)
      BY <3>1, HandlerFacts
    <3>3. CASE open[i].node \in FrameNodes
      <4>1. Parent(i) # Parent(n + 1)
        <5>1. Parent(n + 1) = open[n].frame_no /\ n \in 1..Len(open) /\ i \in 1..n
          BY <1>1 DEF Parent
        <5>2. /\ Parent(i) < open[i].frame_no /\ open[i].frame_no <= open[n].frame_no
              /\ open[i].frame_no \in Nat /\ open[n].frame_no \in Nat /\ Parent(i) \in Nat
          <6>1. /\ Parent(i) \in 1..Len(frame) /\ open[i].frame_no \in 1..Len(frame)
                /\ Parent(i) < open[i].frame_no
            BY <3>1, <3>3, HandlerFacts
          <6>2. /\ open[n].frame_no \in 1..Len(frame)
                /\ open[i].frame_no <= open[n].frame_no
            BY <5>1, HandlerFacts
          <6> QED
            BY <1>2, <6>1, <6>2
        <5> QED
          BY <5>1, <5>2
      <4> QED
        BY <1>1, <3>1, <3>2, <4>1, HandlersKept
    <3>4. CASE open[i].node \notin FrameNodes
      <4>1. /\ open[i].frame_no \in 1..Len(frame) /\ open[i].frame_no = Parent(i)
            /\ \A j \in 1..i : open[j].frame_no <= open[i].frame_no
        BY <3>1, <3>4, HandlerFacts
      <4>2. Parent(i)' = Parent(i)
        BY <1>1, <3>1 DEF Parent
      <4>3. open[i].node = "my" => open[i].lex \in 1..Len(frame'[open[i].frame_no].lexicals)
        BY <3>1, LexStays
      <4> QED
        BY SMTT(30), <1>2, <3>1, <3>4, <4>1, <4>2, <4>3 DEF FindsFrame, InOrder
    <3> QED
      BY <3>3, <3>4
  <2> QED
    BY <1>1, <2>1
<1>10. Top' = IF open' = <<>> THEN 1 ELSE Current'.frame_no
  <2>1. (open' = <<>>) <=> (n = 0)
    BY <1>1, EmptySeq DEF TypeOK
  <2> QED
    BY <1>1, <1>7, <2>1 DEF Parent, Current
<1>11. HandlersFindTheirFrame'
  BY <1>9, <1>10 DEF HandlersFindTheirFrame, FindsFrame
<1> QED
  BY <1>8, <1>9, <1>11 DEF Shape, OpenOrdered, InOrder
-----------------------------------------------------------------------------
(* Facts several actions use.                                               *)

LEMMA VisitFacts ==
  ASSUME TypeOK, NEW kind, Visit(kind)
  PROVE  nodes' \in 0..MaxNodes /\ walk = Idle /\ status \in Statuses /\ nodes \in 0..MaxNodes
  BY BoundsAssumption DEF TypeOK, Visit, CanCompileChild, Running

LEMMA IdleFollows ==
  ASSUME walk' = Idle
  PROVE  WalkFollowsStack' /\ WalkFits'
  BY DEF WalkFollowsStack, WalkFits

LEMMA WalkType ==
  ASSUME NEW mode \in {"variable", "lexical", "ident", "export"}, NEW n \in LexName,
         NEW at \in Nat, NEW outer \in Nat, NEW item \in Nat
  PROVE  [mode |-> mode, want |-> n, at |-> at, outer |-> outer, item |-> item]
           \in Walk \cup {Idle}
  BY DEF Walk

(* A lookup that starts at the top has passed no frame.                     *)
LEMMA StartFollows ==
  ASSUME TypeOK', Shape', NEW mode, NEW n, NEW item, mode = "ident" => n \in Name,
         walk' = [mode |-> mode, want |-> n, at |-> Top', outer |-> 0, item |-> item]
  PROVE  WalkFollowsStack' /\ WalkFits'
<1>1. Len(frames') \in Nat \ {0} /\ Top' \in 1..Len(frame') /\ Len(frame') \in Nat
  <2>1. /\ frames' \in Seq(Nat) /\ frames' # <<>> /\ Len(frame') \in Nat
        /\ DOMAIN frame' = 1..Len(frame')
        /\ \A i \in DOMAIN frames' : frames'[i] \in DOMAIN frame'
    BY LenProperties DEF TypeOK, Shape, ScopesNest
  <2>2. Len(frames') \in Nat \ {0} /\ DOMAIN frames' = 1..Len(frames')
    BY <2>1, EmptySeq, LenProperties
  <2> QED
    BY <2>1, <2>2 DEF Top
<1>2. walk'.at = Top' /\ walk'.outer = 0
  OBVIOUS
<1>3. Top' = frames'[Len(frames') - 0]
  BY <1>1 DEF Top
<1>4. (Len(frames') - 0 + 1)..Len(frames') = {}
  BY <1>1
<1>5. 0 <= Len(frames') /\ 0 # Len(frames')
  BY <1>1
<1>6. WalkFollowsStack'
  BY <1>2, <1>3, <1>4, <1>5, Zenon DEF WalkFollowsStack
<1>7. walk'.at # 0 /\ (walk'.mode = "ident" => walk'.want \in Name)
  BY <1>1, <1>2
<1> QED
  BY <1>6, <1>7 DEF WalkFits

(* What an action that writes in the top frame leaves behind.               *)
LEMMA UpdateTop ==
  ASSUME TypeOK, Shape, NEW r \in KijiFrame, Extends(frame[Top], r)
  PROVE  LET t == [frame EXCEPT ![Top] = r] IN
           t \in Seq(KijiFrame) /\ Len(t) = Len(frame) /\ t[Top] = r /\ Grows(frame, t)
<1>1. frame \in Seq(KijiFrame) /\ Top \in 1..Len(frame)
  BY InvFacts DEF TypeOK
<1> QED
  BY <1>1, UpdateFrame

LEMMA OurType ==
  ASSUME NEW r \in KijiFrame, NEW n \in Name
  PROVE  LET s == [r EXCEPT !.package_variables = @ \cup {n}] IN
           s \in KijiFrame /\ Extends(r, s)
<1> DEFINE P == r.package_variables \cup {n}
<1>1. P \in SUBSET Name
  BY DEF KijiFrame
<1> HIDE DEF P
<1> DEFINE s == [r EXCEPT !.package_variables = P]
<1>2. /\ s \in KijiFrame /\ s.outer = r.outer /\ s.node = r.node
      /\ s.codes = r.codes /\ s.lexicals = r.lexicals
  BY <1>1 DEF KijiFrame
<1> HIDE DEF s
<1>3. Extends(r, s)
  BY <1>2, FrameFields DEF Extends
<1> QED
  BY <1>2, <1>3 DEF s, P

(* A step that writes in the top frame and nothing else but `nodes'.         *)
LEMMA WriteTop ==
  ASSUME Inv, NEW r \in KijiFrame, Extends(frame[Top], r),
         frame' = [frame EXCEPT ![Top] = r],
         walk' = Idle, nodes' \in 0..MaxNodes, UNCHANGED <<frames, open, status>>
  PROVE  Inv'
<1> USE DEF Inv
<1>1. frame' \in Seq(KijiFrame) /\ Grows(frame, frame')
  BY UpdateTop
<1>2. TypeOK'
  BY <1>1 DEF TypeOK
<1>3. Shape'
  BY <1>1, <1>2, StepInPlace
<1> QED
  BY <1>2, <1>3, IdleFollows
-----------------------------------------------------------------------------
(* The invariant is preserved, action by action.                            *)

LEMMA TopIsFrame ==
  ASSUME Inv
  PROVE  frame[Top] \in KijiFrame /\ Top \in DOMAIN frame /\ Top \in 1..Len(frame)
  BY InvFacts, LenProperties DEF Inv, TypeOK

LEMMA OurPreserves ==
  ASSUME Inv, NEW id \in Ids, Our(id)
  PROVE  Inv'
<1> DEFINE r == [frame[Top] EXCEPT !.package_variables = @ \cup {Var(id)}]
<1>1. r \in KijiFrame /\ Extends(frame[Top], r)
  BY TopIsFrame, NameTypes, OurType
<1>2. frame' = [frame EXCEPT ![Top] = r]
  BY TopIsFrame DEF Our
<1> HIDE DEF r
<1> QED
  BY <1>1, <1>2, WriteTop, VisitFacts DEF Our, Inv

LEMMA MyPreserves ==
  ASSUME Inv, NEW id \in Ids, My(id)
  PROVE  Inv'
<1> DEFINE r == [frame[Top] EXCEPT !.lexicals = Append(@, Var(id))]
<1>1. r \in KijiFrame /\ Extends(frame[Top], r)
  BY TopIsFrame, NameTypes, DeclareType
<1>2. frame' = [frame EXCEPT ![Top] = r]
  BY TopIsFrame DEF My
<1> HIDE DEF r
<1> QED
  BY <1>1, <1>2, WriteTop, VisitFacts DEF My, Inv

LEMMA DeclareBoundPreserves ==
  ASSUME Inv, NEW n \in LexName, DeclareBound(n)
  PROVE  Inv'
<1> DEFINE r == Bind(frame[Top], n)
<1>1. r \in KijiFrame /\ Extends(frame[Top], r)
  BY TopIsFrame, BindType
<1>2. frame' = [frame EXCEPT ![Top] = r]
  BY TopIsFrame DEF DeclareBound
<1> HIDE DEF r
<1> QED
  BY <1>1, <1>2, WriteTop, VisitFacts DEF DeclareBound, Inv

(* What Suspend appends to the handlers.                                    *)
LEMMA SuspendType ==
  ASSUME TypeOK, NEW node \in Nodes, NEW f \in Nat, NEW pos \in Nat, NEW todo \in Nat,
         NEW lex \in Nat, Suspend(node, f, pos, todo, lex)
  PROVE  \E h \in Handler : /\ open' = Append(open, h) /\ open' \in Seq(Handler)
                            /\ h.node = node /\ h.frame_no = f /\ h.pos = pos /\ h.lex = lex
<1> DEFINE h == [node |-> node, frame_no |-> f, pos |-> pos, todo |-> todo, lex |-> lex]
<1>1. h \in Handler /\ h.node = node /\ h.frame_no = f /\ h.pos = pos /\ h.lex = lex
  BY DEF Handler
<1>2. open' = Append(open, h)
  BY DEF Suspend
<1> HIDE DEF h
<1>3. Append(open, h) \in Seq(Handler)
  BY <1>1, AppendProperties DEF TypeOK
<1> QED
  BY <1>1, <1>2, <1>3

LEMMA OpenBindMyPreserves ==
  ASSUME Inv, NEW id \in Ids, OpenBindMy(id)
  PROVE  Inv'
<1> USE DEF Inv
<1> DEFINE r == [frame[Top] EXCEPT !.lexicals = Append(@, Var(id))]
<1>1. r \in KijiFrame /\ Extends(frame[Top], r)
  BY TopIsFrame, NameTypes, DeclareType
<1>2. Len(r.lexicals) = Len(frame[Top].lexicals) + 1 /\ Len(frame[Top].lexicals) \in Nat
  <2>1. r.lexicals = Append(frame[Top].lexicals, Var(id))
    BY TopIsFrame DEF KijiFrame
  <2> QED
    BY <2>1, TopIsFrame, FrameFields, NameTypes, AppendProperties
<1>3. frame' = [frame EXCEPT ![Top] = r]
  BY TopIsFrame DEF OpenBindMy
<1> HIDE DEF r
<1>4. frame' \in Seq(KijiFrame) /\ Grows(frame, frame') /\ frame'[Top] = r
  BY <1>1, <1>3, UpdateTop
<1>5. PICK h \in Handler :
        /\ open' = Append(open, h) /\ open' \in Seq(Handler)
        /\ h.node = "my" /\ h.frame_no = Top /\ h.lex = Len(frame[Top].lexicals) + 1
  <2>1. "my" \in Nodes /\ Top \in Nat /\ 0 \in Nat /\ Len(frame[Top].lexicals) + 1 \in Nat
    BY <1>2, TopIsFrame DEF Nodes
  <2>2. Suspend("my", Top, 0, 0, Len(frame[Top].lexicals) + 1)
    BY DEF OpenBindMy
  <2>3. TypeOK
    OBVIOUS
  <2> QED
    BY <2>1, <2>2, <2>3, SuspendType
<1>6. TypeOK'
  BY <1>4, <1>5, VisitFacts DEF OpenBindMy, TypeOK
<1>7. h.lex \in 1..Len(frame'[Top].lexicals)
  BY <1>2, <1>4, <1>5
<1>8. Shape'
  BY <1>4, <1>5, <1>6, <1>7, StepSuspend DEF OpenBindMy, FrameNodes
<1> QED
  BY <1>6, <1>8, VisitFacts, IdleFollows DEF OpenBindMy

LEMMA OpenBindOurPreserves ==
  ASSUME Inv, NEW id \in Ids, OpenBindOur(id)
  PROVE  Inv'
<1> USE DEF Inv
<1> DEFINE r == [frame[Top] EXCEPT !.package_variables = @ \cup {Var(id)}]
<1>1. r \in KijiFrame /\ Extends(frame[Top], r)
  BY TopIsFrame, NameTypes, OurType
<1>2. frame' = [frame EXCEPT ![Top] = r]
  BY TopIsFrame DEF OpenBindOur
<1> HIDE DEF r
<1>3. frame' \in Seq(KijiFrame) /\ Grows(frame, frame')
  BY <1>1, <1>2, UpdateTop
<1>4. PICK h \in Handler :
        /\ open' = Append(open, h) /\ open' \in Seq(Handler)
        /\ h.node = "our" /\ h.frame_no = Top
  <2>1. "our" \in Nodes /\ Top \in Nat /\ 0 \in Nat
    BY TopIsFrame DEF Nodes
  <2>2. Suspend("our", Top, 0, 0, 0)
    BY DEF OpenBindOur
  <2>3. TypeOK
    OBVIOUS
  <2> QED
    BY <2>1, <2>2, <2>3, SuspendType
<1>5. TypeOK'
  BY <1>3, <1>4, VisitFacts DEF OpenBindOur, TypeOK
<1>6. Shape'
  BY <1>3, <1>4, <1>5, StepSuspend DEF OpenBindOur, FrameNodes
<1> QED
  BY <1>5, <1>6, VisitFacts, IdleFollows DEF OpenBindOur

LEMMA PackageType == Package \in LexName
  BY DEF LexName

LEMMA GrowsItself ==
  ASSUME TypeOK
  PROVE  Grows(frame, frame)
<1>1. \A f \in 1..Len(frame) : frame[f] \in KijiFrame
  BY ElementOfSeq DEF TypeOK
<1>2. Len(frame) \in Nat
  BY LenProperties DEF TypeOK
<1> QED
  BY <1>1, <1>2, ExtendsItself DEF Grows

LEMMA CloseBindMyPreserves ==
  ASSUME Inv, CloseBindMy
  PROVE  Inv'
<1> USE DEF Inv
<1> DEFINE q == Ref(Current.lex, 0, frame[Top].lexicals[Current.lex])
           r == [frame[Top] EXCEPT !.refs = @ \cup {q}]
<1>1. Current.lex \in 1..Len(frame[Top].lexicals) /\ Current.lex \in Nat
  <2>1. Len(open) \in 1..Len(open) /\ Current.node = "my" /\ Current \in Handler
    BY InvFacts DEF CloseBindMy
  <2>2. Current.frame_no = Top
    BY HandlerFacts DEF CloseBindMy
  <2>3. Current.lex \in 1..Len(frame[Current.frame_no].lexicals)
    BY <2>1, HandlerFacts DEF Current
  <2>4. Current.lex \in Nat
    BY <2>1 DEF Handler
  <2> QED
    BY <2>2, <2>3, <2>4
<1>2. frame[Top].lexicals[Current.lex] \in LexName
  BY <1>1, TopIsFrame, FrameFields, ElementOfSeq
<1>3. q \in Refs
  BY <1>1, <1>2, RefType
<1>4. frame' = [frame EXCEPT ![Top] = r]
  BY TopIsFrame DEF CloseBindMy, EmitRef
<1> HIDE DEF q
<1>5. r \in KijiFrame /\ Extends(frame[Top], r)
  BY <1>3, TopIsFrame, AddRefType
<1> HIDE DEF r
<1>6. frame' \in Seq(KijiFrame) /\ Grows(frame, frame')
  BY <1>4, <1>5, UpdateTop
<1>7. Pop(open) \in Seq(Handler)
  BY PopProperties DEF CloseBindMy, TypeOK
<1>8. TypeOK'
  BY <1>6, <1>7 DEF CloseBindMy, TypeOK
<1>9. Shape'
  BY <1>6, <1>8, StepResume DEF CloseBindMy, FrameNodes
<1> QED
  BY <1>8, <1>9, IdleFollows DEF CloseBindMy, Running

LEMMA CloseBindOurPreserves ==
  ASSUME Inv, CloseBindOur
  PROVE  Inv'
<1> USE DEF Inv
<1>1. Pop(open) \in Seq(Handler)
  BY PopProperties DEF CloseBindOur, TypeOK
<1>2. walk' \in Walk \cup {Idle}
  BY TopIsFrame, PackageType, WalkType DEF CloseBindOur, StartWalk
<1>3. TypeOK'
  BY <1>1, <1>2 DEF CloseBindOur, TypeOK
<1>4. Shape'
  BY <1>3, StepResume, GrowsItself DEF CloseBindOur, FrameNodes
<1>5. Top' = Top
  BY DEF CloseBindOur, Top
<1> QED
  BY <1>3, <1>4, <1>5, StartFollows DEF CloseBindOur, StartWalk

(* What PushFrame leaves, fs being the frames with the top one written.      *)
LEMMA PushFrameFacts ==
  ASSUME Inv, NEW fs \in Seq(KijiFrame), Grows(frame, fs), Len(fs) = Len(frame),
         NEW node \in FrameNodes, PushFrame(fs, node)
  PROVE  /\ frame' \in Seq(KijiFrame) /\ frames' \in Seq(Nat)
         /\ Grows(frame, frame') /\ Len(frame') = Len(frame) + 1
         /\ frame'[Len(frame) + 1].outer = Top
         /\ \A f \in 1..Len(frame) : frame'[f] = fs[f]
         /\ frames' = Append(frames, Len(frame) + 1)
         /\ Top' = Len(frame) + 1
<1> USE DEF Inv
<1>1. Top \in Nat /\ Len(frame) \in Nat /\ Len(frames) \in Nat
  BY InvFacts, TopIsFrame
<1> DEFINE new == NewFrame(node, Top)
<1>2. new \in KijiFrame /\ new.outer = Top
  BY <1>1, NewFrameType
<1>3. frame' = Append(fs, new) /\ frames' = Append(frames, Len(frame) + 1)
  BY DEF PushFrame
<1> HIDE DEF new
<1>4. /\ frame' \in Seq(KijiFrame) /\ Len(frame') = Len(frame) + 1
      /\ frame'[Len(frame) + 1] = new /\ Grows(fs, frame')
      /\ \A f \in 1..Len(frame) : frame'[f] = fs[f]
  BY <1>2, <1>3, AppendFrame
<1>5. Grows(frame, frame')
  BY <1>4, GrowsTransitive DEF TypeOK
<1>6. /\ frames' \in Seq(Nat) /\ Len(frames') = Len(frames) + 1
      /\ frames'[Len(frames) + 1] = Len(frame) + 1
  <2>1. frames \in Seq(Nat) /\ Len(frame) + 1 \in Nat
    BY <1>1 DEF TypeOK
  <2> QED
    BY <1>3, <2>1, AppendProperties
<1>7. Top' = Len(frame) + 1
  BY <1>6 DEF Top
<1> QED
  BY <1>2, <1>3, <1>4, <1>5, <1>6, <1>7

LEMMA BindCodes ==
  ASSUME NEW r \in KijiFrame, NEW n
  PROVE  Bind(r, n).codes = r.codes
  BY DEF Bind, KijiFrame

LEMMA OpenFuncPreserves ==
  ASSUME Inv, NEW id \in Ids, NEW exportable \in BOOLEAN, NEW params \in 0..MaxParams,
         OpenFunc(id, exportable, params)
  PROVE  Inv'
<1> USE DEF Inv
<1> DEFINE b  == Bind(frame[Top], Amp(id))
           r  == GetCode(b, 1)
           fs == [frame EXCEPT ![Top] = r]
           p  == Len(frame[Top].codes) + 1
<1>1. b \in KijiFrame /\ Extends(frame[Top], b) /\ b.codes = frame[Top].codes
  BY TopIsFrame, NameTypes, BindType, BindCodes
<1>2. PushFrame(fs, "func")
  BY TopIsFrame DEF OpenFunc
<1> HIDE DEF b
<1>3. /\ r \in KijiFrame /\ Extends(b, r) /\ p \in Nat
      /\ p \in DOMAIN r.codes /\ r.codes[p] = 1
  <2>1. /\ r \in KijiFrame /\ Extends(b, r)
        /\ Len(r.codes) = Len(b.codes) + 1 /\ r.codes[Len(b.codes) + 1] = 1
    BY <1>1, GetCodeType
  <2>2. Len(b.codes) \in Nat /\ r.codes \in Seq(Nat)
    BY <1>1, <2>1, FrameFields
  <2> QED
    BY <1>1, <2>1, <2>2, LenProperties
<1> HIDE DEF r
<1>4. Extends(frame[Top], r)
  BY <1>1, <1>3, TopIsFrame, ExtendsTransitive
<1>5. fs \in Seq(KijiFrame) /\ Len(fs) = Len(frame) /\ fs[Top] = r /\ Grows(frame, fs)
  BY <1>3, <1>4, UpdateTop
<1> HIDE DEF fs
<1>6. /\ frame' \in Seq(KijiFrame) /\ frames' \in Seq(Nat)
      /\ Grows(frame, frame') /\ Len(frame') = Len(frame) + 1
      /\ frame'[Len(frame) + 1].outer = Top
      /\ \A f \in 1..Len(frame) : frame'[f] = fs[f]
      /\ frames' = Append(frames, Len(frame) + 1)
      /\ Top' = Len(frame) + 1
  BY <1>2, <1>5, PushFrameFacts DEF FrameNodes
<1>7. PICK h \in Handler :
        /\ open' = Append(open, h) /\ open' \in Seq(Handler)
        /\ h.node = "func" /\ h.frame_no = Len(frame) + 1 /\ h.pos = p
  <2>1. /\ "func" \in Nodes /\ Len(frame) + 1 \in Nat /\ params \in Nat /\ 0 \in Nat
    BY InvFacts, BoundsAssumption DEF Nodes, FrameNodes
  <2>2. Suspend("func", Len(frame) + 1, p, params, 0)
    BY DEF OpenFunc
  <2>3. TypeOK
    OBVIOUS
  <2> QED
    BY <1>3, <2>1, <2>2, <2>3, SuspendType
<1>8. walk' \in Walk \cup {Idle}
  <2>1. Len(frame) + 1 \in Nat /\ Amp(id) \in LexName
    BY InvFacts, NameTypes
  <2> QED
    BY <2>1, WalkType DEF OpenFunc
<1>9. TypeOK'
  BY <1>6, <1>7, <1>8, VisitFacts DEF OpenFunc, TypeOK
<1>10. /\ h.pos \in DOMAIN frame'[Top].codes /\ frame'[Top].codes[h.pos] = 1
  BY <1>3, <1>5, <1>6, <1>7, TopIsFrame
<1>11. Shape'
  BY <1>6, <1>7, <1>9, <1>10, StepPush DEF FrameNodes
<1>12. WalkFollowsStack' /\ WalkFits'
  <2>1. CASE exportable
    BY <2>1, <1>6, <1>9, <1>11, StartFollows DEF OpenFunc
  <2>2. CASE ~ exportable
    BY <2>2, IdleFollows DEF OpenFunc
  <2> QED
    BY <2>1, <2>2
<1> QED
  BY <1>9, <1>11, <1>12

LEMMA OpenScopePreserves ==
  ASSUME Inv, NEW node \in {"lambda", "block"}, NEW params \in Nat, OpenScope(node, params)
  PROVE  Inv'
<1> USE DEF Inv
<1>1. /\ frame' \in Seq(KijiFrame) /\ frames' \in Seq(Nat)
      /\ Grows(frame, frame') /\ Len(frame') = Len(frame) + 1
      /\ frame'[Len(frame) + 1].outer = Top
      /\ frames' = Append(frames, Len(frame) + 1)
  <2>1. frame \in Seq(KijiFrame) /\ Grows(frame, frame) /\ node \in FrameNodes
    BY GrowsItself DEF TypeOK, FrameNodes
  <2> QED
    BY <2>1, PushFrameFacts DEF OpenScope
<1>2. PICK h \in Handler :
        /\ open' = Append(open, h) /\ open' \in Seq(Handler)
        /\ h.node = node /\ h.frame_no = Len(frame) + 1
  <2>1. node \in Nodes /\ Len(frame) + 1 \in Nat /\ 0 \in Nat
    BY InvFacts DEF Nodes, FrameNodes
  <2>2. Suspend(node, Len(frame) + 1, 0, params, 0)
    BY DEF OpenScope
  <2>3. TypeOK
    OBVIOUS
  <2> QED
    BY <2>1, <2>2, <2>3, SuspendType
<1>3. TypeOK'
  BY <1>1, <1>2, VisitFacts DEF OpenScope, TypeOK
<1>4. h.node \in FrameNodes /\ h.node # "func"
  BY <1>2 DEF FrameNodes
<1>5. Shape'
  BY <1>1, <1>2, <1>3, <1>4, StepPush
<1> QED
  BY <1>3, <1>5, VisitFacts, IdleFollows DEF OpenScope

(* Marking a frame as a library's.                                          *)
Marked(s, f) == [s EXCEPT ![f].frame_type = "use"]

LEMMA MarkType ==
  ASSUME NEW s \in Seq(KijiFrame), NEW f \in 1..Len(s)
  PROVE  /\ Marked(s, f) \in Seq(KijiFrame) /\ Len(Marked(s, f)) = Len(s)
         /\ Grows(s, Marked(s, f))
         /\ \A g \in 1..Len(s) : Marked(s, f)[g].outer = s[g].outer
<1> DEFINE r == [s[f] EXCEPT !.frame_type = "use"]
<1>1. s[f] \in KijiFrame
  BY ElementOfSeq
<1>2. /\ r \in KijiFrame /\ r.outer = s[f].outer /\ r.node = s[f].node
      /\ r.codes = s[f].codes /\ r.lexicals = s[f].lexicals
  BY <1>1 DEF KijiFrame
<1>3. Marked(s, f) = [s EXCEPT ![f] = r]
  BY DEF Marked
<1> HIDE DEF r
<1>4. Extends(s[f], r)
  BY <1>1, <1>2, FrameFields DEF Extends
<1> DEFINE t == [s EXCEPT ![f] = r]
<1>5. t \in Seq(KijiFrame) /\ Len(t) = Len(s) /\ Grows(s, t)
  BY <1>2, <1>4, UpdateFrame
<1> HIDE DEF t
<1>6. \A g \in 1..Len(s) : t[g].outer = s[g].outer
  BY <1>5 DEF Grows, Extends
<1> QED
  BY <1>3, <1>5, <1>6 DEF t

LEMMA OpenUsePreserves ==
  ASSUME Inv, OpenUse
  PROVE  Inv'
<1> USE DEF Inv
<1> DEFINE no  == Len(frame) + 1
           fs  == Append(frame, NewFrame("use", Top))
           stk == Append(frames, no)
<1>1. /\ fs \in Seq(KijiFrame) /\ stk \in Seq(Nat) /\ Grows(frame, fs) /\ Len(fs) = no
      /\ fs[no].outer = Top /\ no \in Nat /\ Len(stk) = Len(frames) + 1
      /\ \A i \in 1..Len(frames) : stk[i] = frames[i]
      /\ stk[Len(frames) + 1] = no
  <2>1. /\ frame \in Seq(KijiFrame) /\ frames \in Seq(Nat) /\ no \in Nat /\ Top \in Nat
        /\ "use" \in FrameNodes
    BY InvFacts, TopIsFrame DEF TypeOK, FrameNodes
  <2>2. NewFrame("use", Top) \in KijiFrame /\ NewFrame("use", Top).outer = Top
    BY <2>1, NewFrameType
  <2>3. fs \in Seq(KijiFrame) /\ Grows(frame, fs) /\ Len(fs) = no /\ fs[no].outer = Top
    BY <2>1, <2>2, AppendFrame
  <2> QED
    BY <2>1, <2>3, AppendProperties
<1>2. \A i \in DOMAIN stk : stk[i] \in 1..Len(fs)
  <2>1. DOMAIN stk = 1..(Len(frames) + 1) /\ Len(frames) \in Nat /\ Len(frame) \in Nat
    BY <1>1, InvFacts, LenProperties
  <2>2. \A i \in 1..Len(frames) : frames[i] \in 1..Len(frame)
    BY InvFacts
  <2> QED
    BY <1>1, <2>1, <2>2
<1>3. \A f \in DOMAIN frame : f \in 1..Len(fs)
  BY SMTT(30), <1>1, InvFacts, LenProperties DEF TypeOK
<1>4. frames' = stk /\ status' \in Statuses
  BY DEF OpenUse, TypeOK, Statuses
<1>5. frame' = fs \/ \E f \in 1..Len(fs) : frame' = Marked(fs, f)
  BY <1>2, <1>3 DEF OpenUse, Marked
<1> HIDE DEF fs
<1>6. /\ frame' \in Seq(KijiFrame) /\ Len(frame') = no /\ Grows(fs, frame')
      /\ frame'[no].outer = Top
  <2>1. CASE frame' = fs
    <3>1. \A f \in 1..Len(fs) : fs[f] \in KijiFrame
      BY <1>1, ElementOfSeq
    <3> QED
      BY <2>1, <3>1, <1>1, ExtendsItself DEF Grows
  <2>2. ASSUME NEW f \in 1..Len(fs), frame' = Marked(fs, f)
        PROVE  /\ frame' \in Seq(KijiFrame) /\ Len(frame') = no /\ Grows(fs, frame')
               /\ frame'[no].outer = Top
    <3>1. no \in 1..Len(fs)
      BY <1>1
    <3>2. /\ frame' \in Seq(KijiFrame) /\ Len(frame') = Len(fs) /\ Grows(fs, frame')
          /\ \A g \in 1..Len(fs) : frame'[g].outer = fs[g].outer
      BY <2>2, <1>1, MarkType
    <3> QED
      BY <3>1, <3>2, <1>1
  <2> QED
    BY <1>5, <2>1, <2>2
<1>7. Grows(frame, frame')
  BY <1>1, <1>6, GrowsTransitive DEF TypeOK
<1>8. PICK h \in Handler :
        /\ open' = Append(open, h) /\ open' \in Seq(Handler)
        /\ h.node = "use" /\ h.frame_no = Len(frame) + 1
  <2>1. "use" \in Nodes /\ Len(frame) + 1 \in Nat /\ 0 \in Nat
    BY InvFacts DEF Nodes, FrameNodes
  <2>2. Suspend("use", Len(frame) + 1, 0, 0, 0)
    BY DEF OpenUse
  <2>3. TypeOK
    OBVIOUS
  <2> QED
    BY <2>1, <2>2, <2>3, SuspendType
<1>9. TypeOK'
  BY <1>1, <1>4, <1>6, <1>8, VisitFacts DEF OpenUse, TypeOK
<1>10. Shape'
  BY <1>4, <1>6, <1>7, <1>8, <1>9, StepPush DEF FrameNodes
<1> QED
  BY <1>9, <1>10, VisitFacts, IdleFollows DEF OpenUse

LEMMA ParameterPreserves ==
  ASSUME Inv, NEW id \in Ids, Parameter(id)
  PROVE  Inv'
<1> USE DEF Inv
<1> DEFINE r == Bind(frame[Top], Var(id))
           n == Len(open)
           h == [open[n] EXCEPT !.todo = @ - 1]
<1>1. r \in KijiFrame /\ Extends(frame[Top], r)
  BY TopIsFrame, NameTypes, BindType
<1>2. frame' = [frame EXCEPT ![Top] = r]
  BY TopIsFrame DEF Parameter
<1> HIDE DEF r
<1>3. frame' \in Seq(KijiFrame) /\ Grows(frame, frame')
  BY <1>1, <1>2, UpdateTop
<1>4. n \in 1..n /\ open[n] \in Handler /\ open[n].todo > 0 /\ open \in Seq(Handler)
  BY InvFacts DEF Parameter, Current, TypeOK
<1>5. /\ h \in Handler /\ h.node = open[n].node /\ h.frame_no = open[n].frame_no
      /\ h.pos = open[n].pos /\ h.lex = open[n].lex
  <2>1. open[n].todo - 1 \in Nat
    BY <1>4 DEF Handler
  <2> QED
    BY <1>4, <2>1 DEF Handler
<1>6. open' = [open EXCEPT ![n] = h]
  BY <1>4 DEF Parameter
<1> HIDE DEF h
<1>7. /\ open' \in Seq(Handler) /\ Len(open') = n
      /\ \A j \in 1..n : open'[j] = IF j = n THEN h ELSE open[j]
  BY <1>4, <1>5, <1>6, ExceptSeq
<1>8. TypeOK'
  BY <1>3, <1>7 DEF Parameter, TypeOK
<1>9. Shape'
  BY <1>3, <1>5, <1>7, <1>8, StepInPlace DEF Parameter
<1> QED
  BY <1>8, <1>9, IdleFollows DEF Parameter, Running

(* What the tails of the handlers that pushed a frame have in common; below  *)
(* is the frame they return to.                                             *)
LEMMA ClosingFacts ==
  ASSUME Inv, NEW node \in FrameNodes, Closing(node)
  PROVE  LET below == Pop(frames)[Len(frames) - 1] IN
           /\ below = Parent(Len(open)) /\ below \in 1..Len(frame)
           /\ frame[below] \in KijiFrame
           /\ Current \in Handler /\ Current.node \in FrameNodes
           /\ Current.frame_no \in Nat /\ Current.frame_no = Top
           /\ Current.node = "func" => Current.pos \in 1..Len(frame[below].codes)
           /\ Pop(frames) \in Seq(Nat) /\ Pop(open) \in Seq(Handler)
<1> USE DEF Inv
<1> PICK below : below = Pop(frames)[Len(frames) - 1]
  OBVIOUS
<1>1. /\ open # <<>> /\ Current \in Handler /\ Current.node \in FrameNodes
      /\ Len(open) \in 1..Len(open) /\ Current = open[Len(open)]
  BY InvFacts DEF Closing, Current
<1>2. /\ Top = Current.frame_no /\ frame[Top].outer = Parent(Len(open))
      /\ Parent(Len(open)) \in 1..Len(frame)
      /\ Current.node = "func" => Current.pos \in 1..Len(frame[Parent(Len(open))].codes)
  BY <1>1, HandlerFacts
<1>3. /\ frames \in Seq(Nat) /\ frames # <<>> /\ open \in Seq(Handler)
      /\ Len(frames) \in Nat \ {0} /\ DOMAIN frames = 1..Len(frames)
  BY InvFacts, LenProperties DEF TypeOK, Shape, ScopesNest
<1>4. frame[Top].outer = IF Len(frames) = 1 THEN 0 ELSE frames[Len(frames) - 1]
  <2>1. \A i \in DOMAIN frames :
          frame[frames[i]].outer = IF i = 1 THEN 0 ELSE frames[i - 1]
    BY DEF Shape, ScopesNest
  <2>2. Len(frames) \in DOMAIN frames
    BY <1>3
  <2> QED
    BY <2>1, <2>2 DEF Top
<1>5. Len(frames) # 1 /\ frames[Len(frames) - 1] = Parent(Len(open))
  BY <1>2, <1>4
<1>6. /\ Pop(frames) \in Seq(Nat)
      /\ \A i \in 1..(Len(frames) - 1) : Pop(frames)[i] = frames[i]
  BY <1>3, PopProperties
<1>7. below = Parent(Len(open))
  <2>1. Len(frames) - 1 \in 1..(Len(frames) - 1)
    BY <1>3, <1>5
  <2> QED
    BY <1>5, <1>6, <2>1
<1>8. Pop(open) \in Seq(Handler)
  BY <1>1, <1>3, PopProperties
<1>9. frame[below] \in KijiFrame /\ Current.frame_no \in Nat
  BY <1>1, <1>2, <1>7, InvFacts DEF Handler
<1> QED
  BY <1>1, <1>2, <1>6, <1>7, <1>8, <1>9

(* A tail that writes record r in the frame below.                          *)
LEMMA CloseFrame ==
  ASSUME Inv, NEW node \in FrameNodes, Closing(node),
         NEW f, f = Pop(frames)[Len(frames) - 1],
         NEW r \in KijiFrame, r.outer = frame[f].outer,
         Len(frame[f].lexicals) <= Len(r.lexicals),
         frame' = [frame EXCEPT ![f] = r]
  PROVE  Inv'
<1> USE DEF Inv
<1>1. /\ f = Parent(Len(open)) /\ f \in 1..Len(frame) /\ frame[f] \in KijiFrame
      /\ Current.node \in FrameNodes
      /\ Pop(frames) \in Seq(Nat) /\ Pop(open) \in Seq(Handler)
  BY ClosingFacts
<1>2. /\ frame' \in Seq(KijiFrame) /\ Len(frame') = Len(frame)
      /\ \A g \in 1..Len(frame) : frame'[g] = IF g = f THEN r ELSE frame[g]
  BY <1>1, ExceptSeq DEF TypeOK
<1>3. TypeOK'
  BY <1>1, <1>2 DEF Closing, TypeOK
<1>4. \A g \in 1..Len(frame) : g # f => Extends(frame[g], frame'[g])
  BY <1>2, InvFacts, ExtendsItself
<1>5. FramesKept
  <2>1. \A g \in 1..Len(frame) : Len(frame[g].lexicals) \in Nat
    BY InvFacts, FrameFields
  <2>2. Len(frame) \in Nat
    BY InvFacts
  <2> QED
    BY <1>2, <2>1, <2>2 DEF FramesKept
<1>6. Shape'
  BY <1>1, <1>3, <1>4, <1>5, StepPop DEF Closing
<1> QED
  BY <1>3, <1>6, IdleFollows DEF Closing, Running

LEMMA CloseFuncPreserves ==
  ASSUME Inv, CloseFunc
  PROVE  Inv'
<1> PICK f : f = Pop(frames)[Len(frames) - 1]
  OBVIOUS
<1>1. Closing("func") /\ "func" \in FrameNodes
  BY DEF CloseFunc, FrameNodes
<1>2. /\ f \in 1..Len(frame) /\ frame[f] \in KijiFrame /\ Current.node = "func"
      /\ Current.frame_no \in Nat /\ Current.pos \in 1..Len(frame[f].codes)
  BY <1>1, ClosingFacts DEF Closing
<1> DEFINE C == [frame[f].codes EXCEPT ![Current.pos] = Current.frame_no]
           r == [frame[f] EXCEPT !.codes = C]
<1>3. C \in Seq(Nat)
  BY <1>2, FrameFields, ExceptSeq
<1>4. frame' = [frame EXCEPT ![f] = r]
  BY DEF CloseFunc
<1> HIDE DEF C
<1>5. r \in KijiFrame /\ r.outer = frame[f].outer /\ r.lexicals = frame[f].lexicals
  BY <1>2, <1>3, SetCodes
<1>6. Len(frame[f].lexicals) <= Len(r.lexicals)
  BY <1>2, <1>5, FrameFields
<1> HIDE DEF r
<1> QED
  BY <1>1, <1>4, <1>5, <1>6, CloseFrame

LEMMA CloseScopePreserves ==
  ASSUME Inv, NEW node \in FrameNodes, CloseScope(node)
  PROVE  Inv'
<1> PICK f : f = Pop(frames)[Len(frames) - 1]
  OBVIOUS
<1>1. Closing(node)
  BY DEF CloseScope
<1>2. f \in 1..Len(frame) /\ frame[f] \in KijiFrame /\ Current.frame_no \in Nat
  BY <1>1, ClosingFacts
<1> DEFINE r == GetCode(frame[f], Current.frame_no)
<1>3. r \in KijiFrame /\ Extends(frame[f], r)
  BY <1>2, GetCodeType
<1>4. frame' = [frame EXCEPT ![f] = r]
  BY DEF CloseScope
<1> HIDE DEF r
<1> QED
  BY <1>1, <1>3, <1>4, CloseFrame DEF Extends

LEMMA CloseUsePreserves ==
  ASSUME Inv, CloseUse
  PROVE  Inv'
<1> PICK f : f = Pop(frames)[Len(frames) - 1]
  OBVIOUS
<1>1. Closing("use") /\ "use" \in FrameNodes
  BY DEF CloseUse, FrameNodes
<1>2. f \in 1..Len(frame) /\ frame[f] \in KijiFrame /\ Current.frame_no \in Nat
  BY <1>1, ClosingFacts
<1> DEFINE r == Import(frame[f], frame[Top].exportables, Current.frame_no)
<1>3. frame[Top].exportables \in Seq([name : LexName, frame_no : Nat])
  BY TopIsFrame, FrameFields
<1>4. r \in KijiFrame /\ Extends(frame[f], r)
  BY <1>2, <1>3, ImportType
<1>5. frame' = [frame EXCEPT ![f] = r]
  BY DEF CloseUse
<1> HIDE DEF r
<1> QED
  BY <1>1, <1>4, <1>5, CloseFrame DEF Extends

(* The frame a lookup stands on is on the stack, and its outer frame is the  *)
(* one below it.                                                            *)
LEMMA WalkFacts ==
  ASSUME Inv, walk # Idle
  PROVE  /\ walk \in Walk
         /\ walk.want \in LexName /\ walk.outer \in Nat /\ walk.at \in Nat /\ walk.item \in Nat
         /\ walk.outer <= Len(frames) /\ Len(frames) \in Nat
         /\ walk.at # 0 =>
              /\ Len(frames) - walk.outer \in 1..Len(frames)
              /\ walk.at = frames[Len(frames) - walk.outer]
              /\ walk.at \in 1..Len(frame)
              /\ frame[walk.at].outer = IF walk.outer + 1 = Len(frames) THEN 0
                                        ELSE frames[Len(frames) - (walk.outer + 1)]
<1> USE DEF Inv
<1>1. walk \in Walk
  BY DEF TypeOK
<1>2. /\ walk.want \in LexName /\ walk.outer \in Nat /\ walk.at \in Nat /\ walk.item \in Nat
  BY <1>1 DEF Walk
<1>3. /\ walk.outer <= Len(frames)
      /\ walk.at = IF walk.outer = Len(frames) THEN 0 ELSE frames[Len(frames) - walk.outer]
  BY DEF WalkFollowsStack
<1>4. /\ Len(frames) \in Nat \ {0} /\ DOMAIN frames = 1..Len(frames)
      /\ \A i \in 1..Len(frames) : frames[i] \in 1..Len(frame)
  BY InvFacts, LenProperties DEF TypeOK
<1>5. ASSUME walk.at # 0
      PROVE  /\ Len(frames) - walk.outer \in 1..Len(frames)
             /\ walk.at = frames[Len(frames) - walk.outer]
             /\ walk.at \in 1..Len(frame)
             /\ frame[walk.at].outer = IF walk.outer + 1 = Len(frames) THEN 0
                                       ELSE frames[Len(frames) - (walk.outer + 1)]
  <2> PICK i : i = Len(frames) - walk.outer
    OBVIOUS
  <2>1. i \in 1..Len(frames) /\ walk.at = frames[i]
    BY <1>2, <1>3, <1>4, <1>5
  <2>2. frame[frames[i]].outer = IF i = 1 THEN 0 ELSE frames[i - 1]
    BY <1>4, <2>1 DEF Shape, ScopesNest
  <2>3. (i = 1 <=> walk.outer + 1 = Len(frames)) /\ i - 1 = Len(frames) - (walk.outer + 1)
    BY <1>2, <1>4
  <2> QED
    BY <1>4, <2>1, <2>2, <2>3
<1> QED
  BY <1>1, <1>2, <1>3, <1>4, <1>5

(* A lookup that reads and writes no frame.                                 *)
LEMMA ShapeUnchanged ==
  ASSUME TypeOK, Shape, TypeOK', UNCHANGED <<frame, frames, open>>
  PROVE  Shape'
  BY GrowsItself, StepInPlace

LEMMA StartPreserves ==
  ASSUME Inv, NEW mode \in {"variable", "lexical", "ident"}, NEW n \in LexName,
         mode = "ident" => n \in Name,
         StartWalk(mode, n, 0), nodes' \in 0..MaxNodes, UNCHANGED <<frame, frames, open, status>>
  PROVE  Inv'
<1> USE DEF Inv
<1>1. walk' \in Walk \cup {Idle}
  BY TopIsFrame, WalkType DEF StartWalk
<1>2. TypeOK'
  BY <1>1 DEF TypeOK
<1>3. Shape'
  BY <1>2, ShapeUnchanged
<1>4. Top' = Top
  BY DEF Top
<1> QED
  BY <1>2, <1>3, <1>4, StartFollows DEF StartWalk

LEMMA ReferPreserves ==
  ASSUME Inv, Refer
  PROVE  Inv'
<1> PICK id \in Ids : UseVariable(id) \/ CallSub(id) \/ UseIdent(id)
  BY DEF Refer
<1>1. /\ Var(id) \in LexName /\ Amp(id) \in LexName /\ Bare(id) \in LexName
      /\ Bare(id) \in Name
  BY NameTypes
<1>2. CASE UseVariable(id)
  BY <1>1, <1>2, StartPreserves, VisitFacts DEF UseVariable, Inv
<1>3. CASE CallSub(id)
  BY <1>1, <1>3, StartPreserves, VisitFacts DEF CallSub, Inv
<1>4. CASE UseIdent(id)
  BY <1>1, <1>4, StartPreserves, VisitFacts DEF UseIdent, Inv
<1> QED
  BY <1>2, <1>3, <1>4

LEMMA FoundLexicalPreserves ==
  ASSUME Inv, FoundLexical
  PROVE  Inv'
<1> DEFINE q == Ref(LexNo(walk.at, walk.want), walk.outer, walk.want)
           r == [frame[Top] EXCEPT !.refs = @ \cup {q}]
<1>1. q \in Refs
  <2>1. walk.at \in 1..Len(frame) /\ walk.outer \in Nat /\ walk.want \in LexName
    BY WalkFacts DEF FoundLexical, Looking
  <2>2. frame[walk.at] \in KijiFrame
    BY <2>1, InvFacts DEF Inv
  <2>3. LexNo(walk.at, walk.want) \in Nat
    BY <2>2, LexNoProperties, FrameFields DEF FoundLexical
  <2> QED
    BY <2>1, <2>3, RefType
<1>2. frame' = [frame EXCEPT ![Top] = r]
  BY TopIsFrame DEF FoundLexical, EmitRef
<1> HIDE DEF q
<1>3. r \in KijiFrame /\ Extends(frame[Top], r)
  BY <1>1, TopIsFrame, AddRefType
<1> HIDE DEF r
<1> QED
  BY <1>2, <1>3, WriteTop DEF FoundLexical, Inv, TypeOK

LEMMA FoundPackageVariablePreserves ==
  ASSUME Inv, FoundPackageVariable
  PROVE  Inv'
  BY PackageType, StartPreserves DEF FoundPackageVariable, Inv, TypeOK

LEMMA NotFoundPreserves ==
  ASSUME Inv, NotFound
  PROVE  Inv'
<1> USE DEF Inv
<1>1. CASE walk.mode = "ident"
  <2>1. Amp(walk.want[2]) \in LexName
    <3>1. walk.want \in Name
      BY <1>1 DEF NotFound, Looking, WalkFits
    <3>2. walk.want[2] \in Ids
      BY <3>1 DEF Name
    <3> QED
      BY <3>2, NameTypes
  <2> QED
    BY <1>1, <2>1, StartPreserves DEF NotFound, TypeOK
<1>2. CASE walk.mode # "ident"
  <2>1. TypeOK'
    BY <1>2 DEF NotFound, TypeOK, Statuses
  <2>2. Shape'
    BY <2>1, ShapeUnchanged DEF NotFound
  <2> QED
    BY <1>2, <2>1, <2>2, IdleFollows DEF NotFound
<1> QED
  BY <1>1, <1>2

(* One step of a lookup along the outer pointers.                           *)
LEMMA ClimbPreserves ==
  ASSUME Inv, walk # Idle, walk.at # 0,
         walk.mode # "export" => ~ Declares(walk.at, walk.want) /\ ~ IsPackageVariable(walk.at),
         walk.mode = "export" => frame[walk.at].outer # 0,
         walk' = [walk EXCEPT !.at = frame[walk.at].outer, !.outer = @ + 1],
         UNCHANGED <<frame, frames, open, status, nodes>>
  PROVE  Inv'
<1> USE DEF Inv
<1> PICK n : n = Len(frames)
  OBVIOUS
<1> PICK k : k = walk.outer
  OBVIOUS
<1> PICK up : up = frame[walk.at].outer
  OBVIOUS
<1> PICK mode : mode = walk.mode
  OBVIOUS
<1> PICK want : want = walk.want
  OBVIOUS
<1>1. /\ walk \in Walk /\ n \in Nat /\ k \in Nat /\ n - k \in 1..n
      /\ walk.at = frames[n - k] /\ walk.at \in 1..Len(frame)
      /\ up = IF k + 1 = n THEN 0 ELSE frames[n - (k + 1)]
  BY WalkFacts
<1>2. up \in Nat
  BY <1>1, InvFacts, FrameFields
<1>3. /\ walk' \in Walk /\ walk'.at = up /\ walk'.outer = k + 1
      /\ walk'.mode = mode /\ walk'.want = want
  <2>1. walk' = [walk EXCEPT !.at = up, !.outer = k + 1]
    OBVIOUS
  <2>2. walk \in Walk /\ up \in Nat /\ k + 1 \in Nat
    BY <1>1, <1>2
  <2> QED
    BY <2>1, <2>2 DEF Walk
<1>4. TypeOK'
  BY <1>3 DEF TypeOK
<1>5. Shape'
  BY <1>4, ShapeUnchanged
<1>6. WalkFits'
  BY <1>3 DEF WalkFits
<1> DEFINE Here(f) == \E i \in DOMAIN frame[f].lexicals : frame[f].lexicals[i] = want
           Ours(f) == mode = "variable" /\ want \in frame[f].package_variables
<1>7. mode # "export" => \A i \in (n - (k + 1) + 1)..n : ~ Here(frames[i]) /\ ~ Ours(frames[i])
  <2>1. mode # "export" => \A i \in (n - k + 1)..n : ~ Here(frames[i]) /\ ~ Ours(frames[i])
    BY Zenon DEF WalkFollowsStack, Declares, IsPackageVariable
  <2>2. mode # "export" => ~ Here(frames[n - k]) /\ ~ Ours(frames[n - k])
    BY <1>1 DEF Declares, IsPackageVariable
  <2>3. \A i \in (n - (k + 1) + 1)..n : i = n - k \/ i \in (n - k + 1)..n
    BY <1>1
  <2> HIDE DEF Here, Ours
  <2> QED
    BY <2>1, <2>2, <2>3
<1>8. WalkFollowsStack'
  <2>1. k + 1 <= n
    BY <1>1
  <2>2. walk'.at = IF k + 1 = n THEN 0 ELSE frames[n - (k + 1)]
    BY <1>1, <1>3
  <2>3. frames' = frames /\ frame' = frame
    OBVIOUS
  <2>4. mode # "export" =>
          \A i \in (n - (k + 1) + 1)..n :
            ~ Declares(frames[i], want)' /\ ~ IsPackageVariable(frames[i])'
    <3>1. \A f : Declares(f, want)' <=> Here(f)
      BY <2>3, Zenon DEF Declares
    <3>2. \A f : IsPackageVariable(f)' <=> Ours(f)
      BY <1>3, <2>3, Zenon DEF IsPackageVariable
    <3>3. SUFFICES ASSUME mode # "export", NEW i \in (n - (k + 1) + 1)..n
                   PROVE  ~ Declares(frames[i], want)' /\ ~ IsPackageVariable(frames[i])'
      OBVIOUS
    <3>4. ~ Here(frames[i]) /\ ~ Ours(frames[i])
      BY <1>7, <3>3
    <3> HIDE DEF Here, Ours
    <3>5. Declares(frames[i], want)' <=> Here(frames[i])
      BY <2>3, <3>1
    <3>6. IsPackageVariable(frames[i])' <=> Ours(frames[i])
      BY <2>3, <3>2
    <3> QED
      BY <3>4, <3>5, <3>6
  <2> HIDE DEF Here, Ours
  <2> QED
    BY <1>3, <2>1, <2>2, <2>3, <2>4 DEF WalkFollowsStack, Declares, IsPackageVariable
<1> QED
  BY <1>4, <1>5, <1>6, <1>8

LEMMA ExportType ==
  ASSUME NEW r \in KijiFrame, NEW e \in [name : LexName, frame_no : Nat]
  PROVE  LET s == [r EXCEPT !.exportables = Append(@, e)] IN
           s \in KijiFrame /\ Extends(r, s)
<1> DEFINE E == Append(r.exportables, e)
<1>1. E \in Seq([name : LexName, frame_no : Nat])
  BY FrameFields, AppendProperties
<1> HIDE DEF E
<1> DEFINE s == [r EXCEPT !.exportables = E]
<1>2. /\ s \in KijiFrame /\ s.outer = r.outer /\ s.node = r.node
      /\ s.codes = r.codes /\ s.lexicals = r.lexicals
  BY <1>1 DEF KijiFrame
<1> HIDE DEF s
<1>3. Extends(r, s)
  BY <1>2, FrameFields DEF Extends
<1> QED
  BY <1>2, <1>3 DEF s, E

LEMMA AddExportablePreserves ==
  ASSUME Inv, AddExportable
  PROVE  Inv'
<1> USE DEF Inv
<1> PICK f : f = walk.at
  OBVIOUS
<1>1. f \in 1..Len(frame) /\ walk.want \in LexName /\ walk.item \in Nat
  BY WalkFacts DEF AddExportable, Exporting, WalkFits
<1>2. frame[f] \in KijiFrame /\ frame \in Seq(KijiFrame)
  BY <1>1, InvFacts DEF TypeOK
<1> DEFINE e == [name |-> walk.want, frame_no |-> walk.item]
           r == [frame[f] EXCEPT !.exportables = Append(@, e)]
<1>3. e \in [name : LexName, frame_no : Nat]
  BY <1>1
<1>4. frame' = [frame EXCEPT ![f] = r]
  BY DEF AddExportable
<1> HIDE DEF e
<1>5. r \in KijiFrame /\ Extends(frame[f], r)
  BY <1>2, <1>3, ExportType
<1> HIDE DEF r
<1>6. frame' \in Seq(KijiFrame) /\ Grows(frame, frame')
  BY <1>1, <1>2, <1>4, <1>5, UpdateFrame
<1>7. TypeOK'
  BY <1>6 DEF AddExportable, TypeOK
<1>8. Shape'
  BY <1>6, <1>7, StepInPlace DEF AddExportable
<1> QED
  BY <1>7, <1>8, IdleFollows DEF AddExportable

LEMMA WalkStepPreserves ==
  ASSUME Inv, WalkStep
  PROVE  Inv'
<1>1. CASE WalkOuter
  BY <1>1, ClimbPreserves DEF WalkOuter, Looking
<1>2. CASE WalkToLibrary
  <2>1. walk.at # 0
    BY <1>2 DEF WalkToLibrary, Exporting, Inv, WalkFits
  <2> QED
    BY <1>2, <2>1, ClimbPreserves DEF WalkToLibrary, Exporting, StopsAt
<1> QED
  BY <1>1, <1>2, FoundLexicalPreserves, FoundPackageVariablePreserves, NotFoundPreserves,
     AddExportablePreserves DEF WalkStep
-----------------------------------------------------------------------------
(* The theorems.                                                            *)

(* The compilation starts with the root frame on the stack.                  *)
LEMMA InitInv ==
  ASSUME Init
  PROVE  Inv
<1> DEFINE new == NewFrame("main", 0)
           r == Bind(new, Package)
<1>1. new \in KijiFrame /\ new.outer = 0
  BY DEF NewFrame, KijiFrame
<1> HIDE DEF new
<1>2. r \in KijiFrame /\ Extends(new, r)
  BY <1>1, PackageType, BindType
<1> HIDE DEF r
<1>3. frame = <<r>> /\ frames = <<1>> /\ open = <<>>
  BY DEF Init, r, new
<1>4. TypeOK
  BY <1>2, <1>3, BoundsAssumption DEF Init, TypeOK, Statuses
<1>5. ScopesNest
  BY <1>1, <1>2, <1>3 DEF ScopesNest, Extends
<1>6. HandlersFindTheirFrame /\ OpenOrdered
  BY <1>3 DEF HandlersFindTheirFrame, OpenOrdered, Top
<1>7. WalkFollowsStack /\ WalkFits
  BY DEF Init, WalkFollowsStack, WalkFits
<1> QED
  BY <1>4, <1>5, <1>6, <1>7 DEF Inv, Shape

LEMMA NextInv ==
  ASSUME Inv, [Next]_vars
  PROVE  Inv'
<1>1. CASE Declare
  <2> PICK id \in Ids : \/ Our(id) \/ My(id) \/ OpenBindMy(id) \/ OpenBindOur(id)
                       \/ DeclareBound(Var(id)) \/ DeclareBound(Bare(id))
    BY <1>1 DEF Declare
  <2>1. Var(id) \in LexName /\ Bare(id) \in LexName
    BY NameTypes
  <2> QED
    BY <2>1, OurPreserves, MyPreserves, OpenBindMyPreserves, OpenBindOurPreserves,
       DeclareBoundPreserves
<1>2. CASE Open
  <2>1. CASE \E id \in Ids, e \in BOOLEAN, n \in 0..MaxParams : OpenFunc(id, e, n)
    BY <2>1, OpenFuncPreserves
  <2>2. CASE \E n \in 0..MaxParams : OpenScope("lambda", n)
    <3> PICK n \in 0..MaxParams : OpenScope("lambda", n)
      BY <2>2
    <3>1. n \in Nat /\ "lambda" \in {"lambda", "block"}
      BY BoundsAssumption
    <3> QED
      BY <3>1, OpenScopePreserves
  <2>3. CASE OpenScope("block", 0)
    <3>1. 0 \in Nat /\ "block" \in {"lambda", "block"}
      OBVIOUS
    <3> QED
      BY <2>3, <3>1, OpenScopePreserves
  <2>4. CASE OpenUse
    BY <2>4, OpenUsePreserves
  <2> QED
    BY <1>2, <2>1, <2>2, <2>3, <2>4 DEF Open
<1>3. CASE Close
  <2>1. "lambda" \in FrameNodes /\ "block" \in FrameNodes
    BY DEF FrameNodes
  <2> QED
    BY <1>3, <2>1, CloseBindMyPreserves, CloseBindOurPreserves, CloseFuncPreserves,
       CloseUsePreserves, CloseScopePreserves DEF Close
<1>4. CASE Refer
  BY <1>4, ReferPreserves
<1>5. CASE WalkStep
  BY <1>5, WalkStepPreserves
<1>6. CASE \E id \in Ids : Parameter(id)
  BY <1>6, ParameterPreserves
<1>7. CASE Finish
  <2>1. TypeOK'
    BY <1>7 DEF Finish, Inv, TypeOK, Statuses
  <2>2. Shape'
    BY <1>7, <2>1, ShapeUnchanged DEF Finish, Inv
  <2> QED
    BY <1>7, <2>1, <2>2, IdleFollows DEF Finish, Running, Inv
<1>8. CASE UNCHANGED vars
  <2>1. TypeOK'
    BY <1>8 DEF vars, Inv, TypeOK
  <2>2. Shape'
    BY <1>8, <2>1, ShapeUnchanged DEF vars, Inv
  <2>3. WalkFits'
    BY <1>8 DEF vars, Inv, WalkFits
  <2>4. WalkFollowsStack'
    BY <1>8 DEF vars, Inv, WalkFollowsStack, Declares, IsPackageVariable
  <2> QED
    BY <2>1, <2>2, <2>3, <2>4 DEF Inv
<1> QED
  BY <1>1, <1>2, <1>3, <1>4, <1>5, <1>6, <1>7, <1>8 DEF Next, Terminated

(* The inductive invariant holds in every compilation.                      *)
THEOREM Invariance == Spec => []Inv
<1>1. Init => Inv
  BY InitInv
<1>2. Inv /\ [Next]_vars => Inv'
  BY NextInv
<1> QED
  BY <1>1, <1>2, PTL DEF Spec

(* Every variable keeps its type: frames, handlers and lookups are records   *)
(* of frame.c and of the handlers' locals.                                  *)
THEOREM TypeCorrectness == Spec => []TypeOK
<1>1. Inv => TypeOK
  BY DEF Inv
<1> QED
  BY <1>1, Invariance, PTL

(* The stack of frames is the static scope, whatever the nesting of handlers.*)
THEOREM Nesting == Spec => []ScopesNest
<1>1. Inv => ScopesNest
  BY DEF Inv, Shape
<1> QED
  BY <1>1, Invariance, PTL

(* A resumed handler finds its own frame on top and, for a sub, its GETCODE  *)
(* placeholder intact in the frame below.                                   *)
THEOREM Resumption == Spec => []HandlersFindTheirFrame
<1>1. Inv => HandlersFindTheirFrame
  BY DEF Inv, Shape
<1> QED
  BY <1>1, Invariance, PTL

(* The outer count of a lookup is a distance on the stack.                   *)
THEOREM LookupFollowsStack == Spec => []WalkFollowsStack
<1>1. Inv => WalkFollowsStack
  BY DEF Inv
<1> QED
  BY <1>1, Invariance, PTL
-----------------------------------------------------------------------------
(* What a lookup emits.                                                     *)

(* While a name is looked up, no handler runs.                              *)
LEMMA OnlyTheLookupRuns ==
  ASSUME Looking, Next
  PROVE  FoundLexical \/ FoundPackageVariable \/ WalkOuter \/ NotFound
<1>1. ~ Running
  BY DEF Looking, Running
<1>2. \A kind : ~ Visit(kind)
  BY <1>1 DEF Visit, CanCompileChild
<1>3. ~ Declare /\ ~ Refer
  BY <1>2 DEF Declare, Refer, Our, My, OpenBindMy, OpenBindOur, DeclareBound,
       UseVariable, CallSub, UseIdent
<1>4. ~ Open
  BY <1>2 DEF Open, OpenFunc, OpenScope, OpenUse
<1>5. ~ Close
  BY <1>1 DEF Close, CloseBindMy, CloseBindOur, CloseFunc, CloseUse, CloseScope, Closing
<1>6. ~ WalkToLibrary /\ ~ AddExportable
  BY DEF WalkToLibrary, AddExportable, Exporting, Looking
<1>7. \A id \in Ids : ~ Parameter(id)
  BY <1>1 DEF Parameter
<1>8. ~ Finish /\ ~ Terminated
  BY <1>1 DEF Finish, Terminated, Looking
<1> QED
  BY <1>3, <1>4, <1>5, <1>6, <1>7, <1>8 DEF Next, WalkStep

(* The only step that ends a lookup and lets the compilation go on.          *)
LEMMA SuccessIsFoundLexical ==
  ASSUME Inv, [Next]_vars, Looking, walk' = Idle, status' = status
  PROVE  FoundLexical
<1>1. walk # Idle /\ walk \in Walk /\ Idle.mode = "idle"
  BY WalkFacts DEF Looking, Idle
<1>2. ~ UNCHANGED vars
  BY <1>1 DEF vars
<1>3. ~ FoundPackageVariable
  <2>1. ASSUME FoundPackageVariable PROVE FALSE
    <3>1. walk'.mode = "lexical"
      BY <2>1 DEF FoundPackageVariable, StartWalk
    <3> QED
      BY <1>1, <3>1
  <2> QED
    BY <2>1
<1>4. ~ WalkOuter
  <2>1. ASSUME WalkOuter PROVE FALSE
    <3>1. walk'.mode = walk.mode /\ walk.mode # "idle"
      BY <1>1, <2>1 DEF WalkOuter, Walk
    <3> QED
      BY <1>1, <3>1
  <2> QED
    BY <2>1
<1>5. ~ NotFound
  <2>1. ASSUME NotFound, walk.mode = "ident" PROVE FALSE
    <3>1. walk'.mode = "lexical"
      BY <2>1 DEF NotFound, StartWalk
    <3> QED
      BY <1>1, <3>1
  <2>2. ASSUME NotFound, walk.mode # "ident" PROVE FALSE
    <3>1. status = "compiling" /\ status' \in {"exit", "panic"}
      BY <2>2 DEF NotFound, Looking
    <3> QED
      BY <3>1
  <2> QED
    BY <2>1, <2>2
<1> QED
  BY <1>2, <1>3, <1>4, <1>5, OnlyTheLookupRuns

LEMMA FoundObeysScoping ==
  ASSUME Inv, FoundLexical
  PROVE  \E r \in frame'[Top].refs :
           /\ IsScopeRule(r, walk.want)
           /\ \A j \in DOMAIN frames :
                j > Len(frames) - r.outer => ~ IsPackageVariable(frames[j])
<1> USE DEF Inv
<1> DEFINE want == walk.want
           at   == walk.at
           i    == Len(frames) - walk.outer
           q    == Ref(LexNo(at, want), walk.outer, want)
           t    == [frame[Top] EXCEPT !.refs = @ \cup {q}]
<1>1. walk # Idle /\ at # 0 /\ Declares(at, want) /\ walk.mode # "export"
  BY DEF FoundLexical, Looking
<1>2. /\ walk.outer \in Nat /\ want \in LexName /\ Len(frames) \in Nat
      /\ i \in 1..Len(frames) /\ at = frames[i] /\ at \in 1..Len(frame)
  BY <1>1, WalkFacts
<1>3. DOMAIN frames = 1..Len(frames)
  BY LenProperties DEF TypeOK
<1>4. \A j \in DOMAIN frames :
        j > i => ~ Declares(frames[j], want) /\ ~ IsPackageVariable(frames[j])
  <2>1. \A j \in (i + 1)..Len(frames) :
          ~ Declares(frames[j], want) /\ ~ IsPackageVariable(frames[j])
    BY <1>1, Zenon DEF WalkFollowsStack
  <2>2. \A j \in DOMAIN frames : j > i => j \in (i + 1)..Len(frames)
    BY <1>2, <1>3
  <2> QED
    BY <2>1, <2>2
<1>5. q \in frame'[Top].refs
  <2>1. frame' = [frame EXCEPT ![Top] = t]
    BY TopIsFrame DEF FoundLexical, EmitRef
  <2>2. q \in t.refs
    <3>1. frame[at] \in KijiFrame
      BY <1>2, InvFacts
    <3>2. LexNo(at, want) \in Nat
      BY <1>1, <3>1, LexNoProperties, FrameFields
    <3>3. q \in Refs
      BY <1>2, <3>2, RefType
    <3> HIDE DEF q
    <3> QED
      BY <3>3, TopIsFrame, AddRefType
  <2> HIDE DEF t
  <2>3. frame'[Top] = t
    BY <2>1, TopIsFrame
  <2> QED
    BY <2>2, <2>3
<1>6. q.outer = walk.outer /\ q = Ref(LexNo(frames[i], want), Len(frames) - i, want)
  <2>1. Len(frames) - i = walk.outer
    BY <1>2
  <2>2. at = frames[i]
    BY <1>2
  <2> QED
    BY <2>1, <2>2 DEF Ref
<1>7. IsScopeRule(q, want)
  <2>1. i \in DOMAIN frames /\ Declares(frames[i], want)
    BY <1>1, <1>2, <1>3
  <2> HIDE DEF q, i
  <2> QED
    BY <1>4, <1>6, <2>1 DEF IsScopeRule
<1>8. \A j \in DOMAIN frames : j > Len(frames) - q.outer => ~ IsPackageVariable(frames[j])
  BY <1>4, <1>6
<1> HIDE DEF q
<1> QED
  BY <1>5, <1>7, <1>8

(* The only step that turns the lookup of a variable to $?PACKAGE.           *)
LEMMA PackageIsFoundPackageVariable ==
  ASSUME Inv, [Next]_vars, Looking, walk.mode = "variable", walk'.mode = "lexical"
  PROVE  FoundPackageVariable
<1>1. ~ UNCHANGED vars
  BY DEF vars
<1>2. ~ FoundLexical
  BY DEF FoundLexical, Idle
<1>3. ~ WalkOuter
  <2>1. walk \in Walk
    BY WalkFacts DEF Inv, Looking, Idle
  <2>2. WalkOuter => walk'.mode = walk.mode
    BY <2>1 DEF WalkOuter, Walk
  <2> QED
    BY <2>2
<1>4. ~ NotFound
  BY DEF NotFound, Idle
<1> QED
  BY <1>1, <1>2, <1>3, <1>4, OnlyTheLookupRuns

LEMMA PackageObeysScoping ==
  ASSUME Inv, FoundPackageVariable
  PROVE  IsPackageRule(walk.want)
<1> USE DEF Inv
<1> DEFINE i == Len(frames) - walk.outer
<1>1. /\ walk # Idle /\ walk.at # 0 /\ walk.mode # "export"
      /\ ~ Declares(walk.at, walk.want) /\ walk.want \in frame[walk.at].package_variables
  BY DEF FoundPackageVariable, Looking, IsPackageVariable
<1>2. walk.outer \in Nat /\ Len(frames) \in Nat /\ i \in 1..Len(frames) /\ walk.at = frames[i]
  BY <1>1, WalkFacts
<1>3. DOMAIN frames = 1..Len(frames)
  BY LenProperties DEF TypeOK
<1>4. \A j \in (i + 1)..Len(frames) : ~ Declares(frames[j], walk.want)
  BY <1>1, Zenon DEF WalkFollowsStack
<1>5. \A j \in DOMAIN frames : j >= i => j = i \/ j \in (i + 1)..Len(frames)
  BY <1>2, <1>3
<1> HIDE DEF i
<1>6. \A j \in DOMAIN frames : j >= i => ~ Declares(frames[j], walk.want)
  BY <1>1, <1>2, <1>4, <1>5
<1> QED
  BY <1>1, <1>2, <1>3, <1>6 DEF IsPackageRule

(* A lookup that succeeds (find_lexical_by_name, find_variable_by_name) emits *)
(* the operands lexical scoping prescribes, and one that turns to $?PACKAGE   *)
(* does so for a name that is `our' by the same rule, in programs of any size. *)
THEOREM Scoping == Spec => LookupObeysScoping
<1>1. Inv /\ [Next]_vars =>
        [ /\ Looking /\ walk' = Idle /\ status' = status =>
               \E r \in frame'[Top].refs :
                 /\ IsScopeRule(r, walk.want)
                 /\ \A j \in DOMAIN frames :
                      j > Len(frames) - r.outer => ~ IsPackageVariable(frames[j])
          /\ Looking /\ walk.mode = "variable" /\ walk'.mode = "lexical" =>
               IsPackageRule(walk.want) ]_vars
  BY SuccessIsFoundLexical, FoundObeysScoping, PackageIsFoundPackageVariable, PackageObeysScoping
<1> QED
  BY <1>1, Invariance, PTL DEF Spec, LookupObeysScoping
=============================================================================
