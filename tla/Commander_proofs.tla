--------------------------- MODULE Commander_proofs ---------------------------
(* Proofs about Commander, for any command lines and any MaxArgs.            *)
EXTENDS Commander, NatSets_proofs, SequenceTheorems

(* What a token says of a flag survives its explosion, which gives as many    *)
(* tokens as alloc grows by, and the group's own.                           *)
LEMMA Explosion ==
  ASSUME NEW t \in Token
  PROVE  /\ Exploded(t) \in Seq(Token)
         /\ Len(Exploded(t)) = 1 + Growth(t) /\ Growth(t) \in Nat
         /\ \A j \in 1..Len(Exploded(t)) : ~ IsGroup(Exploded(t)[j])
         /\ \A flag \in Flags :
              Mentions(t, flag)
                <=> \E j \in 1..Len(Exploded(t)) : Mentions(Exploded(t)[j], flag)
<1>1. CASE IsGroup(t)
  <2>1. t.kind = "group" /\ t.letters \in Seq(Letters) /\ Len(t.letters) > 1
    BY <1>1 DEF IsGroup, Token
  <2>2. Exploded(t) = [j \in 1..Len(t.letters) |-> Group(<<t.letters[j]>>)]
    BY <1>1 DEF Exploded
  <2>3. \A j \in 1..Len(t.letters) : Group(<<t.letters[j]>>) \in Token
    BY <2>1 DEF Token, Group
  <2>4. /\ Exploded(t) \in Seq(Token) /\ Len(Exploded(t)) = Len(t.letters)
        /\ \A j \in 1..Len(t.letters) : Exploded(t)[j] = Group(<<t.letters[j]>>)
    BY <2>1, <2>2, <2>3
  <2>5. \A letter : ~ IsGroup(Group(<<letter>>))
    BY DEF IsGroup, Group
  <2>6. \A flag \in Flags :
          Mentions(t, flag)
            <=> \E j \in 1..Len(Exploded(t)) : Mentions(Exploded(t)[j], flag)
    <3> SUFFICES ASSUME NEW flag \in Flags
                 PROVE  Mentions(t, flag) <=> \E j \in 1..Len(t.letters) :
                                                Mentions(Exploded(t)[j], flag)
      BY <2>4
    <3>1. Mentions(t, flag) <=> \E j \in 1..Len(t.letters) : t.letters[j] = flag
      BY <2>1 DEF Mentions
    <3>2. \A j \in 1..Len(t.letters) :
            Mentions(Exploded(t)[j], flag) <=> t.letters[j] = flag
      <4> SUFFICES ASSUME NEW j \in 1..Len(t.letters)
                   PROVE  Mentions(Group(<<t.letters[j]>>), flag) <=> t.letters[j] = flag
        BY <2>4, Zenon
      <4> DEFINE alone == <<t.letters[j]>>
      <4>1. DOMAIN alone = {1} /\ alone[1] = t.letters[j]
        OBVIOUS
      <4> HIDE DEF alone
      <4>2. Mentions(Group(alone), flag) <=> t.letters[j] = flag
        BY <4>1 DEF Mentions, Group
      <4> QED BY <4>2 DEF alone
    <3> QED BY <3>1, <3>2, Zenon
  <2>7. \A j \in 1..Len(Exploded(t)) : ~ IsGroup(Exploded(t)[j])
    <3> SUFFICES ASSUME NEW j \in 1..Len(t.letters) PROVE ~ IsGroup(Exploded(t)[j])
      BY <2>4
    <3> QED BY <2>4, <2>5, Zenon
  <2>8. Growth(t) = Len(t.letters) - 1 /\ Len(t.letters) \in Nat
    BY <1>1, <2>1 DEF Growth
  <2>9. Len(Exploded(t)) = 1 + Growth(t) /\ Growth(t) \in Nat
    BY <2>1, <2>4, <2>8
  <2> QED BY <2>4, <2>6, <2>7, <2>9
<1>2. CASE ~ IsGroup(t)
  <2>1. Exploded(t) = <<t>> /\ Growth(t) = 0 BY <1>2 DEF Exploded, Growth
  <2>2. Len(Exploded(t)) = 1 /\ Exploded(t)[1] = t /\ Exploded(t) \in Seq(Token)
    BY <2>1
  <2>3. \A j \in 1..Len(Exploded(t)) : Exploded(t)[j] = t BY <2>2
  <2>4. 1 \in 1..Len(Exploded(t)) BY <2>2
  <2>5. \A flag \in Flags :
          Mentions(t, flag)
            <=> \E j \in 1..Len(Exploded(t)) : Mentions(Exploded(t)[j], flag)
    BY <2>3, <2>4, Zenon
  <2>6. \A j \in 1..Len(Exploded(t)) : ~ IsGroup(Exploded(t)[j])
    BY <1>2, <2>3, Zenon
  <2> QED BY <2>1, <2>2, <2>5, <2>6
<1> QED BY <1>1, <1>2

(* The elements of a concatenation.                                         *)
LEMMA Concatenation ==
  ASSUME NEW S, NEW s \in Seq(S), NEW u \in Seq(S), NEW w, w = s \o u
  PROVE  /\ w \in Seq(S) /\ Len(w) = Len(s) + Len(u)
         /\ \A k \in 1..Len(s) : w[k] = s[k]
         /\ \A k \in (Len(s) + 1)..Len(w) : w[k] = u[k - Len(s)]
OBVIOUS
-----------------------------------------------------------------------------
(* The invariant.                                                           *)

(* While the arguments are normalised, what is left of them still fits.      *)
Room ==
  /\ NargvFits
  /\ phase = "normalize" =>
       i \in 1..(Len(argv) + 1) /\ alloc = Len(nargv) + (Len(argv) - i) + 2

(* nargv says of every flag what the part of argv seen so far says.          *)
Said(flag, n)  == \E k \in 2..n : Mentions(argv[k], flag)
Heard(flag, n) == \E k \in 2..n : Mentions(nargv[k], flag)
Faithful ==
  /\ argv # <<>> /\ argv[1].kind = "word"
  /\ \A k \in 1..Len(nargv) : ~ IsGroup(nargv[k])
  /\ phase = "normalize" =>
       /\ i = 1 => nargv = <<>>
       /\ i > 1 => Len(nargv) >= 1
       /\ \A flag \in Flags : Heard(flag, Len(nargv)) <=> Said(flag, i - 1)
  /\ phase \in {"parse", "main"} =>
       \A flag \in Flags : Heard(flag, Len(nargv)) <=> Said(flag, Len(argv))

(* The dump flags are those of the tokens parsed so far.                     *)
Obeys(n) == /\ state.dump_ast <=> Heard("p", n)
            /\ state.dump_bytecode <=> Heard("q", n)
Acted ==
  /\ phase = "normalize" => ~ state.dump_ast /\ ~ state.dump_bytecode
  /\ phase = "parse" => i \in 2..(Len(nargv) + 1) /\ Obeys(i - 1)
  /\ phase = "main" => Obeys(Len(nargv))

Inv == TypeOK /\ Room /\ Faithful /\ Acted

LEMMA InitInv == Init => Inv
<1> SUFFICES ASSUME Init PROVE Inv OBVIOUS
<1>1. argv \in Seq(Token) /\ Len(argv) >= 1 /\ argv[1].kind = "word"
  BY ArgvsAssumption DEF Init
<1>2. TypeOK
  <2>1. phase \in Phases /\ alloc \in Int /\ i \in Nat
    BY <1>1 DEF Init, Phases
  <2>2. state \in [dump_ast : BOOLEAN, dump_bytecode : BOOLEAN, eval : Token \cup {Null}]
    BY DEF Init
  <2>3. literal \in BOOLEAN /\ arg \in Token \cup {Null}
    BY Zenon DEF Init
  <2>4. nargv \in Seq(Token) /\ args \in Seq(Token) /\ Len(args) <= MaxArgs
    BY MaxArgsAssumption DEF Init
  <2>5. clargs.num \in -1..MaxArgs /\ clargs.raw \in Seq(Token)
    BY MaxArgsAssumption DEF Init
  <2> QED BY <1>1, <2>1, <2>2, <2>3, <2>5, <2>4 DEF TypeOK
<1>3. Room
  BY <1>1 DEF Init, Room, NargvFits
<1>4. Faithful
  BY <1>1 DEF Init, Faithful, Heard, Said
<1>5. Acted
  BY DEF Init, Acted
<1> QED BY <1>2, <1>3, <1>4, <1>5 DEF Inv

-----------------------------------------------------------------------------
(* What a token that is no group of several says.                           *)
LEMMA Alone ==
  ASSUME NEW t \in Token, ~ IsGroup(t), NEW flag \in Flags
  PROVE  Mentions(t, flag) <=> t.kind \in {"group", "long"} /\ t.letters = <<flag>>
<1>1. CASE t.kind = "group"
  <2>1. t.letters \in Seq(Letters) /\ Len(t.letters) <= 1
    BY <1>1 DEF IsGroup, Token
  <2>2. CASE t.letters = <<>>
    BY <1>1, <2>2 DEF Mentions
  <2>3. CASE t.letters # <<>>
    <3>1. DOMAIN t.letters = {1} /\ t.letters = <<t.letters[1]>>
      BY <2>1, <2>3
    <3>2. Mentions(t, flag) <=> t.letters[1] = flag
      BY <1>1, <3>1 DEF Mentions
    <3>3. t.letters[1] = flag <=> t.letters = <<flag>>
      BY <3>1
    <3> QED BY <1>1, <3>2, <3>3
  <2> QED BY <2>2, <2>3
<1>2. CASE t.kind = "long"
  <2>1. PICK l \in Letters : t.letters = <<l>>
    BY <1>2 DEF Token
  <2> QED BY <1>2, <2>1 DEF Mentions
<1>3. CASE t.kind \notin {"group", "long"}
  BY <1>3 DEF Mentions
<1> QED BY <1>1, <1>2, <1>3

(* What one more token adds to what has been heard.                         *)
LEMMA HeardNext ==
  ASSUME NEW flag, NEW n \in Nat, n >= 2
  PROVE  Heard(flag, n) <=> Heard(flag, n - 1) \/ Mentions(nargv[n], flag)
BY DEF Heard

-----------------------------------------------------------------------------
(* The actions.                                                             *)

(* A process that has ended keeps what there was.                           *)
LEMMA EndsInv ==
  ASSUME Inv, NEW how \in {"help", "error", "repl", "ast"}, Ends(how)
  PROVE  Inv'
<1>1. TypeOK' BY DEF Inv, TypeOK, Ends, Phases
<1>2. Room' BY DEF Inv, Room, NargvFits, Ends
<1>3. Faithful' BY DEF Inv, Faithful, Ends
<1>4. Acted' BY DEF Inv, Acted, Ends
<1> QED BY <1>1, <1>2, <1>3, <1>4 DEF Inv

LEMMA NormalizeInv == Inv /\ Normalize => Inv'
<1> SUFFICES ASSUME Inv, Normalize PROVE Inv' OBVIOUS
<1> DEFINE t == argv[i]
           e == Exploded(t)
<1>1. /\ t \in Token /\ i \in 1..Len(argv) /\ phase = "normalize" /\ phase' = phase
      /\ argv \in Seq(Token) /\ nargv \in Seq(Token) /\ argv' = argv
      /\ nargv' = nargv \o e /\ alloc' = alloc + Growth(t) /\ i' = i + 1
  BY DEF Inv, TypeOK, Room, Normalize
<1>2. e \in Seq(Token) /\ Len(e) = 1 + Growth(t) /\ Growth(t) \in Nat
  BY <1>1, Explosion, Zenon
<1>3. \A j \in 1..Len(e) : ~ IsGroup(e[j])
  BY <1>1, Explosion, Zenon
<1>4. \A flag \in Flags : Mentions(t, flag) <=> \E j \in 1..Len(e) : Mentions(e[j], flag)
  BY <1>1, Explosion, Zenon
<1> HIDE DEF e, t
<1>5. /\ nargv' \in Seq(Token) /\ Len(nargv') = Len(nargv) + Len(e)
      /\ \A k \in 1..Len(nargv) : nargv'[k] = nargv[k]
      /\ \A k \in (Len(nargv) + 1)..Len(nargv') : nargv'[k] = e[k - Len(nargv)]
  <2> DEFINE w == nargv'
  <2>1. nargv \in Seq(Token) /\ e \in Seq(Token) /\ w = nargv \o e BY <1>1, <1>2
  <2> HIDE DEF w
  <2>2. /\ w \in Seq(Token) /\ Len(w) = Len(nargv) + Len(e)
        /\ \A k \in 1..Len(nargv) : w[k] = nargv[k]
        /\ \A k \in (Len(nargv) + 1)..Len(w) : w[k] = e[k - Len(nargv)]
    BY <2>1, Concatenation
  <2> QED BY <2>2 DEF w
<1>6. TypeOK'
  BY <1>1, <1>2, <1>5 DEF Inv, TypeOK, Normalize
<1>7. Room'
  <2>1. alloc' = alloc + Growth(t) /\ i' = i + 1 /\ i \in 1..Len(argv) BY <1>1
  <2>2. alloc = Len(nargv) + (Len(argv) - i) + 2 /\ Len(nargv) \in Nat /\ Len(argv) \in Nat
    BY <1>1, LenProperties DEF Inv, Room
  <2>3. Len(nargv') = Len(nargv) + 1 + Growth(t) /\ Growth(t) \in Nat
    BY <1>2, <1>5
  <2> DEFINE l == Len(nargv')
             g == Growth(t)
             m == Len(argv)
             n == Len(nargv)
  <2>4. /\ l = n + 1 + g /\ g \in Nat /\ alloc' = alloc + g /\ i' = i + 1 /\ i \in 1..m
        /\ alloc = n + (m - i) + 2 /\ n \in Nat /\ m \in Nat
    BY <2>1, <2>2, <2>3
  <2> HIDE DEF l, g, m, n
  <2>5. l \in Nat /\ alloc' = l + (m - i') + 2 /\ i' \in 1..(m + 1)
    BY <2>4
  <2>6. /\ Len(nargv') \in Nat /\ alloc' = Len(nargv') + (Len(argv) - i') + 2
        /\ i' \in 1..(Len(argv) + 1)
    BY <2>5 DEF l, m
  <2> QED BY <1>1, <2>6 DEF Room, NargvFits
<1>8. \A k \in 1..Len(nargv') : ~ IsGroup(nargv'[k])
  <2> SUFFICES ASSUME NEW k \in 1..Len(nargv') PROVE ~ IsGroup(nargv'[k])
    OBVIOUS
  <2>1. CASE k <= Len(nargv)
    <3>1. nargv'[k] = nargv[k] /\ k \in 1..Len(nargv) BY <1>1, <1>5, <2>1
    <3> QED BY <3>1, Zenon DEF Inv, Faithful
  <2>2. CASE k > Len(nargv)
    <3>1. nargv'[k] = e[k - Len(nargv)] /\ k - Len(nargv) \in 1..Len(e)
      BY <1>1, <1>2, <1>5, <2>2
    <3> QED BY <1>3, <3>1, Zenon
  <2> QED BY <1>1, <1>5, <2>1, <2>2
<1>9. ASSUME NEW flag \in Flags
      PROVE  Heard(flag, Len(nargv))' <=> Said(flag, i - 1)'
  <2>1. CASE i = 1
    <3>1. nargv = <<>> /\ t.kind = "word" BY <1>1, <2>1 DEF Inv, Faithful, t
    <3>2. Growth(t) = 0 BY <3>1 DEF Growth, IsGroup
    <3>3. Len(nargv') = 1 /\ i' - 1 = 1 BY <1>1, <1>2, <1>5, <2>1, <3>1, <3>2
    <3>4. 2..Len(nargv') = {} /\ 2..(i' - 1) = {} BY <3>3
    <3> QED BY <3>4, Zenon DEF Heard, Said
  <2>2. CASE i > 1
    <3>1. Len(nargv) >= 1 /\ (Heard(flag, Len(nargv)) <=> Said(flag, i - 1))
      BY <1>1, <2>2 DEF Inv, Faithful
    <3>2. Said(flag, i - 1)' <=> Said(flag, i - 1) \/ Mentions(t, flag)
      <4>1. Said(flag, i) <=> Said(flag, i - 1) \/ Mentions(t, flag)
        BY <1>1, <2>2 DEF Said, t
      <4>2. i' - 1 = i BY <1>1
      <4>3. Said(flag, i - 1)' <=> Said(flag, i) BY <1>1, <4>2, Zenon DEF Said
      <4> QED BY <4>1, <4>3
    <3>3. ASSUME Heard(flag, Len(nargv))'
          PROVE  Heard(flag, Len(nargv)) \/ \E j \in 1..Len(e) : Mentions(e[j], flag)
      <4>1. PICK k \in 2..Len(nargv') : Mentions(nargv'[k], flag)
        BY <3>3 DEF Heard
      <4>2. CASE k <= Len(nargv)
        <5>1. k \in 2..Len(nargv) /\ nargv'[k] = nargv[k] BY <1>1, <1>5, <4>2
        <5> QED BY <4>1, <5>1, Zenon DEF Heard
      <4>3. CASE k > Len(nargv)
        <5>1. k - Len(nargv) \in 1..Len(e) /\ nargv'[k] = e[k - Len(nargv)]
          BY <1>1, <1>2, <1>5, <4>3
        <5> QED BY <4>1, <5>1, Zenon
      <4> QED BY <1>1, <1>5, <4>2, <4>3
    <3>4. ASSUME Heard(flag, Len(nargv))
          PROVE  Heard(flag, Len(nargv))'
      <4>1. PICK k \in 2..Len(nargv) : Mentions(nargv[k], flag)
        BY <3>4 DEF Heard
      <4>2. k \in 2..Len(nargv') /\ nargv'[k] = nargv[k] BY <1>1, <1>2, <1>5
      <4> QED BY <4>1, <4>2, Zenon DEF Heard
    <3>5. ASSUME NEW j \in 1..Len(e), Mentions(e[j], flag)
          PROVE  Heard(flag, Len(nargv))'
      <4>1. /\ Len(nargv) + j \in 2..Len(nargv')
            /\ nargv'[Len(nargv) + j] = e[j]
        BY <1>1, <1>2, <1>5, <3>1
      <4> QED BY <3>5, <4>1, Zenon DEF Heard
    <3> QED BY <1>4, <3>1, <3>2, <3>3, <3>4, <3>5, Zenon
  <2> QED BY <1>1, <2>1, <2>2
<1>10. Faithful'
  <2>1. argv' # <<>> /\ argv'[1].kind = "word" BY <1>1 DEF Inv, Faithful
  <2>2. i' # 1 /\ Len(nargv') >= 1
    BY <1>1, <1>2, <1>5, LenProperties
  <2> QED BY <1>1, <1>8, <1>9, <2>1, <2>2 DEF Faithful
<1>11. Acted'
  BY <1>1 DEF Inv, Acted, Normalize
<1> QED BY <1>6, <1>7, <1>10, <1>11 DEF Inv

LEMMA NormalizedInv == Inv /\ Normalized => Inv'
<1> SUFFICES ASSUME Inv, Normalized PROVE Inv' OBVIOUS
<1>1. /\ phase = "normalize" /\ phase' = "parse" /\ i = Len(argv) + 1 /\ i' = 2
      /\ Len(argv) >= 1 /\ argv \in Seq(Token) /\ nargv \in Seq(Token)
  BY DEF Inv, TypeOK, Room, Normalized, Faithful
<1>2. TypeOK' BY <1>1 DEF Inv, TypeOK, Normalized, Phases
<1>3. Room' BY <1>1 DEF Inv, Room, NargvFits, Normalized
<1>4. Faithful' BY <1>1 DEF Inv, Faithful, Normalized, Heard, Said
<1>5. Acted' BY <1>1 DEF Inv, Acted, Faithful, Normalized, Obeys, Heard
<1> QED BY <1>2, <1>3, <1>4, <1>5 DEF Inv

(* A turn of the parse loop has heard the flags of the tokens it takes.      *)
LEMMA ParseInv ==
  ASSUME Inv, TypeOK', Parsing,
         phase' = phase, argv' = argv, nargv' = nargv, alloc' = alloc,
         i' \in (i + 1)..(Len(nargv) + 1),
         state'.dump_ast <=> Heard("p", i' - 1), state'.dump_bytecode <=> Heard("q", i' - 1)
  PROVE  Inv'
<1>1. phase = "parse" BY DEF Parsing
<1>2. Room' BY <1>1 DEF Inv, Room, NargvFits
<1>3. Faithful' BY <1>1 DEF Inv, Faithful, Heard, Said
<1>4. i \in 2..Len(nargv) BY <1>1 DEF Inv, Acted, Parsing
<1>5. Obeys(i - 1)' BY DEF Obeys, Heard
<1>6. i' \in 2..(Len(nargv) + 1) BY <1>4
<1>7. Acted' BY <1>1, <1>5, <1>6 DEF Acted
<1> QED BY <1>2, <1>3, <1>7 DEF Inv

(* In the parse loop: where the token is, and what it says.                  *)
LEMMA AtToken ==
  ASSUME Inv, Parsing
  PROVE  /\ i \in 2..Len(nargv) /\ Cur \in Token /\ nargv \in Seq(Token) /\ Obeys(i - 1)
         /\ \A flag \in Flags : Is(flag) <=> Mentions(Cur, flag)
         /\ \A flag \in Flags : Heard(flag, i) <=> Heard(flag, i - 1) \/ Is(flag)
<1>1. /\ i \in 2..Len(nargv) /\ nargv \in Seq(Token) /\ Obeys(i - 1)
      /\ \A k \in 1..Len(nargv) : ~ IsGroup(nargv[k])
  BY DEF Inv, Acted, Faithful, TypeOK, Parsing
<1>2. Cur \in Token /\ ~ IsGroup(Cur) BY <1>1 DEF Cur
<1>3. \A flag \in Flags : Is(flag) <=> Mentions(Cur, flag)
  BY <1>2, Alone DEF Is
<1>4. \A flag \in Flags : Heard(flag, i) <=> Heard(flag, i - 1) \/ Mentions(Cur, flag)
  <2> SUFFICES ASSUME NEW flag \in Flags
               PROVE  Heard(flag, i) <=> Heard(flag, i - 1) \/ Mentions(Cur, flag)
    OBVIOUS
  <2>1. i \in Nat /\ i >= 2 BY <1>1
  <2> QED BY <2>1, HeardNext DEF Cur
<1> QED BY <1>1, <1>2, <1>3, <1>4

LEMMA OneFlag ==
  ASSUME NEW f, NEW g, Is(f), Is(g)
  PROVE  f = g
<1>1. <<f>> = <<g>> BY DEF Is
<1> QED BY <1>1

LEMMA DumpFlagInv == Inv /\ DumpFlag => Inv'
<1> SUFFICES ASSUME Inv, DumpFlag PROVE Inv' OBVIOUS
<1>1. Parsing BY DEF DumpFlag, Dump
<1>2. /\ i' = i + 1 /\ UNCHANGED <<phase, argv, nargv, alloc, literal, args, clargs>>
      /\ arg' = Null
  BY DEF DumpFlag, Dump
<1>3. state \in [dump_ast : BOOLEAN, dump_bytecode : BOOLEAN, eval : Token \cup {Null}]
  BY DEF Inv, TypeOK
<1>4. \/ Is("q") /\ state' = [state EXCEPT !.dump_bytecode = TRUE]
      \/ Is("p") /\ state' = [state EXCEPT !.dump_ast = TRUE]
  BY DEF DumpFlag, Dump
<1>5. ~ (Is("p") /\ Is("q")) BY OneFlag
<1>6. /\ state'.dump_ast <=> state.dump_ast \/ Is("p")
      /\ state'.dump_bytecode <=> state.dump_bytecode \/ Is("q")
  BY <1>3, <1>4, <1>5
<1>7. state' \in [dump_ast : BOOLEAN, dump_bytecode : BOOLEAN, eval : Token \cup {Null}]
  BY <1>3, <1>4
<1>8. i \in 2..Len(nargv) /\ nargv \in Seq(Token) /\ Obeys(i - 1)
  BY <1>1, AtToken
<1>9. Heard("p", i) <=> Heard("p", i - 1) \/ Is("p")
  BY <1>1, AtToken DEF Flags
<1>10. Heard("q", i) <=> Heard("q", i - 1) \/ Is("q")
  BY <1>1, AtToken DEF Flags
<1>11. /\ state'.dump_ast <=> Heard("p", i)
       /\ state'.dump_bytecode <=> Heard("q", i)
  BY <1>6, <1>8, <1>9, <1>10, Zenon DEF Obeys
<1>12. i' - 1 = i /\ i' \in (i + 1)..(Len(nargv) + 1) BY <1>2, <1>8
<1>13. TypeOK'
  BY <1>2, <1>7, <1>8 DEF Inv, TypeOK
<1> QED BY <1>1, <1>2, <1>11, <1>12, <1>13, ParseInv

(* A turn that sets no dump flag and takes no token of one.                  *)
LEMMA QuietInv ==
  ASSUME Inv, TypeOK', Parsing, ~ Is("p"), ~ Is("q"),
         phase' = phase, argv' = argv, nargv' = nargv, alloc' = alloc,
         state'.dump_ast = state.dump_ast, state'.dump_bytecode = state.dump_bytecode,
         \/ i' = i + 1
         \/ i' = i + 2 /\ i + 1 \in 1..Len(nargv) /\ nargv[i + 1].kind = "word"
  PROVE  Inv'
<1>1. i \in 2..Len(nargv) /\ nargv \in Seq(Token) /\ Obeys(i - 1)
  BY AtToken
<1>2. Heard("p", i) <=> Heard("p", i - 1)
  BY AtToken DEF Flags
<1>3. Heard("q", i) <=> Heard("q", i - 1)
  BY AtToken DEF Flags
<1>4. state'.dump_ast <=> Heard("p", i)
  BY <1>1, <1>2, Zenon DEF Obeys
<1>5. state'.dump_bytecode <=> Heard("q", i)
  BY <1>1, <1>3, Zenon DEF Obeys
<1>6. CASE i' = i + 1
  <2>1. i' - 1 = i /\ i' \in (i + 1)..(Len(nargv) + 1) BY <1>1, <1>6
  <2> QED BY <1>4, <1>5, <2>1, ParseInv
<1>7. CASE i' = i + 2 /\ i + 1 \in 1..Len(nargv) /\ nargv[i + 1].kind = "word"
  <2>1. /\ i' - 1 = i + 1 /\ i' \in (i + 1)..(Len(nargv) + 1)
        /\ i + 1 \in Nat /\ i + 1 >= 2 /\ i + 1 - 1 = i
    BY <1>1, <1>7
  <2>2. \A flag : ~ Mentions(nargv[i + 1], flag) BY <1>7 DEF Mentions
  <2>3. \A flag : Heard(flag, i + 1) <=> Heard(flag, i)
    <3> SUFFICES ASSUME NEW flag PROVE Heard(flag, i + 1) <=> Heard(flag, i)
      OBVIOUS
    <3> DEFINE n == i + 1
    <3>1. n \in Nat /\ n >= 2 /\ n - 1 = i BY <1>1
    <3> HIDE DEF n
    <3>2. Heard(flag, n) <=> Heard(flag, n - 1) \/ Mentions(nargv[n], flag)
      BY <3>1, HeardNext, Zenon
    <3>3. Heard(flag, n) <=> Heard(flag, i) BY <2>2, <3>1, <3>2 DEF n
    <3> QED BY <3>3 DEF n
  <2>4. /\ state'.dump_ast <=> Heard("p", i' - 1)
        /\ state'.dump_bytecode <=> Heard("q", i' - 1)
    BY <1>4, <1>5, <2>1, <2>3
  <2> QED BY <2>1, <2>4, ParseInv
<1> QED BY <1>6, <1>7

LEMMA EvalInv == Inv /\ Eval => Inv'
<1> SUFFICES ASSUME Inv, Eval PROVE Inv' OBVIOUS
<1>1. /\ Parsing /\ Is("e")
      /\ arg' = IF HasWordNext THEN nargv[i + 1] ELSE Null
      /\ state' = [state EXCEPT !.eval = arg']
      /\ i' = IF HasWordNext THEN i + 2 ELSE i + 1
      /\ UNCHANGED <<phase, argv, nargv, alloc, literal, args, clargs>>
  BY DEF Eval
<1>2. ~ Is("p") /\ ~ Is("q") BY <1>1, OneFlag
<1>3. i \in 2..Len(nargv) /\ nargv \in Seq(Token) BY <1>1, AtToken
<1>4. state \in [dump_ast : BOOLEAN, dump_bytecode : BOOLEAN, eval : Token \cup {Null}]
  BY DEF Inv, TypeOK
<1>5. arg' \in Token \cup {Null}
  <2>1. CASE HasWordNext
    <3>1. i + 1 \in 1..Len(nargv) BY <1>3, <2>1 DEF HasWordNext
    <3> QED BY <1>1, <1>3, <2>1, <3>1
  <2>2. CASE ~ HasWordNext BY <1>1, <2>2
  <2> QED BY <2>1, <2>2
<1>6. /\ state' \in [dump_ast : BOOLEAN, dump_bytecode : BOOLEAN, eval : Token \cup {Null}]
      /\ state'.dump_ast = state.dump_ast /\ state'.dump_bytecode = state.dump_bytecode
  BY <1>1, <1>4, <1>5
<1>7. i' \in Nat BY <1>1, <1>3
<1>8. TypeOK' BY <1>1, <1>5, <1>6, <1>7 DEF Inv, TypeOK
<1>9. HasWordNext => i + 1 \in 1..Len(nargv) /\ nargv[i + 1] \in Token
  BY <1>3 DEF HasWordNext
<1>10. \/ i' = i + 1
       \/ i' = i + 2 /\ i + 1 \in 1..Len(nargv) /\ nargv[i + 1].kind = "word"
  BY <1>1, <1>9 DEF HasWordNext, HasDash
<1> QED BY <1>1, <1>2, <1>6, <1>8, <1>10, QuietInv

LEMMA DashesInv == Inv /\ Dashes => Inv'
<1> SUFFICES ASSUME Inv, Dashes PROVE Inv' OBVIOUS
<1>1. /\ Parsing /\ ~ Is("p") /\ ~ Is("q") /\ literal' = TRUE /\ i' = i + 1
      /\ UNCHANGED <<phase, argv, nargv, alloc, arg, args, state, clargs>>
  BY DEF Dashes, Is
<1>2. TypeOK' BY <1>1 DEF Inv, TypeOK
<1> QED BY <1>1, <1>2, QuietInv

LEMMA ArgumentInv == Inv /\ Argument => Inv'
<1> SUFFICES ASSUME Inv, Argument PROVE Inv' OBVIOUS
<1>1. /\ Parsing /\ ~ Is("p") /\ ~ Is("q") /\ i' = i + 1 /\ Len(args) < MaxArgs
      /\ args' = Append(args, Cur)
      /\ UNCHANGED <<phase, argv, nargv, alloc, arg, literal, state, clargs>>
  BY DEF Argument, IsArgument, IsFlag, Flags
<1>2. Cur \in Token BY <1>1, AtToken
<1>3. args' \in Seq(Token) /\ Len(args') <= MaxArgs
  BY <1>1, <1>2, MaxArgsAssumption DEF Inv, TypeOK
<1>4. TypeOK' BY <1>1, <1>3 DEF Inv, TypeOK
<1> QED BY <1>1, <1>4, QuietInv

LEMMA ParsedInv == Inv /\ Parsed => Inv'
<1> SUFFICES ASSUME Inv, Parsed PROVE Inv' OBVIOUS
<1>1. /\ phase = "parse" /\ phase' = "main" /\ i > Len(nargv)
      /\ UNCHANGED <<argv, nargv, alloc, i, arg, literal, args, state, clargs>>
  BY DEF Parsed, Ends
<1>2. TypeOK' BY <1>1 DEF Inv, TypeOK, Phases
<1>3. Room' BY <1>1 DEF Inv, Room, NargvFits
<1>4. Faithful' BY <1>1 DEF Inv, Faithful, Heard, Said
<1>5. i \in 2..(Len(nargv) + 1) /\ Obeys(i - 1) /\ nargv \in Seq(Token)
  BY <1>1 DEF Inv, Acted, TypeOK
<1>6. i - 1 = Len(nargv) BY <1>1, <1>5
<1>7. Obeys(Len(nargv)) BY <1>5, <1>6
<1>8. Acted' BY <1>1, <1>7 DEF Acted, Obeys, Heard
<1> QED BY <1>2, <1>3, <1>4, <1>8 DEF Inv

LEMMA RunInv == Inv /\ Run => Inv'
<1> SUFFICES ASSUME Inv, Run PROVE Inv' OBVIOUS
<1>1. /\ phase' \in {"bytecode", "run"}
      /\ clargs' = [num |-> Len(args) - 1, raw |-> IF args = <<>> THEN <<>> ELSE Tail(args)]
      /\ UNCHANGED <<argv, nargv, alloc, i, arg, literal, args, state>>
  BY DEF Run
<1>2. args \in Seq(Token) /\ Len(args) <= MaxArgs BY DEF Inv, TypeOK
<1>3. clargs'.num \in -1..MaxArgs BY <1>1, <1>2, MaxArgsAssumption
<1>4. clargs'.raw \in Seq(Token) BY <1>1, <1>2
<1>5. TypeOK' BY <1>1, <1>3, <1>4 DEF Inv, TypeOK, Phases
<1>6. Room' BY <1>1 DEF Inv, Room, NargvFits
<1>7. Faithful' BY <1>1 DEF Inv, Faithful
<1>8. Acted' BY <1>1 DEF Acted
<1> QED BY <1>5, <1>6, <1>7, <1>8 DEF Inv
-----------------------------------------------------------------------------
LEMMA NextInv == Inv /\ [Next]_vars => Inv'
<1> SUFFICES ASSUME Inv, [Next]_vars PROVE Inv' OBVIOUS
<1>1. CASE Normalize BY <1>1, NormalizeInv
<1>2. CASE Normalized BY <1>2, NormalizedInv
<1>3. CASE Help BY <1>3, EndsInv DEF Help
<1>4. CASE DumpFlag BY <1>4, DumpFlagInv
<1>5. CASE Eval BY <1>5, EvalInv
<1>6. CASE Dashes BY <1>6, DashesInv
<1>7. CASE Unrecognized \/ TooMany BY <1>7, EndsInv DEF Unrecognized, TooMany
<1>8. CASE Argument BY <1>8, ArgumentInv
<1>9. CASE Parsed BY <1>9, ParsedInv
<1>10. CASE Repl \/ CannotOpen \/ SyntaxError \/ DumpAst
  BY <1>10, EndsInv DEF Repl, CannotOpen, SyntaxError, DumpAst
<1>11. CASE Run BY <1>11, RunInv
<1>12. CASE UNCHANGED vars
  BY <1>12 DEF vars, Inv, TypeOK, Room, NargvFits, Faithful, Acted, Obeys, Heard, Said
<1> QED BY <1>1, <1>2, <1>3, <1>4, <1>5, <1>6, <1>7, <1>8, <1>9, <1>10, <1>11, <1>12
        DEF Next, Ended
-----------------------------------------------------------------------------
(* Where the tokens of a command line s went in t: last[k] is the index of the *)
(* last token that s[k] became, for the first n of them.                      *)
Became(last, k, j) == last[k - 1] < j /\ j <= last[k]
Placed(last, t, n) ==
  /\ DOMAIN last = 0..n /\ last[0] = 0 /\ last[n] = Len(t)
  /\ \A k \in 0..n : last[k] \in Nat
  /\ \A k, l \in 0..n : k < l => last[k] < last[l]
  /\ \A j \in 1..Len(t) : \E k \in 1..n : Became(last, k, j)
SameToken(last, s, t, k) ==
  /\ HasDash(s[k]) => \A j \in 1..Len(t) : Became(last, k, j) => HasDash(t[j])
  /\ ~ HasDash(s[k]) => last[k] = last[k - 1] + 1 /\ t[last[k]] = s[k]
  /\ LastIsEval(t[last[k]]) <=> LastIsEval(s[k])
  /\ Mentions(s[k], "e") <=> \E j \in 1..Len(t) : Became(last, k, j) /\ LastIsEval(t[j])
Normal(last, s, t, n) == Placed(last, t, n) /\ \A k \in 1..n : SameToken(last, s, t, k)

(* The code of the last -e of the first n tokens of s.                        *)
After(s, k) == IF k < Len(s) /\ ~ HasDash(s[k + 1]) THEN s[k + 1] ELSE Null
NoEval(s, k, n) == \A l \in (k + 1)..n : ~ LastIsEval(s[l])
Evaluates(s, n, v) ==
  \/ NoEval(s, 1, n) /\ v = Null
  \/ \E k \in 2..n : LastIsEval(s[k]) /\ NoEval(s, k, n) /\ v = After(s, k)

(* The words of s, and those of its first n tokens that are kept.              *)
WordsOf(w, s) ==
  /\ DOMAIN w = 0..Len(s) /\ w[0] = <<>>
  /\ \A k \in 1..Len(s) : w[k] = IF HasDash(s[k]) THEN w[k - 1] ELSE Append(w[k - 1], s[k])
KeepsWord(s, k) == k > 1 /\ ~ HasDash(s[k]) /\ ~ LastIsEval(s[k - 1])
KeptOf(w, s, n) ==
  /\ DOMAIN w = 0..n /\ w[0] = <<>>
  /\ \A k \in 1..n : w[k] = IF KeepsWord(s, k) THEN Append(w[k - 1], s[k]) ELSE w[k - 1]
Keeps(s, t, n) == \E v, w : WordsOf(v, s) /\ KeptOf(w, t, n) /\ v[Len(s)] = w[n]

(* What was parsed of the words and of -e; the word of an -e is skipped.       *)
Skipped(s, k) == k <= Len(s) /\ ~ HasDash(s[k]) => ~ LastIsEval(s[k - 1])
Parting ==
  /\ phase = "normalize" => /\ \E last : Normal(last, argv, nargv, i - 1)
                            /\ args = <<>> /\ state.eval = Null
  /\ phase \in {"parse", "main"} => \E last : Normal(last, argv, nargv, Len(argv))
  /\ phase = "parse" => /\ Evaluates(nargv, i - 1, state.eval) /\ Keeps(args, nargv, i - 1)
                        /\ Skipped(nargv, i)
  /\ phase = "main" => /\ Evaluates(nargv, Len(nargv), state.eval)
                       /\ Keeps(args, nargv, Len(nargv))
-----------------------------------------------------------------------------
(* A token that is no group of several is an -e if it mentions one.            *)
LEMMA AloneEval ==
  ASSUME NEW t \in Token, ~ IsGroup(t)
  PROVE  /\ LastIsEval(t) <=> t.kind \in {"group", "long"} /\ t.letters = <<"e">>
         /\ LastIsEval(t) <=> Mentions(t, "e")
<1>1. "e" \in Flags
  BY DEF Flags
<1>2. Mentions(t, "e") <=> t.kind \in {"group", "long"} /\ t.letters = <<"e">>
  BY <1>1, Alone
<1>3. CASE t.kind \in {"group", "long"} /\ t.letters = <<"e">>
  <2>1. PICK w : w = <<"e">>
    OBVIOUS
  <2>2. Len(w) = 1 /\ w[1] = "e" /\ w # <<>>
    BY <2>1
  <2>3. LastIsEval(t)
    BY <1>3, <2>1, <2>2 DEF LastIsEval
  <2> QED
    BY <1>2, <1>3, <2>3
<1>4. CASE LastIsEval(t)
  <2>1. t.kind \in {"group", "long"} /\ t.letters # <<>> /\ t.letters[Len(t.letters)] = "e"
    BY <1>4 DEF LastIsEval
  <2>2. t.letters \in Seq(Letters)
    BY <2>1 DEF Token
  <2>3. Len(t.letters) \in DOMAIN t.letters
    BY <2>1, <2>2
  <2>4. Mentions(t, "e")
    BY <2>1, <2>3 DEF Mentions
  <2> QED
    BY <1>2, <1>4, <2>4
<1> QED
  BY <1>2, <1>3, <1>4

(* What a token says of -e, and whether it has a dash, survives its explosion. *)
LEMMA EvalExplosion ==
  ASSUME NEW t \in Token, NEW e, e = Exploded(t)
  PROVE  /\ e \in Seq(Token) /\ Len(e) >= 1
         /\ HasDash(t) => \A j \in 1..Len(e) : HasDash(e[j])
         /\ ~ HasDash(t) => Len(e) = 1 /\ e[1] = t
         /\ LastIsEval(e[Len(e)]) <=> LastIsEval(t)
         /\ Mentions(t, "e") <=> \E j \in 1..Len(e) : LastIsEval(e[j])
<1>1. /\ e \in Seq(Token) /\ Len(e) = 1 + Growth(t) /\ Growth(t) \in Nat
      /\ \A j \in 1..Len(e) : ~ IsGroup(e[j])
      /\ Mentions(t, "e") <=> \E j \in 1..Len(e) : Mentions(e[j], "e")
  BY Explosion, Zenon DEF Flags
<1>2. Len(e) >= 1 /\ \A j \in 1..Len(e) : e[j] \in Token
  BY <1>1
<1>3. \A j \in 1..Len(e) : LastIsEval(e[j]) <=> Mentions(e[j], "e")
  BY <1>1, <1>2, AloneEval
<1>4. Mentions(t, "e") <=> \E j \in 1..Len(e) : LastIsEval(e[j])
  BY <1>1, <1>3, Zenon
<1>5. CASE IsGroup(t)
  <2>1. /\ t.kind = "group" /\ t.letters \in Seq(Letters) /\ Len(t.letters) > 1
        /\ e = [j \in 1..Len(t.letters) |-> Group(<<t.letters[j]>>)]
    BY <1>5 DEF IsGroup, Token, Exploded
  <2>2. PICK m : m = Len(t.letters)
    OBVIOUS
  <2>3. m \in Nat /\ m > 1 /\ Len(e) = m /\ m \in 1..m
    BY <2>1, <2>2
  <2>4. \A j \in 1..m : e[j] = Group(<<t.letters[j]>>)
    BY <2>1, <2>2
  <2>5. \A j \in 1..m : HasDash(e[j])
    <3>1. \A l : HasDash(Group(l))
      BY DEF HasDash, Group
    <3> QED
      BY <2>4, <3>1, Zenon
  <2>6. LastIsEval(t) <=> t.letters[m] = "e"
    <3>1. t.letters # <<>>
      BY <2>1
    <3> QED
      BY <2>1, <2>2, <3>1 DEF LastIsEval
  <2>7. LastIsEval(e[m]) <=> t.letters[m] = "e"
    <3>1. PICK x : x = t.letters[m]
      OBVIOUS
    <3>2. e[m].kind = "group" /\ e[m].letters = <<x>>
      BY <2>3, <2>4, <3>1 DEF Group
    <3>3. LastIsEval(e[m]) <=> <<x>> = <<"e">>
      BY <1>1, <1>2, <2>3, <3>2, AloneEval
    <3>4. <<x>> = <<"e">> <=> x = "e"
      OBVIOUS
    <3> QED
      BY <3>1, <3>3, <3>4
  <2>8. HasDash(t)
    BY <2>1 DEF HasDash
  <2> QED
    BY <1>1, <1>4, <2>3, <2>5, <2>6, <2>7, <2>8
<1>6. CASE ~ IsGroup(t)
  <2>1. e = <<t>>
    BY <1>6 DEF Exploded
  <2>2. Len(e) = 1 /\ e[1] = t
    BY <2>1
  <2>3. \A j \in 1..Len(e) : e[j] = t
    BY <2>2
  <2>4. Len(e) >= 1
    BY <2>2
  <2> QED
    BY <1>1, <1>4, <2>2, <2>3, <2>4, Zenon
<1> QED
  BY <1>5, <1>6

(* One more token of the command line.                                       *)
LEMMA NormalStep ==
  ASSUME NEW s \in Seq(Token), NEW t \in Seq(Token), NEW n \in Nat, n + 1 \in 1..Len(s),
         NEW u, u = t \o Exploded(s[n + 1]), NEW last, Normal(last, s, t, n)
  PROVE  \E l : Normal(l, s, u, n + 1)
<1>1. PICK e, m, p : e = Exploded(s[n + 1]) /\ m = Len(t) /\ p = Len(u)
  OBVIOUS
<1>2. PICK x : x = s[n + 1]
  OBVIOUS
<1>3. x \in Token /\ e = Exploded(x)
  BY <1>1, <1>2
<1>4. /\ e \in Seq(Token) /\ Len(e) >= 1
      /\ HasDash(x) => \A j \in 1..Len(e) : HasDash(e[j])
      /\ ~ HasDash(x) => Len(e) = 1 /\ e[1] = x
      /\ LastIsEval(e[Len(e)]) <=> LastIsEval(x)
      /\ Mentions(x, "e") <=> \E j \in 1..Len(e) : LastIsEval(e[j])
  BY <1>3, EvalExplosion, Zenon
<1>5. PICK q : q = Len(e)
  OBVIOUS
<1>6. m \in Nat /\ q \in Nat /\ q >= 1 /\ p = m + q /\ p \in Nat
  <2>1. Len(u) = Len(t) + Len(e)
    BY <1>1, <1>4, Concatenation
  <2> QED
    BY <1>1, <1>4, <1>5, <2>1
<1>7. (\A j \in 1..m : u[j] = t[j]) /\ \A j \in (m + 1)..p : u[j] = e[j - m]
  BY <1>1, <1>4, Concatenation
<1>8. /\ DOMAIN last = 0..n /\ last[0] = 0 /\ last[n] = m
      /\ \A k \in 0..n : last[k] \in Nat
      /\ \A k, l \in 0..n : k < l => last[k] < last[l]
      /\ \A j \in 1..m : \E k \in 1..n : Became(last, k, j)
  BY <1>1 DEF Normal, Placed
<1>9. PICK h : h = [k \in 0..(n + 1) |-> IF k = n + 1 THEN p ELSE last[k]]
  OBVIOUS
<1>10. DOMAIN h = 0..(n + 1) /\ h[n + 1] = p /\ \A k \in 0..n : h[k] = last[k]
  BY <1>9
<1>11. \A k \in 0..n : last[k] <= m
  <2> SUFFICES ASSUME NEW k \in 0..n
               PROVE  last[k] <= last[n]
    BY <1>8
  <2>1. n \in 0..n /\ (k = n \/ k < n)
    OBVIOUS
  <2>2. last[k] = last[n] \/ last[k] < last[n]
    BY <1>8, <2>1
  <2>3. last[k] \in Nat /\ last[n] \in Nat
    BY <1>8, <2>1
  <2> QED
    BY <2>2, <2>3
<1>12. (\A k \in 1..n : \A j : Became(h, k, j) <=> Became(last, k, j))
       /\ \A j : Became(h, n + 1, j) <=> m < j /\ j <= p
  <2>1. \A k \in 1..n : k \in 0..n /\ k - 1 \in 0..n
    OBVIOUS
  <2>2. n \in 0..n /\ n + 1 - 1 = n
    OBVIOUS
  <2> QED
    BY <1>8, <1>10, <2>1, <2>2 DEF Became
<1>13. Placed(h, u, n + 1)
  <2>1. h[0] = 0 /\ h[n + 1] = Len(u) /\ \A k \in 0..(n + 1) : h[k] \in Nat
    BY <1>1, <1>6, <1>8, <1>10
  <2>2. \A k, l \in 0..(n + 1) : k < l => h[k] < h[l]
    <3> SUFFICES ASSUME NEW k \in 0..(n + 1), NEW l \in 0..(n + 1), k < l
                 PROVE  h[k] < h[l]
      OBVIOUS
    <3>1. k \in 0..n /\ h[k] = last[k] /\ last[k] \in Nat /\ last[k] <= m
      BY <1>8, <1>10, <1>11
    <3>2. CASE l = n + 1
      BY <1>6, <1>10, <3>1, <3>2
    <3>3. CASE l # n + 1
      <4>1. l \in 0..n /\ h[l] = last[l]
        BY <1>10, <3>3
      <4> QED
        BY <1>8, <3>1, <4>1
    <3> QED
      BY <3>2, <3>3
  <2>3. ASSUME NEW j \in 1..p
        PROVE  \E k \in 1..(n + 1) : Became(h, k, j)
    <3>1. CASE j <= m
      <4>1. j \in 1..m
        BY <1>6, <3>1
      <4>2. PICK k \in 1..n : Became(last, k, j)
        BY <1>8, <4>1
      <4>3. k \in 1..(n + 1)
        OBVIOUS
      <4> QED
        BY <1>12, <4>2, <4>3
    <3>2. CASE j > m
      <4>1. n + 1 \in 1..(n + 1)
        OBVIOUS
      <4>2. m < j /\ j <= p
        BY <1>6, <3>2
      <4> QED
        BY <1>12, <3>2, <4>1, <4>2, Zenon
    <3> QED
      BY <1>6, <3>1, <3>2
  <2> QED
    BY <1>1, <1>10, <2>1, <2>2, <2>3 DEF Placed
<1>14. ASSUME NEW k \in 1..n
       PROVE  SameToken(h, s, u, k)
  <2>1. SameToken(last, s, t, k)
    BY DEF Normal
  <2>2. k \in 0..n /\ k - 1 \in 0..n /\ h[k] = last[k] /\ h[k - 1] = last[k - 1]
    BY <1>10
  <2>3. last[k] \in 1..m /\ u[last[k]] = t[last[k]]
    <3>1. last[k - 1] \in Nat /\ last[k] \in Nat /\ last[k - 1] < last[k] /\ last[k] <= m
      BY <1>8, <1>11, <2>2
    <3>2. last[k] \in 1..m
      BY <1>6, <3>1
    <3> QED
      BY <1>7, <3>2
  <2>4. \A j \in 1..p : Became(h, k, j) => j \in 1..m /\ u[j] = t[j]
    <3> SUFFICES ASSUME NEW j \in 1..p, Became(h, k, j)
                 PROVE  j \in 1..m /\ u[j] = t[j]
      OBVIOUS
    <3>1. j <= last[k]
      BY <2>2 DEF Became
    <3>2. j \in 1..m
      BY <1>6, <2>3, <3>1
    <3> QED
      BY <1>7, <3>2
  <2>5. \A j \in 1..m : j \in 1..p
    BY <1>6
  <2>6. HasDash(s[k]) => \A j \in 1..p : Became(h, k, j) => HasDash(u[j])
    BY <1>1, <1>12, <2>1, <2>4, Zenon DEF SameToken
  <2>7. ~ HasDash(s[k]) => h[k] = h[k - 1] + 1 /\ u[h[k]] = s[k]
    BY <2>1, <2>2, <2>3, Zenon DEF SameToken
  <2>8. LastIsEval(u[h[k]]) <=> LastIsEval(s[k])
    BY <2>1, <2>2, <2>3, Zenon DEF SameToken
  <2>9. Mentions(s[k], "e") <=> \E j \in 1..m : Became(last, k, j) /\ LastIsEval(t[j])
    BY <1>1, <2>1, Zenon DEF SameToken
  <2>10. (\E j \in 1..m : Became(last, k, j) /\ LastIsEval(t[j]))
         <=> \E j \in 1..p : Became(h, k, j) /\ LastIsEval(u[j])
    BY <1>7, <1>12, <2>4, <2>5, Zenon
  <2> QED
    BY <1>1, <2>6, <2>7, <2>8, <2>9, <2>10, Zenon DEF SameToken
<1>15. SameToken(h, s, u, n + 1)
  <2>1. h[n] = m /\ n + 1 - 1 = n
    BY <1>8, <1>10
  <2>2. u[p] = e[q] /\ p \in (m + 1)..p /\ p - m = q
    <3>1. p \in (m + 1)..p /\ p - m = q
      BY <1>6
    <3> QED
      BY <1>7, <3>1
  <2>3. \A j \in 1..p : Became(h, n + 1, j) => j - m \in 1..q /\ u[j] = e[j - m]
    <3> SUFFICES ASSUME NEW j \in 1..p, Became(h, n + 1, j)
                 PROVE  j - m \in 1..q /\ u[j] = e[j - m]
      OBVIOUS
    <3>1. m < j /\ j <= p
      BY <1>12
    <3>2. j \in (m + 1)..p /\ j - m \in 1..q
      BY <1>6, <3>1
    <3> QED
      BY <1>7, <3>2
  <2>4. \A j \in 1..q : m + j \in 1..p /\ Became(h, n + 1, m + j) /\ u[m + j] = e[j]
    <3> SUFFICES ASSUME NEW j \in 1..q
                 PROVE  m + j \in 1..p /\ Became(h, n + 1, m + j) /\ u[m + j] = e[j]
      OBVIOUS
    <3>1. PICK l : l = m + j
      OBVIOUS
    <3>2. l \in 1..p /\ l \in (m + 1)..p /\ m < l /\ l <= p /\ l - m = j
      BY <1>6, <3>1
    <3>3. u[l] = e[j]
      BY <1>7, <3>2
    <3>4. Became(h, n + 1, l)
      BY <1>12, <3>2
    <3> QED
      BY <3>1, <3>2, <3>3, <3>4
  <2>5. HasDash(x) => \A j \in 1..p : Became(h, n + 1, j) => HasDash(u[j])
    BY <1>4, <1>5, <2>3, Zenon
  <2>6. ~ HasDash(x) => h[n + 1] = h[n] + 1 /\ u[h[n + 1]] = x
    BY <1>4, <1>5, <1>6, <1>10, <2>1, <2>2
  <2>7. LastIsEval(u[h[n + 1]]) <=> LastIsEval(x)
    BY <1>4, <1>5, <1>10, <2>2, Zenon
  <2>8. Mentions(x, "e") <=> \E j \in 1..p : Became(h, n + 1, j) /\ LastIsEval(u[j])
    BY <1>4, <1>5, <2>3, <2>4, Zenon
  <2> QED
    <3>1. PICK k : k = n + 1
      OBVIOUS
    <3>2. x = s[k] /\ h[k - 1] = h[n] /\ h[n + 1] = h[k]
      <4>1. k - 1 = n
        BY <3>1
      <4> QED
        BY <1>2, <3>1, <4>1, Zenon
    <3>3. ~ HasDash(s[k]) => h[k] = h[k - 1] + 1 /\ u[h[k]] = s[k]
      BY <2>6, <3>2, Zenon
    <3>4. HasDash(s[k]) => \A j \in 1..p : Became(h, k, j) => HasDash(u[j])
      BY <2>5, <3>1, <3>2, Zenon
    <3>5. LastIsEval(u[h[k]]) <=> LastIsEval(s[k])
      BY <2>7, <3>2, Zenon
    <3>6. Mentions(s[k], "e") <=> \E j \in 1..p : Became(h, k, j) /\ LastIsEval(u[j])
      BY <2>8, <3>1, <3>2, Zenon
    <3>7. SameToken(h, s, u, k)
      BY <1>1, <3>3, <3>4, <3>5, <3>6, Zenon DEF SameToken
    <3> QED
      BY <3>1, <3>7
<1>16. \A k \in 1..(n + 1) : k \in 1..n \/ k = n + 1
  OBVIOUS
<1>17. Normal(h, s, u, n + 1)
  BY <1>13, <1>14, <1>15, <1>16, Zenon DEF Normal
<1> QED
  BY <1>17

(* What was taken of the tokens seen: one more token.                        *)
LEMMA WordsStep ==
  ASSUME NEW s \in Seq(Token), NEW x \in Token, NEW v, WordsOf(v, s), NEW u, u = Append(s, x)
  PROVE  \E w : /\ WordsOf(w, u)
                /\ w[Len(u)] = IF HasDash(x) THEN v[Len(s)] ELSE Append(v[Len(s)], x)
<1>1. PICK n, y : /\ n = Len(s)
                  /\ y = (IF HasDash(x) THEN v[Len(s)] ELSE Append(v[Len(s)], x))
  OBVIOUS
<1>2. n \in Nat /\ Len(u) = n + 1 /\ u[n + 1] = x /\ \A k \in 1..n : u[k] = s[k]
  BY <1>1, AppendProperties, LenProperties
<1>3. /\ DOMAIN v = 0..n /\ v[0] = <<>>
      /\ \A k \in 1..n : v[k] = IF HasDash(s[k]) THEN v[k - 1] ELSE Append(v[k - 1], s[k])
  BY <1>1 DEF WordsOf
<1>4. PICK w : w = [k \in 0..(n + 1) |-> IF k = n + 1 THEN y ELSE v[k]]
  OBVIOUS
<1>5. DOMAIN w = 0..(n + 1) /\ w[n + 1] = y /\ (\A k \in 0..n : w[k] = v[k]) /\ w[0] = <<>>
  BY <1>2, <1>3, <1>4
<1>6. ASSUME NEW k \in 1..(n + 1)
      PROVE  w[k] = IF HasDash(u[k]) THEN w[k - 1] ELSE Append(w[k - 1], u[k])
  <2>1. CASE k = n + 1
    <3>1. k - 1 = n /\ n \in 0..n
      BY <1>2, <2>1
    <3>2. w[k - 1] = v[n] /\ u[k] = x /\ w[k] = y
      BY <1>2, <1>5, <2>1, <3>1
    <3> QED
      BY <1>1, <3>2, Zenon
  <2>2. CASE k # n + 1
    <3>1. k \in 1..n /\ k \in 0..n /\ k - 1 \in 0..n
      BY <1>2, <2>2
    <3> QED
      BY <1>2, <1>3, <1>5, <3>1, Zenon
  <2> QED
    BY <2>1, <2>2
<1>7. WordsOf(w, u)
  BY <1>2, <1>5, <1>6, Zenon DEF WordsOf
<1> QED
  BY <1>1, <1>2, <1>5, <1>7, Zenon

LEMMA KeptStep ==
  ASSUME NEW s, NEW n \in Nat, NEW v, KeptOf(v, s, n)
  PROVE  \E w : /\ KeptOf(w, s, n + 1)
                /\ w[n + 1] = IF KeepsWord(s, n + 1) THEN Append(v[n], s[n + 1]) ELSE v[n]
<1>1. PICK y : y = (IF KeepsWord(s, n + 1) THEN Append(v[n], s[n + 1]) ELSE v[n])
  OBVIOUS
<1>2. PICK w : w = [k \in 0..(n + 1) |-> IF k = n + 1 THEN y ELSE v[k]]
  OBVIOUS
<1>3. /\ DOMAIN v = 0..n /\ v[0] = <<>>
      /\ \A k \in 1..n : v[k] = IF KeepsWord(s, k) THEN Append(v[k - 1], s[k]) ELSE v[k - 1]
  BY Zenon DEF KeptOf
<1>4. DOMAIN w = 0..(n + 1) /\ w[n + 1] = y /\ (\A k \in 0..n : w[k] = v[k]) /\ w[0] = <<>>
  BY <1>2, <1>3
<1>5. ASSUME NEW k \in 1..(n + 1)
      PROVE  w[k] = IF KeepsWord(s, k) THEN Append(w[k - 1], s[k]) ELSE w[k - 1]
  <2>1. CASE k = n + 1
    <3>1. k - 1 = n /\ n \in 0..n
      BY <2>1
    <3>2. w[k - 1] = v[n] /\ w[k] = y
      BY <1>4, <2>1, <3>1
    <3> QED
      BY <1>1, <2>1, <3>2, Zenon
  <2>2. CASE k # n + 1
    <3>1. k \in 1..n /\ k \in 0..n /\ k - 1 \in 0..n
      BY <2>2
    <3> QED
      BY <1>3, <1>4, <3>1, Zenon
  <2> QED
    BY <2>1, <2>2
<1>6. KeptOf(w, s, n + 1)
  BY <1>4, <1>5, Zenon DEF KeptOf
<1> QED
  BY <1>1, <1>4, <1>6, Zenon

(* A token that is no word to keep leaves the words as they are.             *)
LEMMA KeepsStep ==
  ASSUME NEW s \in Seq(Token), NEW t, NEW n \in Nat, Keeps(s, t, n)
  PROVE  /\ ~ KeepsWord(t, n + 1) => Keeps(s, t, n + 1)
         /\ \A x \in Token : HasDash(x) => Keeps(Append(s, x), t, n)
         /\ t[n + 1] \in Token /\ KeepsWord(t, n + 1) => Keeps(Append(s, t[n + 1]), t, n + 1)
<1>1. PICK v, w : WordsOf(v, s) /\ KeptOf(w, t, n) /\ v[Len(s)] = w[n]
  BY DEF Keeps
<1>2. PICK y : /\ KeptOf(y, t, n + 1)
               /\ y[n + 1] = IF KeepsWord(t, n + 1) THEN Append(w[n], t[n + 1]) ELSE w[n]
  BY <1>1, KeptStep
<1>3. ~ KeepsWord(t, n + 1) => Keeps(s, t, n + 1)
  BY <1>1, <1>2, Zenon DEF Keeps
<1>4. ASSUME NEW x \in Token, HasDash(x)
      PROVE  Keeps(Append(s, x), t, n)
  <2>1. PICK z : /\ WordsOf(z, Append(s, x))
                 /\ z[Len(Append(s, x))] = IF HasDash(x) THEN v[Len(s)] ELSE Append(v[Len(s)], x)
    BY <1>1, WordsStep
  <2> QED
    BY <1>1, <1>4, <2>1, Zenon DEF Keeps
<1>5. ASSUME NEW x \in Token, x = t[n + 1], KeepsWord(t, n + 1)
      PROVE  Keeps(Append(s, x), t, n + 1)
  <2>1. PICK z : /\ WordsOf(z, Append(s, x))
                 /\ z[Len(Append(s, x))] = IF HasDash(x) THEN v[Len(s)] ELSE Append(v[Len(s)], x)
    BY <1>1, WordsStep
  <2>2. ~ HasDash(x)
    BY <1>5, Zenon DEF KeepsWord
  <2> QED
    BY <1>1, <1>2, <1>5, <2>1, <2>2, Zenon DEF Keeps
<1> QED
  BY <1>3, <1>4, <1>5, Zenon

LEMMA EvaluatesStep ==
  ASSUME NEW s, NEW n \in Nat, n >= 1, NEW v, Evaluates(s, n, v)
  PROVE  /\ ~ LastIsEval(s[n + 1]) => Evaluates(s, n + 1, v)
         /\ LastIsEval(s[n + 1]) => Evaluates(s, n + 1, After(s, n + 1))
<1>1. ASSUME NEW k \in Nat, NoEval(s, k, n), ~ LastIsEval(s[n + 1])
      PROVE  NoEval(s, k, n + 1)
  <2>1. \A l \in (k + 1)..(n + 1) : l \in (k + 1)..n \/ l = n + 1
    BY <1>1
  <2> QED
    BY <1>1, <2>1, Zenon DEF NoEval
<1>2. \A k \in 2..n : k \in Nat /\ k \in 2..(n + 1)
  OBVIOUS
<1>3. ~ LastIsEval(s[n + 1]) => Evaluates(s, n + 1, v)
  BY <1>1, <1>2, Zenon DEF Evaluates
<1>4. n + 1 \in 2..(n + 1)
  OBVIOUS
<1>5. NoEval(s, n + 1, n + 1)
  <2>1. (n + 1 + 1)..(n + 1) = {}
    OBVIOUS
  <2> QED
    BY <2>1, Zenon DEF NoEval
<1>6. LastIsEval(s[n + 1]) => Evaluates(s, n + 1, After(s, n + 1))
  BY <1>4, <1>5, Zenon DEF Evaluates
<1> QED
  BY <1>3, <1>6

-----------------------------------------------------------------------------
LEMMA InitParting == Init => Parting
<1> SUFFICES ASSUME Init PROVE Parting
  OBVIOUS
<1>1. phase = "normalize" /\ i = 1 /\ nargv = <<>> /\ args = <<>> /\ state.eval = Null
  BY DEF Init
<1>2. PICK last : last = [k \in 0..0 |-> 0]
  OBVIOUS
<1>3. DOMAIN last = 0..0 /\ last[0] = 0 /\ 1..0 = {} /\ \A k \in 0..0 : k = 0
  BY <1>2
<1>4. Len(<<>>) = 0
  OBVIOUS
<1>5. Placed(last, <<>>, 0)
  BY <1>3, <1>4 DEF Placed
<1>6. Normal(last, argv, nargv, i - 1)
  BY <1>1, <1>3, <1>5 DEF Normal
<1> QED
  BY <1>1, <1>6, Zenon DEF Parting

LEMMA NormalizeParting ==
  ASSUME Inv, Parting, Normalize
  PROVE  Parting'
<1>1. /\ phase = "normalize" /\ phase' = phase /\ argv' = argv
      /\ nargv' = nargv \o Exploded(argv[i])
      /\ i' = i + 1 /\ args' = args /\ state' = state
  BY DEF Normalize
<1>2. argv \in Seq(Token) /\ nargv \in Seq(Token) /\ i \in 1..Len(argv)
  BY DEF Inv, TypeOK, Room, Normalize
<1>3. PICK n : n = i - 1
  OBVIOUS
<1>4. n \in Nat /\ n + 1 = i /\ n + 1 \in 1..Len(argv) /\ i' - 1 = n + 1
  BY <1>1, <1>2, <1>3
<1>5. PICK last : Normal(last, argv, nargv, n)
  BY <1>1, <1>3, Zenon DEF Parting
<1>6. PICK u : u = nargv'
  OBVIOUS
<1>7. u = nargv \o Exploded(argv[n + 1])
  BY <1>1, <1>4, <1>6
<1>8. \E l : Normal(l, argv, u, n + 1)
  BY <1>2, <1>4, <1>5, <1>7, NormalStep
<1>9. \E l : Normal(l, argv', nargv', i' - 1)
  BY <1>1, <1>4, <1>6, <1>8
<1>10. args' = <<>> /\ state'.eval = Null
  BY <1>1, Zenon DEF Parting
<1> QED
  BY <1>1, <1>9, <1>10, Zenon DEF Parting

(* The first token is the name of the program.                               *)
LEMMA FirstToken ==
  ASSUME NEW s \in Seq(Token), NEW t, NEW last, NEW n \in Nat, n >= 1, Normal(last, s, t, n),
         ~ HasDash(s[1])
  PROVE  last[1] = 1 /\ t[1] = s[1] /\ Len(t) >= 1
<1>1. 1 \in 1..n /\ 1 - 1 = 0 /\ 0 + 1 = 1 /\ 0 \in 0..n /\ n \in 0..n /\ 1 \in 0..n
  OBVIOUS
<1>2. last[0] = 0 /\ last[n] = Len(t)
  BY Zenon DEF Normal, Placed
<1>3. last[1] = last[1 - 1] + 1 /\ t[last[1]] = s[1]
  BY <1>1, Zenon DEF Normal, SameToken
<1>4. last[1] = 1
  BY <1>2, <1>3
<1>5. n = 1 \/ last[1] < last[n]
  <2>1. n = 1 \/ 1 < n
    OBVIOUS
  <2> QED
    BY <1>1, <2>1, Zenon DEF Normal, Placed
<1>6. last[n] \in Nat
  BY <1>1, Zenon DEF Normal, Placed
<1> QED
  BY <1>2, <1>3, <1>4, <1>5, <1>6

LEMMA NormalizedParting ==
  ASSUME Inv, Parting, Normalized
  PROVE  Parting'
<1>1. /\ phase = "normalize" /\ phase' = "parse" /\ argv' = argv /\ nargv' = nargv
      /\ i' = 2 /\ args' = args /\ state' = state /\ i > Len(argv)
  BY DEF Normalized
<1>2. /\ argv \in Seq(Token) /\ nargv \in Seq(Token) /\ i - 1 = Len(argv)
      /\ Len(argv) >= 1 /\ argv[1].kind = "word"
  BY <1>1 DEF Inv, TypeOK, Room, Faithful
<1>3. PICK last : Normal(last, argv, nargv, Len(argv))
  BY <1>1, <1>2 DEF Parting
<1>4. args = <<>> /\ state.eval = Null
  BY <1>1, Zenon DEF Parting
<1>5. Evaluates(nargv, 1, Null)
  <2>1. 2..1 = {} /\ (1 + 1)..1 = {}
    OBVIOUS
  <2> QED
    BY <2>1, Zenon DEF Evaluates, NoEval
<1>6. Keeps(<<>>, nargv, 1)
  <2>1. PICK v : v = [k \in 0..0 |-> <<>>]
    OBVIOUS
  <2>2. DOMAIN v = 0..0 /\ v[0] = <<>> /\ 1..0 = {} /\ Len(<<>>) = 0
    BY <2>1
  <2>3. WordsOf(v, <<>>)
    BY <2>2, Zenon DEF WordsOf
  <2>4. KeptOf(v, nargv, 0)
    BY <2>2, Zenon DEF KeptOf
  <2>5. Keeps(<<>>, nargv, 0)
    BY <2>2, <2>3, <2>4, Zenon DEF Keeps
  <2>6. ~ KeepsWord(nargv, 1) /\ 0 + 1 = 1 /\ <<>> \in Seq(Token)
    BY DEF KeepsWord
  <2> QED
    BY <2>5, <2>6, KeepsStep
<1>7. Skipped(nargv, 2)
  <2>1. nargv[1].kind = "word"
    <3>1. ~ HasDash(argv[1])
      BY <1>2 DEF HasDash
    <3>2. Len(argv) \in Nat
      BY <1>2
    <3>3. nargv[1] = argv[1]
      BY <1>2, <1>3, <3>1, <3>2, FirstToken
    <3> QED
      BY <1>2, <3>3
  <2>2. ~ LastIsEval(nargv[1]) /\ 2 - 1 = 1
    BY <2>1 DEF LastIsEval
  <2> QED
    BY <2>2 DEF Skipped
<1>8. i' - 1 = 1
  BY <1>1
<1> QED
  BY <1>1, <1>3, <1>4, <1>5, <1>6, <1>7, <1>8, Zenon DEF Parting

(* In the parse loop: the token after the n that were seen.                   *)
LEMMA PartsAtToken ==
  ASSUME Inv, Parting, Parsing
  PROVE  /\ i \in 2..Len(nargv) /\ Cur \in Token /\ nargv \in Seq(Token) /\ args \in Seq(Token)
         /\ Cur = nargv[i] /\ i - 1 \in Nat /\ i - 1 + 1 = i /\ i - 1 >= 1
         /\ LastIsEval(Cur) <=> Is("e")
         /\ LastIsEval(Cur) => HasDash(Cur)
         /\ Evaluates(nargv, i - 1, state.eval) /\ Keeps(args, nargv, i - 1)
         /\ ~ HasDash(Cur) => ~ LastIsEval(nargv[i - 1])
<1>1. i \in 2..Len(nargv) /\ Cur \in Token /\ nargv \in Seq(Token) /\ phase = "parse"
  BY AtToken DEF Parsing
<1>2. args \in Seq(Token)
  BY DEF Inv, TypeOK
<1>3. ~ IsGroup(Cur)
  <2>1. i \in 1..Len(nargv)
    BY <1>1
  <2> QED
    BY <2>1, Zenon DEF Inv, Faithful, Cur
<1>4. LastIsEval(Cur) <=> Is("e")
  BY <1>1, <1>3, AloneEval DEF Is
<1>5. LastIsEval(Cur) => HasDash(Cur)
  BY DEF LastIsEval, HasDash
<1>6. Evaluates(nargv, i - 1, state.eval) /\ Keeps(args, nargv, i - 1) /\ Skipped(nargv, i)
  BY <1>1, Zenon DEF Parting
<1>7. i - 1 \in Nat /\ i - 1 + 1 = i /\ i - 1 >= 1 /\ i <= Len(nargv)
  BY <1>1
<1> QED
  BY <1>1, <1>2, <1>4, <1>5, <1>6, <1>7, Zenon DEF Skipped, Cur

(* The parse loop leaves the tokens where they are.                          *)
LEMMA ParseParting ==
  ASSUME Parting, phase = "parse", phase' = "parse", argv' = argv, nargv' = nargv,
         Evaluates(nargv, i' - 1, state'.eval), Keeps(args', nargv, i' - 1), Skipped(nargv, i')
  PROVE  Parting'
<1>1. PICK last : Normal(last, argv, nargv, Len(argv))
  BY DEF Parting
<1>2. Normal(last, argv', nargv', Len(argv'))
  BY <1>1
<1>3. Evaluates(nargv', i' - 1, state'.eval) /\ Keeps(args', nargv', i' - 1) /\ Skipped(nargv', i')
  OBVIOUS
<1> QED
  BY <1>2, <1>3, Zenon DEF Parting

(* A turn of the parse loop for another token than -e.                       *)
LEMMA PlainParting ==
  ASSUME Inv, Parting, Parsing, ~ Is("e"), i' = i + 1, phase' = phase, argv' = argv,
         nargv' = nargv, state'.eval = state.eval,
         \/ HasDash(Cur) /\ (args' = args \/ args' = Append(args, Cur))
         \/ ~ HasDash(Cur) /\ args' = Append(args, Cur)
  PROVE  Parting'
<1>1. PICK n, s, a, e : n = i - 1 /\ s = nargv /\ a = args /\ e = state.eval
  OBVIOUS
<1>2. /\ Cur \in Token /\ s \in Seq(Token) /\ a \in Seq(Token) /\ Cur = s[n + 1] /\ n \in Nat
      /\ n + 1 = i /\ n >= 1 /\ ~ LastIsEval(Cur) /\ Evaluates(s, n, e) /\ Keeps(a, s, n)
      /\ ~ HasDash(Cur) => ~ LastIsEval(s[n])
  BY <1>1, PartsAtToken
<1>3. i' - 1 = n + 1 /\ i' = n + 1 + 1 /\ n + 1 + 1 - 1 = n + 1 /\ n + 1 - 1 = n /\ n + 1 > 1
  BY <1>2
<1>4. Evaluates(s, n + 1, e)
  BY <1>2, EvaluatesStep
<1>5. Skipped(s, n + 1 + 1)
  BY <1>2, <1>3, Zenon DEF Skipped
<1>6. Keeps(args', s, n + 1)
  <2>1. CASE HasDash(Cur)
    <3>1. ~ KeepsWord(s, n + 1)
      BY <1>2, <2>1, Zenon DEF KeepsWord
    <3>2. Keeps(a, s, n + 1) /\ Keeps(Append(a, Cur), s, n)
      BY <1>2, <2>1, <3>1, KeepsStep
    <3>3. Append(a, Cur) \in Seq(Token)
      BY <1>2
    <3>4. Keeps(Append(a, Cur), s, n + 1)
      BY <1>2, <3>1, <3>2, <3>3, KeepsStep
    <3> QED
      BY <1>1, <2>1, <3>2, <3>4
  <2>2. CASE ~ HasDash(Cur)
    <3>1. KeepsWord(s, n + 1)
      <4>1. PICK c : c = n + 1
        OBVIOUS
      <4>2. c > 1 /\ c - 1 = n
        BY <1>2, <4>1
      <4>3. KeepsWord(s, c)
        BY <1>2, <2>2, <4>1, <4>2, Zenon DEF KeepsWord
      <4> QED
        BY <4>1, <4>3
    <3>2. Keeps(Append(a, Cur), s, n + 1)
      BY <1>2, <3>1, KeepsStep
    <3> QED
      BY <1>1, <2>2, <3>2
  <2> QED
    BY <2>1, <2>2
<1>7. phase = "parse"
  BY DEF Parsing
<1> QED
  BY <1>1, <1>3, <1>4, <1>5, <1>6, <1>7, ParseParting

LEMMA EvalParting ==
  ASSUME Inv, Parting, Eval
  PROVE  Parting'
<1>1. /\ Parsing /\ Is("e") /\ phase' = phase /\ argv' = argv /\ nargv' = nargv /\ args' = args
      /\ arg' = IF HasWordNext THEN nargv[i + 1] ELSE Null
      /\ state' = [state EXCEPT !.eval = arg']
      /\ i' = IF HasWordNext THEN i + 2 ELSE i + 1
  BY DEF Eval
<1>2. state'.eval = IF HasWordNext THEN nargv[i + 1] ELSE Null
  <2>1. state \in [dump_ast : BOOLEAN, dump_bytecode : BOOLEAN, eval : Token \cup {Null}]
    BY DEF Inv, TypeOK
  <2>2. state'.eval = arg'
    BY <1>1, <2>1
  <2> QED
    BY <1>1, <2>2, Zenon
<1>3. PICK n, s, a : n = i - 1 /\ s = nargv /\ a = args
  OBVIOUS
<1>4. /\ Cur \in Token /\ s \in Seq(Token) /\ a \in Seq(Token) /\ Cur = s[n + 1] /\ n \in Nat
      /\ n + 1 = i /\ n >= 1 /\ LastIsEval(Cur) /\ HasDash(Cur)
      /\ Evaluates(s, n, state.eval) /\ Keeps(a, s, n)
  BY <1>1, <1>3, PartsAtToken
<1>5. PICK m : m = n + 1
  OBVIOUS
<1>6. m \in Nat /\ m >= 1 /\ m = i /\ LastIsEval(s[m]) /\ HasDash(s[m])
  BY <1>4, <1>5
<1>7. Evaluates(s, m, After(s, m))
  BY <1>4, <1>5, EvaluatesStep
<1>8. Keeps(a, s, m)
  <2>1. ~ KeepsWord(s, m)
    BY <1>6, Zenon DEF KeepsWord
  <2> QED
    BY <1>4, <1>5, <2>1, KeepsStep
<1>9. After(s, m) = state'.eval /\ (HasWordNext <=> m < Len(s) /\ ~ HasDash(s[m + 1]))
  BY <1>2, <1>3, <1>6, Zenon DEF After, HasWordNext
<1>10. phase = "parse"
  BY <1>1 DEF Parsing
<1>11. CASE HasWordNext
  <2>1. i' - 1 = m + 1 /\ i' = m + 1 + 1 /\ m + 1 + 1 - 1 = m + 1 /\ m + 1 - 1 = m
    BY <1>1, <1>6, <1>11
  <2>2. ~ HasDash(s[m + 1]) /\ ~ LastIsEval(s[m + 1])
    <3>1. ~ HasDash(s[m + 1])
      BY <1>9, <1>11
    <3> QED
      BY <3>1 DEF HasDash, LastIsEval
  <2>3. Evaluates(s, m + 1, state'.eval)
    BY <1>6, <1>7, <1>9, <2>2, EvaluatesStep
  <2>4. Keeps(a, s, m + 1)
    <3>1. ~ KeepsWord(s, m + 1)
      <4>1. PICK c : c = m + 1
        OBVIOUS
      <4>2. c - 1 = m
        BY <1>6, <4>1
      <4>3. ~ KeepsWord(s, c)
        BY <1>6, <4>2, Zenon DEF KeepsWord
      <4> QED
        BY <4>1, <4>3
    <3> QED
      BY <1>4, <1>6, <1>8, <3>1, KeepsStep
  <2>5. Skipped(s, m + 1 + 1)
    BY <2>1, <2>2, Zenon DEF Skipped
  <2> QED
    BY <1>1, <1>3, <1>10, <2>1, <2>3, <2>4, <2>5, ParseParting
<1>12. CASE ~ HasWordNext
  <2>1. i' - 1 = m /\ i' = m + 1
    BY <1>1, <1>6, <1>12
  <2>2. Skipped(s, m + 1)
    <3>1. ~ (m < Len(s)) \/ HasDash(s[m + 1])
      BY <1>9, <1>12
    <3>2. ~ (m < Len(s)) => ~ (m + 1 <= Len(s))
      BY <1>4, <1>6
    <3> QED
      BY <3>1, <3>2, Zenon DEF Skipped
  <2> QED
    BY <1>1, <1>3, <1>7, <1>8, <1>9, <1>10, <2>1, <2>2, ParseParting
<1> QED
  BY <1>11, <1>12

LEMMA ParsedParting ==
  ASSUME Inv, Parting, Parsed
  PROVE  Parting'
<1>1. /\ phase = "parse" /\ phase' = "main" /\ argv' = argv /\ nargv' = nargv /\ args' = args
      /\ state' = state /\ i > Len(nargv)
  BY DEF Parsed, Ends
<1>2. i - 1 = Len(nargv)
  BY <1>1 DEF Inv, Acted, TypeOK
<1> QED
  BY <1>1, <1>2, Zenon DEF Parting

LEMMA NextParting ==
  ASSUME Inv, Parting, [Next]_vars
  PROVE  Parting'
<1>1. CASE Normalize
  BY <1>1, NormalizeParting
<1>2. CASE Normalized
  BY <1>2, NormalizedParting
<1>3. CASE DumpFlag
  <2>1. /\ Parsing /\ (Is("q") \/ Is("p")) /\ i' = i + 1
        /\ UNCHANGED <<phase, argv, nargv, args>> /\ state'.eval = state.eval
    <3>1. state \in [dump_ast : BOOLEAN, dump_bytecode : BOOLEAN, eval : Token \cup {Null}]
      BY DEF Inv, TypeOK
    <3> QED
      BY <1>3, <3>1 DEF DumpFlag, Dump
  <2>2. ~ Is("e")
    BY <2>1, OneFlag
  <2>3. HasDash(Cur)
    BY <2>1 DEF Is, HasDash
  <2> QED
    BY <2>1, <2>2, <2>3, PlainParting
<1>4. CASE Eval
  BY <1>4, EvalParting
<1>5. CASE Dashes
  <2>1. /\ Parsing /\ ~ Is("e") /\ HasDash(Cur) /\ i' = i + 1
        /\ UNCHANGED <<phase, argv, nargv, args, state>>
    BY <1>5 DEF Dashes, Is, HasDash
  <2> QED
    BY <2>1, PlainParting
<1>6. CASE Argument
  <2>1. /\ Parsing /\ ~ Is("e") /\ args' = Append(args, Cur) /\ i' = i + 1
        /\ UNCHANGED <<phase, argv, nargv, state>>
    BY <1>6 DEF Argument, IsArgument, IsFlag, Flags
  <2> QED
    BY <2>1, PlainParting
<1>7. CASE Parsed
  BY <1>7, ParsedParting
<1>8. CASE UNCHANGED vars
  BY <1>8 DEF vars, Parting
<1>9. CASE phase' \notin {"normalize", "parse", "main"}
  BY <1>9 DEF Parting
<1>10. ASSUME Help \/ Unrecognized \/ TooMany \/ Repl \/ CannotOpen \/ SyntaxError \/ DumpAst \/ Run
       PROVE  phase' \notin {"normalize", "parse", "main"}
  BY <1>10 DEF Help, Unrecognized, TooMany, Repl, CannotOpen, SyntaxError, DumpAst, Run, Ends
<1> QED
  BY <1>1, <1>2, <1>3, <1>4, <1>5, <1>6, <1>7, <1>8, <1>9, <1>10 DEF Next, Ended

-----------------------------------------------------------------------------
(* What is kept of nargv is what is kept of the command line.                 *)
LEMMA SameWords ==
  ASSUME NEW s \in Seq(Token), NEW t \in Seq(Token), NEW n \in Nat, n = Len(s), n >= 1,
         NEW last, Normal(last, s, t, n), ~ HasDash(s[1]), NEW v, KeptOf(v, s, n),
         NEW w, KeptOf(w, t, Len(t))
  PROVE  w[Len(t)] = v[n]
<1>1. /\ \A k \in 0..n : last[k] \in Nat
      /\ \A k, l \in 0..n : k < l => last[k] < last[l]
      /\ last[0] = 0 /\ last[n] = Len(t) /\ \A k \in 1..n : SameToken(last, s, t, k)
  BY Zenon DEF Normal, Placed
<1>2. last[1] = 1
  BY FirstToken
<1>3. PICK p : p = Len(t)
  OBVIOUS
<1>4. p \in Nat /\ \A k \in 0..n : last[k] <= p
  <2>1. p \in Nat
    BY <1>3
  <2>2. ASSUME NEW k \in 0..n
        PROVE  last[k] <= p
    <3>1. n \in 0..n /\ (k = n \/ k < n)
      OBVIOUS
    <3>2. last[k] = last[n] \/ last[k] < last[n]
      BY <1>1, <3>1
    <3>3. last[k] \in Nat
      BY <1>1
    <3> QED
      BY <1>1, <1>3, <2>1, <3>2, <3>3
  <2> QED
    BY <2>1, <2>2
<1>5. /\ v[0] = <<>> /\ w[0] = <<>>
      /\ \A k \in 1..n : v[k] = IF KeepsWord(s, k) THEN Append(v[k - 1], s[k]) ELSE v[k - 1]
      /\ \A k \in 1..p : w[k] = IF KeepsWord(t, k) THEN Append(w[k - 1], t[k]) ELSE w[k - 1]
  BY <1>3, Zenon DEF KeptOf
<1> DEFINE S == {k \in 0..n : w[last[k]] = v[k]}
<1>6. 0 \in S
  BY <1>1, <1>5
<1>7. ASSUME NEW k \in 1..n, k - 1 \in S
      PROVE  k \in S
  <2>1. k \in 0..n /\ k - 1 \in 0..n /\ k - 1 < k
    OBVIOUS
  <2>2. PICK a, b : a = last[k - 1] /\ b = last[k]
    OBVIOUS
  <2>3. a \in Nat /\ b \in Nat /\ a < b /\ b <= p
    BY <1>1, <1>4, <2>1, <2>2
  <2>4. w[a] = v[k - 1]
    BY <1>7, <2>2
  <2>5. CASE HasDash(s[k])
    <3>1. \A j \in 1..p : a < j /\ j <= b => HasDash(t[j])
      BY <1>1, <1>3, <2>2, <2>5, Zenon DEF SameToken, Became
    <3> DEFINE T == {m \in 0..(b - a) : w[a + m] = w[a]}
    <3>2. 0 \in T
      BY <2>3
    <3>3. ASSUME NEW m \in 1..(b - a), m - 1 \in T
          PROVE  m \in T
      <4>1. PICK j : j = a + m
        OBVIOUS
      <4>2. j \in 1..p /\ a < j /\ j <= b /\ j - 1 = a + (m - 1) /\ m \in 0..(b - a)
        <5>1. PICK d : d = b - a
          OBVIOUS
        <5>2. d \in Nat /\ b = a + d /\ m \in 1..d
          BY <2>3, <5>1
        <5>3. m \in Nat /\ m >= 1 /\ m <= d
          BY <5>2
        <5>4. j \in Nat /\ a < j /\ j <= b /\ 1 <= j /\ j <= p
          BY <1>4, <2>3, <4>1, <5>2, <5>3
        <5>5. j \in 1..p
          BY <1>4, <5>4
        <5>6. j - 1 = a + (m - 1)
          BY <2>3, <4>1, <5>3
        <5> QED
          BY <5>1, <5>2, <5>3, <5>4, <5>5, <5>6
      <4>3. HasDash(t[j])
        BY <3>1, <4>2
      <4>4. ~ KeepsWord(t, j)
        BY <4>3, Zenon DEF KeepsWord
      <4>5. w[j] = w[j - 1]
        BY <1>5, <4>2, <4>4, Zenon
      <4>6. w[j - 1] = w[a]
        BY <3>3, <4>2
      <4> QED
        BY <4>1, <4>2, <4>5, <4>6
    <3> HIDE DEF T
    <3>4. b - a \in Nat /\ b - a \in 0..(b - a) /\ a + (b - a) = b
      BY <2>3
    <3>5. \A m \in 1..(b - a) : m - 1 \in T => m \in T
      BY <3>3
    <3>6. \A m \in 0..(b - a) : m \in T
      BY <3>2, <3>4, <3>5, StepByStep
    <3>7. w[a + (b - a)] = w[a]
      BY <3>4, <3>6 DEF T
    <3>8. w[b] = w[a]
      BY <3>4, <3>7
    <3>9. v[k] = v[k - 1]
      <4>1. ~ KeepsWord(s, k)
        BY <2>5, Zenon DEF KeepsWord
      <4> QED
        BY <1>5, <4>1, Zenon
    <3> QED
      BY <2>1, <2>2, <2>4, <3>8, <3>9
  <2>6. CASE ~ HasDash(s[k])
    <3>1. b = a + 1 /\ t[b] = s[k]
      BY <1>1, <2>2, <2>6, Zenon DEF SameToken
    <3>2. b \in 1..p /\ b - 1 = a
      BY <2>3, <3>1
    <3>3. KeepsWord(t, b) <=> KeepsWord(s, k)
      <4>1. CASE k = 1
        <5>1. b = 1 /\ ~ (1 > 1)
          BY <1>2, <2>2, <4>1
        <5> QED
          BY <4>1, <5>1, Zenon DEF KeepsWord
      <4>2. CASE k # 1
        <5>1. k > 1 /\ k - 1 \in 1..n
          BY <4>2
        <5>2. LastIsEval(t[a]) <=> LastIsEval(s[k - 1])
          BY <1>1, <2>2, <5>1, Zenon DEF SameToken
        <5>3. b > 1
          <6>1. 0 \in 0..n /\ 0 < k - 1
            BY <5>1
          <6>2. 0 < a
            BY <1>1, <2>1, <2>2, <6>1
          <6> QED
            BY <2>3, <6>2
        <5> QED
          BY <3>1, <3>2, <5>1, <5>2, <5>3, Zenon DEF KeepsWord
      <4> QED
        BY <4>1, <4>2
    <3>4. w[b] = IF KeepsWord(s, k) THEN Append(w[a], s[k]) ELSE w[a]
      BY <1>5, <3>1, <3>2, <3>3, Zenon
    <3>5. w[b] = v[k]
      <4>1. v[k] = IF KeepsWord(s, k) THEN Append(v[k - 1], s[k]) ELSE v[k - 1]
        BY <1>5, Zenon
      <4> QED
        BY <2>4, <3>4, <4>1
    <3> QED
      BY <2>1, <2>2, <3>5
  <2> QED
    BY <2>5, <2>6
<1> HIDE DEF S
<1>8. \A k \in 1..n : k - 1 \in S => k \in S
  BY <1>7
<1>9. \A k \in 0..n : k \in S
  BY <1>6, <1>8, StepByStep
<1>10. n \in 0..n
  OBVIOUS
<1> QED
  BY <1>1, <1>9, <1>10 DEF S

(* The words of the recursive definitions are those of the relations above.   *)
LEMMA KeptWordsAre ==
  ASSUME TypeOK
  PROVE  KeptOf(KeptWords, argv, Len(argv))
<1>1. PICK n, s : n = Len(argv) /\ s = argv
  OBVIOUS
<1>2. n \in Nat
  BY <1>1 DEF TypeOK
<1> DEFINE S == {m \in 0..n : \E g : KeptOf(g, s, m)}
<1>3. 0 \in S
  <2>1. PICK g : g = [k \in 0..0 |-> <<>>]
    OBVIOUS
  <2>2. DOMAIN g = 0..0 /\ g[0] = <<>> /\ 1..0 = {}
    BY <2>1
  <2>3. KeptOf(g, s, 0)
    BY <2>2, Zenon DEF KeptOf
  <2> QED
    BY <1>2, <2>3
<1>4. ASSUME NEW m \in 1..n, m - 1 \in S
      PROVE  m \in S
  <2>1. PICK g : KeptOf(g, s, m - 1)
    BY <1>4
  <2>2. m - 1 \in Nat /\ m - 1 + 1 = m /\ m \in 0..n
    BY <1>2
  <2>3. \E h : KeptOf(h, s, m - 1 + 1)
    BY <2>1, <2>2, KeptStep
  <2> QED
    BY <2>2, <2>3
<1> HIDE DEF S
<1>5. n \in S
  <2>1. \A m \in 1..n : m - 1 \in S => m \in S
    BY <1>4
  <2>2. \A m \in 0..n : m \in S
    BY <1>2, <1>3, <2>1, StepByStep
  <2> QED
    BY <1>2, <2>2
<1>6. PICK g : KeptOf(g, s, n)
  BY <1>5 DEF S
<1>7. /\ g[0] = <<>>
      /\ \A k \in 1..n : g[k] = IF KeepsWord(s, k) THEN Append(g[k - 1], s[k]) ELSE g[k - 1]
  BY <1>6, Zenon DEF KeptOf
<1>8. PICK h : h = [k \in 0..n |-> g[k]]
  OBVIOUS
<1>9. \A k \in 0..n : h[k] = IF k = 0 THEN <<>>
                             ELSE IF KeepsWord(s, k) THEN Append(h[k - 1], s[k]) ELSE h[k - 1]
  <2>1. \A k \in 0..n : k = 0 \/ (k \in 1..n /\ k # 0 /\ k - 1 \in 0..n)
    BY <1>2
  <2>2. \A k \in 0..n : h[k] = g[k]
    BY <1>8
  <2> QED
    BY <1>7, <2>1, <2>2, Zenon
<1>10. h = [k \in 0..n |-> IF k = 0 THEN <<>>
                           ELSE IF KeepsWord(s, k) THEN Append(h[k - 1], s[k]) ELSE h[k - 1]]
  BY <1>8, <1>9
<1>11. \A k : Kept(k) <=> KeepsWord(s, k)
  BY <1>1, Zenon DEF Kept, KeepsWord
<1>12. KeptWords = [k \in 0..Len(argv) |->
                      IF k = 0 THEN <<>>
                      ELSE IF Kept(k) THEN Append(KeptWords[k - 1], argv[k])
                      ELSE KeptWords[k - 1]]
  <2>1. h = [k \in 0..Len(argv) |->
               IF k = 0 THEN <<>>
               ELSE IF Kept(k) THEN Append(h[k - 1], argv[k]) ELSE h[k - 1]]
    BY <1>1, <1>10, Zenon DEF Kept, KeepsWord
  <2> HIDE DEF Kept
  <2> QED
    BY <2>1, Zenon DEF KeptWords
<1>13. PICK f : f = KeptWords
  OBVIOUS
<1>14. f = [k \in 0..n |-> IF k = 0 THEN <<>>
                           ELSE IF Kept(k) THEN Append(f[k - 1], s[k]) ELSE f[k - 1]]
  BY <1>1, <1>12, <1>13, Zenon
<1>15. DOMAIN f = 0..n /\ f[0] = <<>>
  BY <1>2, <1>14
<1>16. \A k \in 1..n : f[k] = IF KeepsWord(s, k) THEN Append(f[k - 1], s[k]) ELSE f[k - 1]
  <2> SUFFICES ASSUME NEW k \in 1..n
               PROVE  f[k] = IF KeepsWord(s, k) THEN Append(f[k - 1], s[k]) ELSE f[k - 1]
    OBVIOUS
  <2>1. k \in 0..n /\ k # 0
    BY <1>2
  <2>2. f[k] = IF Kept(k) THEN Append(f[k - 1], s[k]) ELSE f[k - 1]
    BY <1>14, <2>1
  <2> QED
    BY <1>11, <2>2, Zenon
<1>17. KeptOf(f, s, n)
  BY <1>15, <1>16, Zenon DEF KeptOf
<1> QED
  BY <1>1, <1>13, <1>17

LEMMA ArgumentWordsAre ==
  ASSUME NEW v, WordsOf(v, args), args \in Seq(Token)
  PROVE  ArgumentWords[Len(args)] = v[Len(args)]
<1>1. PICK n, s : n = Len(args) /\ s = args
  OBVIOUS
<1>2. n \in Nat /\ n \in 0..n
  BY <1>1
<1>3. /\ v[0] = <<>>
      /\ \A k \in 1..n : v[k] = IF HasDash(s[k]) THEN v[k - 1] ELSE Append(v[k - 1], s[k])
  BY <1>1, Zenon DEF WordsOf
<1>4. PICK h : h = [k \in 0..n |-> v[k]]
  OBVIOUS
<1>5. \A k \in 0..n : h[k] = IF k = 0 THEN <<>>
                             ELSE IF HasDash(s[k]) THEN h[k - 1] ELSE Append(h[k - 1], s[k])
  <2>1. \A k \in 0..n : k = 0 \/ (k \in 1..n /\ k # 0 /\ k - 1 \in 0..n)
    BY <1>2
  <2>2. \A k \in 0..n : h[k] = v[k]
    BY <1>4
  <2> QED
    BY <1>3, <2>1, <2>2, Zenon
<1>6. h = [k \in 0..n |-> IF k = 0 THEN <<>>
                          ELSE IF HasDash(s[k]) THEN h[k - 1] ELSE Append(h[k - 1], s[k])]
  BY <1>4, <1>5
<1>7. ArgumentWords = [k \in 0..Len(args) |->
                         IF k = 0 THEN <<>>
                         ELSE IF HasDash(args[k]) THEN ArgumentWords[k - 1]
                         ELSE Append(ArgumentWords[k - 1], args[k])]
  <2>1. \E g : g = [k \in 0..Len(args) |->
                      IF k = 0 THEN <<>>
                      ELSE IF HasDash(args[k]) THEN g[k - 1] ELSE Append(g[k - 1], args[k])]
    BY <1>1, <1>6, Zenon
  <2> QED
    BY <2>1, Zenon DEF ArgumentWords
<1>8. PICK g : g = ArgumentWords
  OBVIOUS
<1>9. g = [k \in 0..n |-> IF k = 0 THEN <<>>
                          ELSE IF HasDash(s[k]) THEN g[k - 1] ELSE Append(g[k - 1], s[k])]
  BY <1>1, <1>7, <1>8, Zenon
<1>10. \A k \in 0..n : g[k] = v[k]
  <2> DEFINE S == {k \in 0..n : g[k] = v[k]}
  <2>1. 0 \in S
    BY <1>2, <1>3, <1>9
  <2>2. ASSUME NEW k \in 1..n, k - 1 \in S
        PROVE  k \in S
    <3>1. k \in 0..n /\ k # 0
      BY <1>2
    <3>2. g[k] = IF HasDash(s[k]) THEN g[k - 1] ELSE Append(g[k - 1], s[k])
      BY <1>9, <3>1
    <3>3. g[k - 1] = v[k - 1]
      BY <2>2
    <3>4. g[k] = v[k]
      BY <1>3, <3>2, <3>3, Zenon
    <3> QED
      BY <3>1, <3>4
  <2> HIDE DEF S
  <2>3. \A k \in 1..n : k - 1 \in S => k \in S
    BY <2>2
  <2>4. \A k \in 0..n : k \in S
    BY <1>2, <2>1, <2>3, StepByStep
  <2> QED
    BY <2>4 DEF S
<1> QED
  BY <1>1, <1>2, <1>8, <1>10

(* The last -e of nargv comes from the last token that mentions one.          *)
LastCode(s, n, M, v) ==
  IF M = {} THEN v = Null
  ELSE \E k \in M : /\ \A l \in M : l <= k
                    /\ v = IF LastIsEval(s[k]) /\ k < n /\ ~ HasDash(s[k + 1])
                           THEN s[k + 1] ELSE Null

LEMMA LastEval ==
  ASSUME NEW s \in Seq(Token), NEW t \in Seq(Token), NEW n \in Nat, n = Len(s), n >= 1,
         NEW last, Normal(last, s, t, n), ~ HasDash(s[1]), NEW v, Evaluates(t, Len(t), v),
         NEW M, M = {k \in 2..n : Mentions(s[k], "e")}
  PROVE  LastCode(s, n, M, v)
<1>1. PICK p : p = Len(t)
  OBVIOUS
<1>2. /\ \A k \in 0..n : last[k] \in Nat
      /\ \A k, l \in 0..n : k < l => last[k] < last[l]
      /\ last[0] = 0 /\ last[n] = p /\ \A k \in 1..n : SameToken(last, s, t, k)
      /\ \A j \in 1..p : \E k \in 1..n : Became(last, k, j)
  BY <1>1, Zenon DEF Normal, Placed
<1>3. p \in Nat /\ last[1] = 1
  BY <1>1, FirstToken
<1>4. CASE NoEval(t, 1, p) /\ v = Null
  <2>1. ASSUME NEW k \in 2..n, Mentions(s[k], "e")
        PROVE  FALSE
    <3>1. k \in 1..n /\ k - 1 \in 0..n /\ 1 \in 0..n /\ (k - 1 = 1 \/ 1 < k - 1)
      BY <2>1
    <3>2. PICK j \in 1..p : Became(last, k, j) /\ LastIsEval(t[j])
      BY <1>1, <1>2, <2>1, <3>1, Zenon DEF SameToken
    <3>3. last[k - 1] \in Nat /\ last[k - 1] >= 1
      BY <1>2, <1>3, <3>1
    <3>4. j \in (1 + 1)..p
      BY <3>2, <3>3 DEF Became
    <3> QED
      BY <1>4, <3>2, <3>4, Zenon DEF NoEval
  <2>2. M = {}
    BY <2>1
  <2> QED
    BY <1>4, <2>2, Zenon DEF LastCode
<1>5. ASSUME NEW j \in 2..p, LastIsEval(t[j]), NoEval(t, j, p), v = After(t, j)
      PROVE  \E k \in M : /\ \A l \in M : l <= k
                          /\ v = IF LastIsEval(s[k]) /\ k < n /\ ~ HasDash(s[k + 1])
                                 THEN s[k + 1] ELSE Null
  <2>1. j \in 1..p
    BY <1>3
  <2>2. PICK k \in 1..n : Became(last, k, j)
    BY <1>2, <2>1
  <2>3. k \in 0..n /\ k - 1 \in 0..n /\ 0 \in 0..n /\ n \in 0..n
    OBVIOUS
  <2>4. PICK a, b : a = last[k - 1] /\ b = last[k]
    OBVIOUS
  <2>5. a \in Nat /\ b \in Nat /\ a < j /\ j <= b /\ ((k = n /\ b = p) \/ (k < n /\ b < p))
    <3>1. a \in Nat /\ b \in Nat /\ a < j /\ j <= b
      BY <1>2, <2>2, <2>3, <2>4 DEF Became
    <3>2. k = n \/ k < n
      OBVIOUS
    <3>3. k = n => b = p
      BY <1>2, <2>4
    <3>4. k < n => b < p
      BY <1>2, <2>3, <2>4
    <3> QED
      BY <3>1, <3>2, <3>3, <3>4
  <2>6. k \in 2..n
    <3>1. k # 1
      BY <1>3, <2>4, <2>5
    <3> QED
      BY <3>1
  <2>7. SameToken(last, s, t, k)
    BY <1>2
  <2>8. Mentions(s[k], "e")
    BY <1>1, <1>5, <2>1, <2>2, <2>7, Zenon DEF SameToken
  <2>9. ASSUME NEW l \in M
        PROVE  l <= k
    <3> SUFFICES ASSUME ~ (l <= k)
                 PROVE  FALSE
      OBVIOUS
    <3>1. l \in 2..n /\ Mentions(s[l], "e")
      OBVIOUS
    <3>2. l \in 1..n /\ l - 1 \in 0..n /\ (k = l - 1 \/ k < l - 1)
      BY <3>1
    <3>3. PICK i0 \in 1..p : Became(last, l, i0) /\ LastIsEval(t[i0])
      BY <1>1, <1>2, <3>1, <3>2, Zenon DEF SameToken
    <3>4. last[l - 1] \in Nat /\ last[l - 1] >= b
      <4>1. PICK c : c = l - 1
        OBVIOUS
      <4>2. c \in 0..n /\ (k = c \/ k < c)
        BY <3>2, <4>1
      <4>3. last[c] \in Nat /\ (b = last[c] \/ b < last[c])
        BY <1>2, <2>3, <2>4, <4>2
      <4> QED
        BY <2>5, <4>1, <4>3
    <3>5. i0 \in (j + 1)..p
      BY <2>5, <3>3, <3>4 DEF Became
    <3> QED
      BY <1>5, <3>3, <3>5, Zenon DEF NoEval
  <2>10. v = IF LastIsEval(s[k]) /\ k < n /\ ~ HasDash(s[k + 1]) THEN s[k + 1] ELSE Null
    <3>1. CASE j = b
      <4>1. LastIsEval(s[k])
        BY <1>5, <2>4, <2>7, <3>1, Zenon DEF SameToken
      <4>2. CASE k = n
        <5>1. ~ (j < Len(t)) /\ ~ (k < n)
          BY <1>1, <1>3, <2>5, <3>1, <4>2
        <5> QED
          BY <1>5, <5>1, Zenon DEF After
      <4>3. CASE k < n
        <5>1. k + 1 \in 1..n /\ k + 1 - 1 = k /\ k + 1 \in 0..n /\ k < k + 1
          BY <4>3
        <5>2. PICK c, d : c = last[k + 1] /\ d = k + 1
          OBVIOUS
        <5>3. c \in Nat /\ b < c /\ j + 1 \in 1..p /\ j < p
          <6>1. d \in 0..n /\ k < d
            BY <5>1, <5>2
          <6>2. c \in Nat /\ b < c
            BY <1>2, <2>3, <2>4, <5>2, <6>1
          <6> QED
            BY <1>3, <2>5, <3>1, <4>3, <6>2
        <5>4. Became(last, d, j + 1)
          <6>1. d - 1 = k
            BY <5>1, <5>2
          <6>2. last[d - 1] = b /\ last[d] = c
            BY <2>4, <5>2, <6>1
          <6> QED
            BY <2>5, <3>1, <5>3, <6>2 DEF Became
        <5>5. SameToken(last, s, t, d)
          BY <1>2, <5>1, <5>2
        <5>6. HasDash(s[d]) => HasDash(t[j + 1])
          BY <1>1, <5>3, <5>4, <5>5, Zenon DEF SameToken
        <5>7. ~ HasDash(s[d]) => t[j + 1] = s[d]
          <6>1. ~ HasDash(s[d]) => last[d] = last[d - 1] + 1 /\ t[last[d]] = s[d]
            BY <5>5, Zenon DEF SameToken
          <6>2. last[d - 1] = b
            BY <2>4, <5>1, <5>2
          <6> QED
            BY <3>1, <6>1, <6>2
        <5>8. j < Len(t)
          BY <1>1, <5>3
        <5> QED
          BY <1>5, <4>1, <4>3, <5>2, <5>6, <5>7, <5>8, Zenon DEF After
      <4> QED
        BY <2>5, <4>2, <4>3
    <3>2. CASE j # b
      <4>1. j + 1 \in 1..p /\ a < j + 1 /\ j + 1 <= b /\ b \in (j + 1)..p
        BY <1>3, <2>5, <3>2
      <4>2. ~ LastIsEval(s[k])
        <5>1. ~ LastIsEval(t[b])
          BY <1>5, <4>1, Zenon DEF NoEval
        <5> QED
          BY <2>4, <2>7, <5>1, Zenon DEF SameToken
      <4>3. HasDash(s[k])
        <5>1. ~ HasDash(s[k]) => b = a + 1
          BY <2>4, <2>7, Zenon DEF SameToken
        <5> QED
          BY <2>5, <3>2, <5>1
      <4>4. HasDash(t[j + 1])
        <5>1. Became(last, k, j + 1)
          BY <2>4, <4>1 DEF Became
        <5> QED
          BY <1>1, <2>7, <4>1, <4>3, <5>1, Zenon DEF SameToken
      <4> QED
        BY <1>5, <4>2, <4>4, Zenon DEF After
    <3> QED
      BY <3>1, <3>2
  <2>11. k \in M
    BY <2>6, <2>8
  <2> QED
    BY <2>9, <2>10, <2>11
<1>6. ASSUME NEW j \in 2..p, LastIsEval(t[j]), NoEval(t, j, p), v = After(t, j)
      PROVE  M # {}
  BY <1>5, <1>6
<1> QED
  BY <1>1, <1>4, <1>5, <1>6, Zenon DEF Evaluates, LastCode
-----------------------------------------------------------------------------
(* Inv holds throughout, of any command lines.                               *)
THEOREM Invariance == Spec => []Inv
<1> QED BY InitInv, NextInv, PTL DEF Spec

(* Every reachable state is of the declared types, with no more arguments    *)
(* kept than the array of command_t has room for.                           *)
THEOREM TypeCorrectness == Spec => []TypeOK
<1>1. Inv => TypeOK BY DEF Inv
<1> QED BY <1>1, Invariance, PTL

(* normalize_args never writes past what it has allocated.                   *)
THEOREM Allocation == Spec => []NargvFits
<1>1. Inv => NargvFits BY DEF Inv, Room
<1> QED BY <1>1, Invariance, PTL

(* A dump is asked for if and only if the command line mentions its flag.    *)
THEOREM FlagsHeard == Spec => []FlagsTakeEffect
<1>1. Inv => FlagsTakeEffect
  <2> SUFFICES ASSUME Inv, phase = "main"
               PROVE  /\ state.dump_ast <=> Mentioning("p") # {}
                      /\ state.dump_bytecode <=> Mentioning("q") # {}
    BY DEF FlagsTakeEffect
  <2>1. Obeys(Len(nargv)) BY DEF Inv, Acted
  <2>2. \A flag \in Flags : Heard(flag, Len(nargv)) <=> Said(flag, Len(argv))
    BY DEF Inv, Faithful
  <2>3. \A flag : Said(flag, Len(argv)) <=> Mentioning(flag) # {}
    BY DEF Said, Mentioning
  <2>4. "p" \in Flags /\ "q" \in Flags BY DEF Flags
  <2> QED BY <2>1, <2>2, <2>3, <2>4, Zenon DEF Obeys
<1> QED BY <1>1, Invariance, PTL

(* Parting holds throughout as well.                                        *)
THEOREM Partings == Spec => [](Inv /\ Parting)
<1>1. Init => Inv /\ Parting
  BY InitInv, InitParting
<1>2. Inv /\ Parting /\ [Next]_vars => (Inv /\ Parting)'
  BY NextInv, NextParting
<1> QED
  BY <1>1, <1>2, PTL DEF Spec

(* The words of the command line that are no code of an -e are the arguments, *)
(* in their order.                                                          *)
THEOREM Words == Spec => []WordsKept
<1>1. Inv /\ Parting => WordsKept
  <2> SUFFICES ASSUME Inv, Parting, phase = "main"
               PROVE  ArgumentWords[Len(args)] = KeptWords[Len(argv)]
    BY DEF WordsKept
  <2>1. /\ argv \in Seq(Token) /\ nargv \in Seq(Token) /\ args \in Seq(Token) /\ TypeOK
        /\ Len(argv) \in Nat /\ Len(argv) >= 1 /\ ~ HasDash(argv[1])
    BY DEF Inv, TypeOK, Faithful, HasDash
  <2>2. PICK last : Normal(last, argv, nargv, Len(argv))
    BY Zenon DEF Parting
  <2>3. PICK v, w : /\ WordsOf(v, args) /\ KeptOf(w, nargv, Len(nargv))
                    /\ v[Len(args)] = w[Len(nargv)]
    BY Zenon DEF Parting, Keeps
  <2>4. KeptOf(KeptWords, argv, Len(argv))
    BY <2>1, KeptWordsAre
  <2>5. w[Len(nargv)] = KeptWords[Len(argv)]
    BY <2>1, <2>2, <2>3, <2>4, SameWords
  <2>6. ArgumentWords[Len(args)] = v[Len(args)]
    BY <2>1, <2>3, ArgumentWordsAre
  <2> QED
    BY <2>3, <2>5, <2>6
<1> QED
  BY <1>1, Partings, PTL

(* The code to run is the word after the last -e of the command line.         *)
THEOREM NextWord == Spec => []EvalTakesTheNextWord
<1>1. Inv /\ Parting => EvalTakesTheNextWord
  <2> SUFFICES ASSUME Inv, Parting, phase = "main"
               PROVE  EvalTakesTheNextWord
    BY DEF EvalTakesTheNextWord
  <2>1. /\ argv \in Seq(Token) /\ nargv \in Seq(Token) /\ Len(argv) \in Nat /\ Len(argv) >= 1
        /\ ~ HasDash(argv[1])
    BY DEF Inv, TypeOK, Faithful, HasDash
  <2>2. PICK last : Normal(last, argv, nargv, Len(argv))
    BY Zenon DEF Parting
  <2>3. Evaluates(nargv, Len(nargv), state.eval)
    BY Zenon DEF Parting
  <2>4. PICK M, n : M = Mentioning("e") /\ n = Len(argv)
    OBVIOUS
  <2>5. M = {k \in 2..n : Mentions(argv[k], "e")}
    BY <2>4, Zenon DEF Mentioning
  <2>6. IF M = {} THEN state.eval = Null
        ELSE \E k \in M : /\ \A l \in M : l <= k
                          /\ state.eval = IF LastIsEval(argv[k]) /\ k < n /\ ~ HasDash(argv[k + 1])
                                          THEN argv[k + 1] ELSE Null
    <3>1. PICK s, t, v : s = argv /\ t = nargv /\ v = state.eval
      OBVIOUS
    <3>2. /\ s \in Seq(Token) /\ t \in Seq(Token) /\ n \in Nat /\ n = Len(s) /\ n >= 1
          /\ Normal(last, s, t, n) /\ ~ HasDash(s[1]) /\ Evaluates(t, Len(t), v)
          /\ M = {k \in 2..n : Mentions(s[k], "e")}
      BY <2>1, <2>2, <2>3, <2>4, <2>5, <3>1
    <3>3. LastCode(s, n, M, v)
      BY <3>2, LastEval
    <3> QED
      BY <3>1, <3>3, Zenon DEF LastCode
  <2>7. CASE M = {}
    BY <2>4, <2>6, <2>7, Zenon DEF EvalTakesTheNextWord
  <2>8. CASE M # {}
    <3>1. PICK k \in M : /\ \A l \in M : l <= k
                         /\ state.eval = IF LastIsEval(argv[k]) /\ k < n /\ ~ HasDash(argv[k + 1])
                                         THEN argv[k + 1] ELSE Null
      BY <2>6, <2>8
    <3>2. \A l \in M : l \in Int
      BY <2>1, <2>4, <2>5
    <3>3. PICK c : c = CHOOSE l \in M : \A m \in M : m <= l
      OBVIOUS
    <3>4. c \in M /\ \A m \in M : m <= c
      BY <3>1, <3>3, Zenon
    <3>5. c = k
      BY <3>1, <3>2, <3>4
    <3>6. k = CHOOSE l \in Mentioning("e") : \A m \in Mentioning("e") : m <= l
      BY <2>4, <3>3, <3>5
    <3> QED
      BY <2>4, <2>8, <3>1, <3>6, Zenon DEF EvalTakesTheNextWord
  <2> QED
    BY <2>7, <2>8
<1> QED
  BY <1>1, Partings, PTL
=============================================================================
