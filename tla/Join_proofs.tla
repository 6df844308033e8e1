----------------------------- MODULE Join_proofs -----------------------------
(* Proofs about Join, for any lists, separators and MaxStrands.              *)
EXTENDS Join, NatSets_proofs, SequenceTheorems

(* What element k adds, by the count of the first pass.                      *)
Parted(k) == k > 1 /\ sgraphs > 0
AddsStrands(k) ==
  IF input[k].concrete THEN One(Len(input[k].text) > 0) + One(Parted(k)) ELSE 0
AddsGraphs(k) ==
  IF input[k].concrete
  THEN Len(input[k].text) + (IF Parted(k) THEN sgraphs ELSE 0) ELSE 0

(* The totals of the first pass: their steps, that they only grow, and that   *)
(* graphemes come with strands.                                             *)
Steps ==
  /\ Len(totals) >= 1 /\ totals[1] = [strands |-> 0, graphs |-> 0]
  /\ Len(totals) <= Len(input) + 1
  /\ \A k \in 1..(Len(totals) - 1) :
       /\ totals[k + 1].strands = totals[k].strands + AddsStrands(k)
       /\ totals[k + 1].graphs = totals[k].graphs + AddsGraphs(k)
Growing ==
  \A j, k \in 1..Len(totals) : j <= k => totals[j].strands <= totals[k].strands
NoGraphsAlone ==
  \A k \in 1..Len(totals) : totals[k].strands = 0 => totals[k].graphs = 0

All == totals[Len(totals)]

(* Where each pass is, in terms of the totals.                               *)
Counting ==
  phase = "count" =>
    /\ Len(totals) = index + 1
    /\ portion_index = totals[index + 1].strands /\ length = totals[index + 1].graphs
    /\ strands = <<>> /\ position = 0 /\ graphs = 0 /\ allocated = 0
Linking ==
  phase = "link" =>
    /\ Len(totals) = Len(input) + 1
    /\ allocated = All.strands + 1
    /\ Len(strands) = totals[index + 1].strands /\ portion_index = Len(strands)
    /\ position = totals[index + 1].graphs
Joined ==
  phase \in {"check", "done"} =>
    /\ graphs = position /\ graphs = All.graphs /\ portion_index = All.strands
    /\ allocated > 0 => Len(strands) < allocated

(* Where the last strand ends.                                              *)
EndOf(w) == IF w = <<>> THEN 0 ELSE w[Len(w)].compare_offset + Len(w[Len(w)].string)
Tilings ==
  {w \in Seq(Strand) : \A k \in DOMAIN w :
     w[k].compare_offset =
       IF k = 1 THEN 0 ELSE w[k - 1].compare_offset + Len(w[k - 1].string)}
Tiling == strands \in Tilings /\ EndOf(strands) = position

Inv == TypeOK /\ Steps /\ Growing /\ NoGraphsAlone /\ Counting /\ Linking /\ Joined
       /\ Tiling /\ phase # "internalerror"
-----------------------------------------------------------------------------
LEMMA Adds ==
  ASSUME TypeOK, NEW k \in 1..Len(input)
  PROVE  /\ AddsStrands(k) \in Nat /\ AddsGraphs(k) \in Nat
         /\ AddsStrands(k) = 0 => AddsGraphs(k) = 0
<1>1. input[k] \in Element BY DEF TypeOK
<1>2. input[k].text \in Seq(Graphemes) BY <1>1 DEF Element, Text
<1>3. Len(input[k].text) \in Nat BY <1>2
<1>4. sgraphs \in Nat BY DEF TypeOK, Text, sgraphs
<1>5. CASE ~ input[k].concrete BY <1>5 DEF AddsStrands, AddsGraphs
<1>6. CASE input[k].concrete
  <2>1. AddsStrands(k) = One(Len(input[k].text) > 0) + One(Parted(k))
        /\ AddsGraphs(k) = Len(input[k].text) + (IF Parted(k) THEN sgraphs ELSE 0)
    BY <1>6 DEF AddsStrands, AddsGraphs
  <2>2. CASE Parted(k) /\ Len(input[k].text) > 0 BY <2>1, <2>2, <1>3, <1>4 DEF One
  <2>3. CASE Parted(k) /\ Len(input[k].text) = 0 BY <2>1, <2>3, <1>3, <1>4 DEF One
  <2>4. CASE ~ Parted(k) BY <2>1, <2>4, <1>3, <1>4 DEF One
  <2> QED BY <2>2, <2>3, <2>4, <1>3
<1> QED BY <1>5, <1>6

(* What a turn of either loop adds is what Adds says of its element.          *)
LEMMA Turn ==
  ASSUME TypeOK, index < Len(input)
  PROVE  /\ index + 1 \in 1..Len(input) /\ item \in Element /\ pgraphs \in Nat
         /\ Separated = Parted(index + 1) /\ sgraphs \in Nat
         /\ item = input[index + 1]
<1>1. index + 1 \in 1..Len(input) BY DEF TypeOK
<1>2. item \in Element BY <1>1 DEF TypeOK, item
<1>3. pgraphs \in Nat BY <1>2 DEF pgraphs, Element, Text
<1>4. index \in Nat BY DEF TypeOK
<1>5. Separated = Parted(index + 1)
  <2>1. (index > 0) <=> (index + 1 > 1) BY <1>4
  <2> QED BY <2>1 DEF Separated, Parted
<1>6. sgraphs \in Nat BY DEF TypeOK, Text, sgraphs
<1> QED BY <1>1, <1>2, <1>3, <1>5, <1>6 DEF item

LEMMA TotalsNat ==
  ASSUME TypeOK
  PROVE  \A k \in 1..Len(totals) : totals[k].strands \in Nat /\ totals[k].graphs \in Nat
<1> DEFINE R == [strands : Nat, graphs : Nat]
<1>1. totals \in Seq(R) BY DEF TypeOK
<1>2. \A r \in R : r.strands \in Nat /\ r.graphs \in Nat OBVIOUS
<1> HIDE DEF R
<1>3. \A k \in 1..Len(totals) : totals[k] \in R BY <1>1, ElementOfSeq
<1> QED BY <1>2, <1>3

LEMMA InitInv == Init => Inv
<1> SUFFICES ASSUME Init PROVE Inv OBVIOUS
<1>1. input \in Seq(Element) /\ separator \in Text
  BY ListsAssumption DEF Init
<1>2. Len(input) \in Nat BY <1>1
<1>3. TypeOK BY <1>1, <1>2 DEF Init, TypeOK, Strand
<1>4. Len(totals) = 1 /\ totals[1] = [strands |-> 0, graphs |-> 0] BY DEF Init
<1>5. Steps BY <1>2, <1>4 DEF Steps
<1>6. Growing BY <1>4 DEF Growing
<1>7. NoGraphsAlone BY <1>4 DEF NoGraphsAlone
<1>8. Counting /\ Linking /\ Joined BY <1>4 DEF Init, Counting, Linking, Joined
<1>9. Tiling
  <2> DEFINE none == <<>>
  <2>1. none \in Seq(Strand) /\ Len(none) = 0 OBVIOUS
  <2> HIDE DEF none
  <2>2. \A k \in DOMAIN none : FALSE BY <2>1
  <2>3. none \in Tilings BY <2>1, <2>2 DEF Tilings
  <2>4. <<>> \in Tilings BY <2>3 DEF none
  <2> QED BY <2>4 DEF Init, Tiling, EndOf
<1> QED BY <1>3, <1>5, <1>6, <1>7, <1>8, <1>9 DEF Inv, Init
-----------------------------------------------------------------------------
LEMMA CountInv ==
  ASSUME Inv, Count PROVE Inv'
<1> USE DEF Inv
<1>1. /\ phase = "count" /\ index < Len(input) /\ phase' = phase /\ index' = index + 1
      /\ UNCHANGED <<input, separator, position, strands, allocated, graphs>>
  BY DEF Count, Looping
<1>2. /\ index + 1 \in 1..Len(input) /\ item \in Element /\ pgraphs \in Nat
      /\ Separated = Parted(index + 1) /\ sgraphs \in Nat /\ item = input[index + 1]
  BY <1>1, Turn
<1>3. AddsStrands(index + 1) \in Nat /\ AddsGraphs(index + 1) \in Nat
      /\ (AddsStrands(index + 1) = 0 => AddsGraphs(index + 1) = 0)
  BY <1>2, Adds
<1> DEFINE entry == [strands |-> portion_index', graphs |-> length']
<1>4. portion_index' = portion_index + AddsStrands(index + 1)
  <2>1. portion_index' = portion_index + (IF item.concrete THEN Strands ELSE 0)
    BY DEF Count
  <2>2. (IF item.concrete THEN Strands ELSE 0) = AddsStrands(index + 1)
    BY <1>2 DEF Strands, AddsStrands, pgraphs
  <2> QED BY <2>1, <2>2
<1>5. length' = length + AddsGraphs(index + 1)
  <2>1. length' = length + (IF item.concrete THEN pgraphs + (IF index > 0 THEN sgraphs ELSE 0) ELSE 0)
    BY DEF Count
  <2>2. index \in Nat BY DEF TypeOK
  <2>3. (IF index > 0 THEN sgraphs ELSE 0) = (IF Parted(index + 1) THEN sgraphs ELSE 0)
    BY <1>2, <2>2 DEF Parted
  <2>4. AddsGraphs(index + 1)
          = (IF item.concrete THEN pgraphs + (IF Parted(index + 1) THEN sgraphs ELSE 0) ELSE 0)
    BY <1>2 DEF AddsGraphs, pgraphs
  <2> QED BY <2>1, <2>3, <2>4
<1>6. totals' = Append(totals, entry) BY DEF Count
<1>7. portion_index' \in Nat /\ length' \in Nat
  BY <1>3, <1>4, <1>5 DEF TypeOK
<1>8. totals' \in Seq([strands : Nat, graphs : Nat])
  BY <1>6, <1>7 DEF TypeOK
<1>9. TypeOK'
  <2>1. index' \in 0..Len(input') BY <1>1, <1>2 DEF TypeOK
  <2> QED BY <1>1, <1>7, <1>8, <2>1 DEF TypeOK
<1> DEFINE n == Len(totals)
<1>10. n = index + 1 /\ n \in Nat /\ n >= 1 BY <1>1 DEF Counting, Steps, TypeOK
<1>11. Len(totals') = n + 1 /\ totals'[n + 1] = entry
       /\ \A k \in 1..n : totals'[k] = totals[k]
  BY <1>6, <1>7, <1>10 DEF TypeOK
<1>12. portion_index = totals[n].strands /\ length = totals[n].graphs
  BY <1>1, <1>10 DEF Counting
<1>13. entry.strands = totals[n].strands + AddsStrands(n)
       /\ entry.graphs = totals[n].graphs + AddsGraphs(n)
  BY <1>4, <1>5, <1>10, <1>12
<1>14. \A k \in 1..n : totals[k].strands \in Nat /\ totals[k].graphs \in Nat
  BY TotalsNat DEF n
<1>15. \A k : AddsStrands(k)' = AddsStrands(k) /\ AddsGraphs(k)' = AddsGraphs(k)
  BY <1>1 DEF AddsStrands, AddsGraphs, Parted, sgraphs
<1> HIDE DEF n, entry
<1>16. Steps'
  <2>1. totals'[1] = totals[1] /\ Len(totals') <= Len(input) + 1
    BY <1>10, <1>11, <1>2 DEF TypeOK
  <2>2. ASSUME NEW k \in 1..n
        PROVE  /\ totals'[k + 1].strands = totals'[k].strands + AddsStrands(k)
               /\ totals'[k + 1].graphs = totals'[k].graphs + AddsGraphs(k)
    <3>1. CASE k = n BY <3>1, <1>11, <1>13
    <3>2. CASE k < n
      <4>1. k \in 1..(n - 1) /\ k + 1 \in 1..n BY <3>2, <1>10
      <4>2. totals'[k + 1] = totals[k + 1] /\ totals'[k] = totals[k] BY <4>1, <1>11
      <4> QED BY <4>1, <4>2 DEF Steps, n
    <3> QED BY <3>1, <3>2, <1>10
  <2>3. Len(totals') - 1 = n BY <1>10, <1>11
  <2> QED BY <2>1, <2>2, <2>3, <1>10, <1>11, <1>15, <1>1 DEF Steps
<1>17. Growing'
  <2> SUFFICES ASSUME NEW j \in 1..(n + 1), NEW k \in 1..(n + 1), j <= k
               PROVE  totals'[j].strands <= totals'[k].strands
    BY <1>11 DEF Growing
  <2>1. CASE k <= n
    <3>1. k \in 1..n /\ j \in 1..n BY <2>1, <1>10
    <3> QED BY <3>1, <1>11 DEF Growing, n
  <2>2. CASE k = n + 1 /\ j <= n
    <3>1. j \in 1..n /\ n \in 1..n BY <2>2, <1>10
    <3>2. totals[j].strands <= totals[n].strands BY <3>1 DEF Growing, n
    <3>3. totals'[j].strands = totals[j].strands /\ totals'[k].strands = entry.strands
      BY <3>1, <2>2, <1>11
    <3>4. totals[j].strands \in Nat /\ totals[n].strands \in Nat /\ AddsStrands(n) \in Nat
      BY <3>1, <1>14, <1>3, <1>10
    <3> QED BY <3>2, <3>3, <3>4, <1>13
  <2>3. CASE k = n + 1 /\ j = n + 1
    BY <2>3, <1>11, <1>7, <1>13 DEF entry
  <2> QED BY <2>1, <2>2, <2>3, <1>10
<1>18. NoGraphsAlone'
  <2> SUFFICES ASSUME NEW k \in 1..(n + 1), totals'[k].strands = 0
               PROVE  totals'[k].graphs = 0
    BY <1>11 DEF NoGraphsAlone
  <2>1. CASE k \in 1..n BY <2>1, <1>11 DEF NoGraphsAlone, n
  <2>2. CASE k = n + 1
    <3>1. n \in 1..n BY <1>10
    <3>2. entry.strands = 0 BY <2>2, <1>11
    <3>3. totals[n].strands = 0 /\ AddsStrands(n) = 0
      BY <3>1, <3>2, <1>13, <1>14, <1>3, <1>10
    <3>4. totals[n].graphs = 0 BY <3>1, <3>3 DEF NoGraphsAlone, n
    <3>5. AddsGraphs(n) = 0 BY <3>3, <1>3, <1>10
    <3> QED BY <2>2, <3>4, <3>5, <1>11, <1>13
  <2> QED BY <2>1, <2>2, <1>10
<1>19. Counting'
  <2>1. index' + 1 = n + 1 BY <1>1, <1>10
  <2>2. totals'[index' + 1] = entry /\ Len(totals') = index' + 1
    BY <2>1, <1>11
  <2> QED BY <2>2, <1>1 DEF Counting, entry
<1>20. Linking' /\ Joined' BY <1>1 DEF Linking, Joined
<1>21. Tiling' BY <1>1 DEF Tiling, EndOf
<1> QED BY <1>9, <1>16, <1>17, <1>18, <1>19, <1>20, <1>21, <1>1

LEMMA CountedInv ==
  ASSUME Inv, Counted PROVE Inv'
<1> USE DEF Inv
<1>1. /\ phase = "count" /\ index = Len(input)
      /\ UNCHANGED <<input, separator, length, position, strands, graphs, totals>>
  BY DEF Counted, LoopEnds
<1>2. Len(input) \in Nat /\ index \in Nat /\ portion_index \in Nat BY DEF TypeOK
<1>3. Len(totals) = Len(input) + 1 /\ portion_index = All.strands /\ length = All.graphs
      /\ strands = <<>> /\ position = 0 /\ graphs = 0 /\ allocated = 0
  BY <1>1 DEF Counting, All
<1>4. /\ Steps' /\ Growing' /\ NoGraphsAlone' /\ Tiling'
  <2>1. \A k : AddsStrands(k)' = AddsStrands(k) /\ AddsGraphs(k)' = AddsGraphs(k)
    BY <1>1 DEF AddsStrands, AddsGraphs, Parted, sgraphs
  <2>2. Steps' BY <1>1, <2>1 DEF Steps
  <2> QED BY <2>2, <1>1 DEF Growing, NoGraphsAlone, Tiling, EndOf
<1>5. All' = All BY <1>1 DEF All
<1>6. CASE portion_index > 0
  <2>1. phase' = "link" /\ index' = 0 /\ allocated' = portion_index + 1 /\ portion_index' = 0
    BY <1>6 DEF Counted
  <2>2. TypeOK' BY <2>1, <1>1, <1>2 DEF TypeOK
  <2>3. totals[1] = [strands |-> 0, graphs |-> 0] BY DEF Steps
  <2>4. Linking' BY <2>1, <2>3, <1>1, <1>3, <1>5 DEF Linking
  <2>5. Counting' /\ Joined' BY <2>1 DEF Counting, Joined
  <2> QED BY <2>1, <2>2, <2>4, <2>5, <1>4
<1>7. CASE ~ portion_index > 0
  <2>1. phase' = "check" /\ UNCHANGED <<index, allocated, portion_index>>
    BY <1>7 DEF Counted
  <2>2. TypeOK' BY <2>1, <1>1 DEF TypeOK
  <2>3. Len(totals) \in 1..Len(totals) BY <1>2, <1>3
  <2>4. portion_index = 0 BY <1>7, <1>2
  <2>5. All.graphs = 0 BY <2>3, <2>4, <1>3 DEF NoGraphsAlone, All
  <2>6. Joined' BY <2>1, <2>4, <2>5, <1>1, <1>3, <1>5 DEF Joined
  <2>7. Counting' /\ Linking' BY <2>1 DEF Counting, Linking
  <2> QED BY <2>1, <2>2, <2>6, <2>7, <1>4
<1> QED BY <1>6, <1>7

(* A strand appended where the last one ends.                               *)
LEMMA Tile ==
  ASSUME NEW w \in Tilings, NEW one \in Strand, one.compare_offset = EndOf(w),
         NEW longer, longer = Append(w, one)
  PROVE  /\ longer \in Tilings /\ Len(longer) = Len(w) + 1
         /\ EndOf(longer) = one.compare_offset + Len(one.string)
<1>1. DOMAIN w = 1..Len(w) BY DEF Tilings
<1>2. w \in Seq(Strand) BY DEF Tilings
<1>3. longer \in Seq(Strand) /\ Len(longer) = Len(w) + 1 /\ Len(w) \in Nat
      /\ longer[Len(w) + 1] = one /\ \A k \in 1..Len(w) : longer[k] = w[k]
  BY <1>2
<1>4. longer # <<>> BY <1>3
<1>5. EndOf(longer) = one.compare_offset + Len(one.string) BY <1>3, <1>4 DEF EndOf
<1>6. ASSUME NEW k \in 1..Len(longer)
      PROVE  longer[k].compare_offset =
               IF k = 1 THEN 0 ELSE longer[k - 1].compare_offset + Len(longer[k - 1].string)
  <2>1. CASE k <= Len(w)
    <3>1. k \in 1..Len(w) /\ (k # 1 => k - 1 \in 1..Len(w)) BY <2>1, <1>3
    <3>2. longer[k] = w[k] /\ (k # 1 => longer[k - 1] = w[k - 1]) BY <3>1, <1>3
    <3>3. w[k].compare_offset =
            IF k = 1 THEN 0 ELSE w[k - 1].compare_offset + Len(w[k - 1].string)
      BY <3>1, <1>1 DEF Tilings
    <3> QED BY <3>2, <3>3
  <2>2. CASE k = Len(w) + 1 /\ w = <<>>
    BY <2>2, <1>3 DEF EndOf
  <2>3. CASE k = Len(w) + 1 /\ w # <<>>
    <3>1. Len(w) \in 1..Len(w) /\ k - 1 = Len(w) /\ k # 1 BY <2>3, <1>3
    <3>2. longer[k] = one /\ longer[k - 1] = w[Len(w)] BY <3>1, <2>3, <1>3
    <3>3. one.compare_offset = w[Len(w)].compare_offset + Len(w[Len(w)].string)
      BY <2>3 DEF EndOf
    <3> QED BY <3>1, <3>2, <3>3
  <2> QED BY <2>1, <2>2, <2>3, <1>3
<1>7. DOMAIN longer = 1..Len(longer) BY <1>3
<1>8. longer \in Tilings BY <1>3, <1>6, <1>7 DEF Tilings
<1> QED BY <1>3, <1>5, <1>8

(* What an element adds to the rope: its strands, which end where the        *)
(* position gets to.                                                        *)
LEMMA Rope ==
  ASSUME TypeOK, Tiling, index < Len(input), item.concrete,
         NEW longer, longer = strands \o SeparatorStrand \o PortionStrand
  PROVE  /\ longer \in Seq(Strand)
         /\ Len(longer) = Len(strands) + AddsStrands(index + 1)
         /\ longer \in Tilings /\ EndOf(longer) = AfterSeparator + pgraphs
         /\ AfterSeparator + pgraphs = position + AddsGraphs(index + 1)
         /\ AfterSeparator + pgraphs \in Nat
<1>1. /\ index + 1 \in 1..Len(input) /\ item \in Element /\ pgraphs \in Nat
      /\ Separated = Parted(index + 1) /\ sgraphs \in Nat /\ item = input[index + 1]
  BY Turn
<1>2. position \in Nat /\ strands \in Seq(Strand) /\ separator \in Text
      /\ strands \in Tilings /\ EndOf(strands) = position /\ item.text \in Text
  BY <1>1 DEF TypeOK, Tiling, Element
<1>3. pgraphs = Len(item.text) /\ sgraphs = Len(separator) BY DEF pgraphs, sgraphs
<1>4. AfterSeparator \in Nat /\ AfterSeparator = position + (IF Separated THEN sgraphs ELSE 0)
  BY <1>1, <1>2 DEF AfterSeparator
<1> DEFINE middle == strands \o SeparatorStrand
<1>5. /\ Len(middle) = Len(strands) + One(Separated)
      /\ middle \in Tilings /\ middle \in Seq(Strand) /\ EndOf(middle) = AfterSeparator
  <2>1. CASE Separated
    <3>1. SeparatorStrand = <<[compare_offset |-> position, string |-> separator]>>
      BY <2>1 DEF SeparatorStrand
    <3> DEFINE one == [compare_offset |-> position, string |-> separator]
    <3>2. one \in Strand /\ one.compare_offset = position /\ Len(one.string) = sgraphs
      BY <1>2, <1>3 DEF Strand
    <3>3. middle = Append(strands, one) BY <3>1, <1>2, <3>2
    <3> HIDE DEF middle, one
    <3>4. /\ middle \in Tilings /\ Len(middle) = Len(strands) + 1
          /\ EndOf(middle) = one.compare_offset + Len(one.string)
      BY <3>2, <3>3, <1>2, Tile
    <3>5. \A w \in Tilings : w \in Seq(Strand) BY DEF Tilings
    <3> QED BY <3>2, <3>4, <3>5, <2>1, <1>4 DEF One
  <2>2. CASE ~ Separated
    <3>1. SeparatorStrand = <<>> BY <2>2 DEF SeparatorStrand
    <3>2. middle = strands BY <3>1, <1>2
    <3> QED BY <3>2, <2>2, <1>2, <1>4 DEF One
  <2> QED BY <2>1, <2>2
<1> HIDE DEF middle
<1>6. longer = middle \o PortionStrand BY DEF middle
<1>7. /\ Len(longer) = Len(middle) + One(pgraphs > 0)
      /\ longer \in Tilings /\ longer \in Seq(Strand) /\ EndOf(longer) = AfterSeparator + pgraphs
  <2>1. CASE pgraphs > 0
    <3>1. PortionStrand = <<[compare_offset |-> AfterSeparator, string |-> item.text]>>
      BY <2>1 DEF PortionStrand
    <3> DEFINE one == [compare_offset |-> AfterSeparator, string |-> item.text]
    <3>2. one \in Strand /\ one.compare_offset = AfterSeparator /\ Len(one.string) = pgraphs
      BY <1>2, <1>3, <1>4 DEF Strand
    <3>3. longer = Append(middle, one)
      <4>1. longer = middle \o <<one>> BY <3>1, <1>6
      <4> HIDE DEF one
      <4> QED BY <4>1, <3>2, <1>5
    <3> HIDE DEF one
    <3>4. /\ longer \in Tilings /\ Len(longer) = Len(middle) + 1
          /\ EndOf(longer) = one.compare_offset + Len(one.string)
      BY <3>2, <3>3, <1>5, Tile
    <3>5. \A w \in Tilings : w \in Seq(Strand) BY DEF Tilings
    <3> QED BY <3>2, <3>4, <3>5, <2>1, <1>4 DEF One
  <2>2. CASE ~ pgraphs > 0
    <3>1. PortionStrand = <<>> BY <2>2 DEF PortionStrand
    <3>2. longer = middle BY <3>1, <1>5, <1>6
    <3>3. pgraphs = 0 BY <2>2, <1>1
    <3> QED BY <3>2, <3>3, <1>4, <1>5 DEF One
  <2> QED BY <2>1, <2>2
<1>8. AddsStrands(index + 1) = One(pgraphs > 0) + One(Separated)
  BY <1>1, <1>3 DEF AddsStrands
<1>9. AddsGraphs(index + 1) = pgraphs + (IF Separated THEN sgraphs ELSE 0)
  BY <1>1, <1>3 DEF AddsGraphs
<1>10. Len(longer) = Len(strands) + AddsStrands(index + 1)
  <2>1. Len(strands) \in Nat BY <1>2
  <2>2. \A b : One(b) \in Nat BY DEF One
  <2> QED BY <1>5, <1>7, <1>8, <2>1, <2>2
<1>11. AfterSeparator + pgraphs = position + AddsGraphs(index + 1)
  BY <1>1, <1>2, <1>4, <1>9
<1> QED BY <1>1, <1>4, <1>7, <1>10, <1>11

LEMMA LinkInv ==
  ASSUME Inv, Link PROVE Inv'
<1> USE DEF Inv
<1>1. /\ phase = "link" /\ index < Len(input) /\ phase' = phase /\ index' = index + 1
      /\ UNCHANGED <<input, separator, allocated, graphs, totals>>
  BY DEF Link, Looping
<1>2. /\ index + 1 \in 1..Len(input) /\ item = input[index + 1]
  BY <1>1, Turn
<1>3. /\ index \in Nat /\ Len(totals) = Len(input) + 1 /\ Len(input) \in Nat
      /\ allocated = All.strands + 1
      /\ Len(strands) = totals[index + 1].strands /\ portion_index = Len(strands)
      /\ position = totals[index + 1].graphs
  BY <1>1 DEF Linking, TypeOK
<1>4. /\ Steps' /\ Growing' /\ NoGraphsAlone' /\ All' = All
  <2>1. \A k : AddsStrands(k)' = AddsStrands(k) /\ AddsGraphs(k)' = AddsGraphs(k)
    BY <1>1 DEF AddsStrands, AddsGraphs, Parted, sgraphs
  <2>2. Steps' BY <1>1, <2>1 DEF Steps
  <2> QED BY <2>2, <1>1 DEF Growing, NoGraphsAlone, All
<1>5. /\ totals[index + 2].strands = totals[index + 1].strands + AddsStrands(index + 1)
      /\ totals[index + 2].graphs = totals[index + 1].graphs + AddsGraphs(index + 1)
  <2>1. index + 1 \in 1..(Len(totals) - 1) /\ (index + 1) + 1 = index + 2
    BY <1>2, <1>3
  <2> QED BY <2>1 DEF Steps
<1>6. /\ strands' \in Seq(Strand) /\ Tiling'
      /\ Len(strands') = totals[index + 2].strands
      /\ portion_index' = Len(strands') /\ length' \in Nat
      /\ position' = totals[index + 2].graphs /\ position' \in Nat
  <2>1. CASE item.concrete
    <3>1. /\ strands' = strands \o SeparatorStrand \o PortionStrand
          /\ portion_index' = Len(strands')
          /\ position' = AfterSeparator + pgraphs /\ length' = pgraphs
      BY <2>1 DEF Link
    <3>2. /\ strands' \in Seq(Strand)
          /\ Len(strands') = Len(strands) + AddsStrands(index + 1)
          /\ strands' \in Tilings /\ EndOf(strands') = AfterSeparator + pgraphs
          /\ AfterSeparator + pgraphs = position + AddsGraphs(index + 1)
          /\ AfterSeparator + pgraphs \in Nat
      BY <3>1, <2>1, <1>1, Rope
    <3>3. pgraphs \in Nat BY <1>1, Turn
    <3>4. Tiling' BY <3>1, <3>2 DEF Tiling
    <3> QED BY <3>1, <3>2, <3>3, <3>4, <1>3, <1>5
  <2>2. CASE ~ item.concrete
    <3>1. UNCHANGED <<strands, portion_index, position, length>> BY <2>2 DEF Link
    <3>2. AddsStrands(index + 1) = 0 /\ AddsGraphs(index + 1) = 0
      BY <2>2, <1>2 DEF AddsStrands, AddsGraphs
    <3>3. strands \in Seq(Strand) /\ position \in Nat /\ length \in Nat BY DEF TypeOK
    <3>4. Len(strands) \in Nat BY <3>3
    <3>5. Tiling' BY <3>1 DEF Tiling, EndOf
    <3> QED BY <3>1, <3>2, <3>3, <3>4, <3>5, <1>3, <1>5
  <2> QED BY <2>1, <2>2
<1>7. TypeOK'
  <2>1. index' \in 0..Len(input') BY <1>1, <1>2
  <2>2. portion_index' \in Nat BY <1>6
  <2> QED BY <2>1, <2>2, <1>1, <1>6 DEF TypeOK
<1>8. Linking'
  <2>1. index' + 1 = index + 2 BY <1>1, <1>3
  <2> QED BY <2>1, <1>1, <1>3, <1>4, <1>6 DEF Linking
<1>9. Counting' /\ Joined' BY <1>1 DEF Counting, Joined
<1> QED BY <1>1, <1>4, <1>6, <1>7, <1>8, <1>9

LEMMA LinkedInv ==
  ASSUME Inv, Linked PROVE Inv'
<1> USE DEF Inv
<1>1. /\ phase = "link" /\ index = Len(input) /\ phase' = "check" /\ graphs' = position
      /\ UNCHANGED <<input, separator, index, portion_index, length, position, strands,
                     allocated, totals>>
  BY DEF Linked, LoopEnds
<1>2. TypeOK' BY <1>1 DEF TypeOK
<1>3. /\ Steps' /\ Growing' /\ NoGraphsAlone' /\ Tiling' /\ All' = All
  <2>1. \A k : AddsStrands(k)' = AddsStrands(k) /\ AddsGraphs(k)' = AddsGraphs(k)
    BY <1>1 DEF AddsStrands, AddsGraphs, Parted, sgraphs
  <2>2. Steps' BY <1>1, <2>1 DEF Steps
  <2> QED BY <2>2, <1>1 DEF Growing, NoGraphsAlone, All, Tiling, EndOf
<1>4. /\ position = All.graphs /\ portion_index = All.strands
      /\ Len(strands) = All.strands /\ allocated = All.strands + 1 /\ Len(strands) \in Nat
  BY <1>1 DEF Linking, All, TypeOK
<1>5. Joined' BY <1>1, <1>3, <1>4 DEF Joined
<1>6. Counting' /\ Linking' BY <1>1 DEF Counting, Linking
<1> QED BY <1>1, <1>2, <1>3, <1>5, <1>6

LEMMA EndInv ==
  ASSUME Inv, TooMany \/ Check \/ UNCHANGED vars PROVE Inv'
<1> USE DEF Inv
<1>1. UNCHANGED <<input, separator, index, portion_index, length, position, strands,
                  allocated, graphs, totals>>
  BY DEF TooMany, Check, vars
<1>2. /\ Steps' /\ Growing' /\ NoGraphsAlone' /\ Tiling' /\ All' = All
  <2>1. \A k : AddsStrands(k)' = AddsStrands(k) /\ AddsGraphs(k)' = AddsGraphs(k)
    BY <1>1 DEF AddsStrands, AddsGraphs, Parted, sgraphs
  <2>2. Steps' BY <1>1, <2>1 DEF Steps
  <2> QED BY <2>2, <1>1 DEF Growing, NoGraphsAlone, All, Tiling, EndOf
<1>3. CASE TooMany
  <2>1. phase' = "toomany" BY <1>3 DEF TooMany
  <2>2. TypeOK' BY <2>1, <1>1 DEF TypeOK
  <2>3. Counting' /\ Linking' /\ Joined' BY <2>1 DEF Counting, Linking, Joined
  <2> QED BY <2>1, <2>2, <2>3, <1>2
<1>4. CASE Check
  <2>1. phase = "check" /\ graphs = position BY <1>4 DEF Check, Joined
  <2>2. phase' = "done" BY <2>1, <1>4 DEF Check
  <2>3. TypeOK' BY <2>2, <1>1 DEF TypeOK
  <2>4. Joined' BY <2>1, <2>2, <1>1, <1>2 DEF Joined
  <2>5. Counting' /\ Linking' BY <2>2 DEF Counting, Linking
  <2> QED BY <2>2, <2>3, <2>4, <2>5, <1>2
<1>5. CASE UNCHANGED vars
  <2>1. phase' = phase BY <1>5 DEF vars
  <2>2. TypeOK' BY <2>1, <1>1 DEF TypeOK
  <2>3. Counting' /\ Linking' /\ Joined'
    BY <2>1, <1>1, <1>2 DEF Counting, Linking, Joined
  <2> QED BY <2>1, <2>2, <2>3, <1>2
<1> QED BY <1>3, <1>4, <1>5

LEMMA NextInv == Inv /\ [Next]_vars => Inv'
<1> SUFFICES ASSUME Inv, [Next]_vars PROVE Inv' OBVIOUS
<1>1. CASE Count BY <1>1, CountInv
<1>2. CASE Counted BY <1>2, CountedInv
<1>3. CASE Link BY <1>3, LinkInv
<1>4. CASE Linked BY <1>4, LinkedInv
<1>5. CASE TooMany \/ Check \/ UNCHANGED vars BY <1>5, EndInv
<1>6. CASE Ended BY <1>6, EndInv DEF Ended
<1> QED BY <1>1, <1>2, <1>3, <1>4, <1>5, <1>6 DEF Next
-----------------------------------------------------------------------------
(* What the rope says: t has the texts of the first n elements of the list,   *)
(* and r those of the strands s.                                            *)
AddedTo(list, sep, x, k) == IF ~ list[k].concrete THEN x
                             ELSE x \o (IF k > 1 THEN sep ELSE <<>>) \o list[k].text
ListTexts(list, sep, t, n) ==
  /\ DOMAIN t = 0..n /\ t[0] = <<>> /\ \A k \in 0..n : t[k] \in Text
  /\ \A k \in 1..n : t[k] = AddedTo(list, sep, t[k - 1], k)
RopeTexts(r, s) ==
  /\ DOMAIN r = 0..Len(s) /\ r[0] = <<>> /\ \A k \in 0..Len(s) : r[k] \in Text
  /\ \A k \in 1..Len(s) : r[k] = r[k - 1] \o s[k].string

Says(list, sep, s, n) == \E t, r : ListTexts(list, sep, t, n) /\ RopeTexts(r, s) /\ r[Len(s)] = t[n]

(* The text of the elements seen: that of the strands, once they are linked,   *)
(* and empty while none is counted.                                         *)
Telling ==
  /\ phase = "count" =>
       \E t : ListTexts(input, separator, t, index) /\ (portion_index = 0 => t[index] = <<>>)
  /\ phase = "link" => Says(input, separator, strands, index)
  /\ phase \in {"check", "done"} => Says(input, separator, strands, Len(input))

LEMMA NoTexts ==
  /\ \E t : ListTexts(input, separator, t, 0)
  /\ \E r : RopeTexts(r, <<>>) /\ r[0] = <<>>
<1>1. PICK t : t = [k \in 0..0 |-> <<>>]
  OBVIOUS
<1>2. DOMAIN t = {0} /\ t[0] = <<>> /\ t[0] \in Text
  BY <1>1 DEF Text
<1>3. 0..0 = {0} /\ 1..0 = {} /\ Len(<<>>) = 0
  OBVIOUS
<1>4. ListTexts(input, separator, t, 0)
  BY <1>2, <1>3 DEF ListTexts
<1>5. RopeTexts(t, <<>>)
  BY <1>2, <1>3 DEF RopeTexts
<1> QED
  BY <1>2, <1>4, <1>5

LEMMA AnotherText ==
  ASSUME TypeOK, index < Len(input), NEW t, ListTexts(input, separator, t, index)
  PROVE  \E u : /\ ListTexts(input, separator, u, index + 1)
                /\ u[index + 1] = AddedTo(input, separator, t[index], index + 1)
<1>1. PICK n, x : n = index /\ x = AddedTo(input, separator, t[n], n + 1)
  OBVIOUS
<1>2. n \in Nat /\ n + 1 \in 1..Len(input)
  BY <1>1 DEF TypeOK
<1>3. x \in Text
  <2>1. t[n] \in Text
    BY <1>1, <1>2 DEF ListTexts
  <2>2. input[n + 1] \in Element /\ separator \in Text
    BY <1>2 DEF TypeOK
  <2>3. input[n + 1].text \in Text /\ <<>> \in Text
    BY <2>2 DEF Element, Text
  <2> QED
    BY <1>1, <2>1, <2>2, <2>3, ConcatProperties DEF AddedTo, Text
<1>4. PICK u : u = [k \in 0..(n + 1) |-> IF k = n + 1 THEN x ELSE t[k]]
  OBVIOUS
<1>5. DOMAIN u = 0..(n + 1) /\ u[n + 1] = x /\ \A k \in 0..n : u[k] = t[k]
  BY <1>2, <1>4
<1>6. \A k \in 0..(n + 1) : k \in 0..n \/ k = n + 1
  BY <1>2
<1>7. \A k \in 1..(n + 1) : u[k] = AddedTo(input, separator, u[k - 1], k)
  <2>1. u[n + 1] = AddedTo(input, separator, u[n], n + 1)
    BY <1>1, <1>2, <1>5
  <2>2. \A k \in 1..n : /\ k \in 0..n /\ k - 1 \in 0..n
                        /\ t[k] = AddedTo(input, separator, t[k - 1], k)
    BY <1>1, <1>2 DEF ListTexts
  <2>3. \A k \in 1..n : u[k] = AddedTo(input, separator, u[k - 1], k)
    BY <1>5, <2>2
  <2>4. \A k \in 1..(n + 1) : k \in 1..n \/ k = n + 1
    BY <1>2
  <2>5. ASSUME NEW k \in 1..(n + 1), k = n + 1 PROVE u[k] = AddedTo(input, separator, u[k - 1], k)
    <3>1. k - 1 = n
      BY <1>2, <2>5
    <3> QED
      BY <2>1, <2>5, <3>1
  <2> QED
    BY <2>3, <2>4, <2>5
<1>8. u[0] = <<>> /\ \A k \in 0..(n + 1) : u[k] \in Text
  <2>1. t[0] = <<>> /\ \A k \in 0..n : t[k] \in Text
    BY <1>1 DEF ListTexts
  <2>2. 0 \in 0..n
    BY <1>2
  <2> QED
    BY <1>3, <1>5, <1>6, <2>1, <2>2
<1>9. ListTexts(input, separator, u, n + 1)
  BY <1>5, <1>7, <1>8 DEF ListTexts
<1> QED
  BY <1>1, <1>5, <1>9

LEMMA AnotherStrand ==
  ASSUME NEW s \in Seq(Strand), NEW one \in Strand, NEW r, RopeTexts(r, s)
  PROVE  \E u : RopeTexts(u, Append(s, one)) /\ u[Len(s) + 1] = r[Len(s)] \o one.string
<1>1. PICK n, x, l : n = Len(s) /\ x = r[Len(s)] \o one.string /\ l = Append(s, one)
  OBVIOUS
<1>2. n \in Nat /\ Len(l) = n + 1 /\ l[n + 1] = one /\ \A k \in 1..n : l[k] = s[k]
  BY <1>1, AppendProperties, LenProperties
<1>3. /\ DOMAIN r = 0..n /\ r[0] = <<>> /\ \A k \in 0..n : r[k] \in Text
      /\ \A k \in 1..n : r[k] = r[k - 1] \o s[k].string
  BY <1>1 DEF RopeTexts
<1>4. x \in Text
  <2>1. r[n] \in Text /\ one.string \in Text
    BY <1>2, <1>3 DEF Strand
  <2> QED
    BY <1>1, <2>1, ConcatProperties DEF Text
<1>5. PICK u : u = [k \in 0..(n + 1) |-> IF k = n + 1 THEN x ELSE r[k]]
  OBVIOUS
<1>6. DOMAIN u = 0..(n + 1) /\ u[n + 1] = x /\ \A k \in 0..n : u[k] = r[k]
  BY <1>2, <1>5
<1>7. \A k \in 1..(n + 1) : u[k] = u[k - 1] \o l[k].string
  <2>1. u[n + 1] = u[n] \o l[n + 1].string
    <3>1. n \in 0..n
      BY <1>2
    <3> QED
      BY <1>1, <1>2, <1>6, <3>1, Zenon
  <2>2. \A k \in 1..n : k \in 0..n /\ k - 1 \in 0..n
    BY <1>2
  <2>3. \A k \in 1..n : u[k] = u[k - 1] \o l[k].string
    BY <1>2, <1>3, <1>6, <2>2
  <2>4. \A k \in 1..(n + 1) : k \in 1..n \/ k = n + 1
    BY <1>2
  <2>5. ASSUME NEW k \in 1..(n + 1), k = n + 1 PROVE u[k] = u[k - 1] \o l[k].string
    <3>1. k - 1 = n
      BY <1>2, <2>5
    <3> QED
      BY <2>1, <2>5, <3>1
  <2> QED
    BY <2>3, <2>4, <2>5
<1>8. u[0] = <<>> /\ \A k \in 0..(n + 1) : u[k] \in Text
  <2>1. \A k \in 0..(n + 1) : k \in 0..n \/ k = n + 1
    BY <1>2
  <2>2. 0 \in 0..n
    BY <1>2
  <2> QED
    BY <1>3, <1>4, <1>6, <2>1, <2>2
<1>9. RopeTexts(u, l)
  BY <1>2, <1>6, <1>7, <1>8 DEF RopeTexts
<1> QED
  BY <1>1, <1>6, <1>9

(* An element's strands add its text.                                        *)
LEMMA StrandsAdd ==
  ASSUME TypeOK, index < Len(input), item.concrete, NEW r, RopeTexts(r, strands),
         NEW longer, longer = strands \o SeparatorStrand \o PortionStrand
  PROVE  \E u : /\ RopeTexts(u, longer)
                /\ u[Len(longer)] = AddedTo(input, separator, r[Len(strands)], index + 1)
<1>1. /\ index + 1 \in 1..Len(input) /\ item \in Element /\ pgraphs \in Nat /\ sgraphs \in Nat
      /\ item = input[index + 1] /\ index \in Nat
  BY Turn DEF TypeOK
<1>2. /\ strands \in Seq(Strand) /\ separator \in Text /\ item.text \in Text /\ position \in Nat
      /\ pgraphs = Len(item.text) /\ sgraphs = Len(separator)
  BY <1>1 DEF TypeOK, Element, pgraphs, sgraphs
<1>3. AfterSeparator \in Nat
  BY <1>1, <1>2 DEF AfterSeparator
<1>4. PICK x, middle, apart : /\ x = r[Len(strands)] /\ middle = strands \o SeparatorStrand
                              /\ apart = (IF index + 1 > 1 THEN separator ELSE <<>>)
  OBVIOUS
<1>5. x \in Text /\ apart \in Text
  <2>1. Len(strands) \in 0..Len(strands)
    BY <1>2
  <2> QED
    BY <1>2, <1>4, <2>1 DEF RopeTexts, Text
<1>6. PICK m : RopeTexts(m, middle) /\ m[Len(middle)] = x \o apart /\ middle \in Seq(Strand)
  <2>1. CASE Separated
    <3>1. PICK one : one = [compare_offset |-> position, string |-> separator]
      OBVIOUS
    <3>2. one \in Strand /\ one.string = separator
      BY <1>2, <3>1 DEF Strand
    <3>3. middle = Append(strands, one)
      BY <1>2, <1>4, <2>1, <3>1, <3>2, AppendIsConcat DEF SeparatorStrand
    <3>4. Len(middle) = Len(strands) + 1 /\ middle \in Seq(Strand)
      BY <1>2, <3>2, <3>3, AppendProperties
    <3>5. apart = separator
      BY <1>1, <1>4, <2>1 DEF Separated
    <3> QED
      BY <1>2, <1>4, <3>2, <3>3, <3>4, <3>5, AnotherStrand
  <2>2. CASE ~ Separated
    <3>1. middle = strands
      BY <1>2, <1>4, <2>2, ConcatEmptySeq DEF SeparatorStrand
    <3>2. apart = <<>>
      <4>1. index = 0 \/ Len(separator) = 0
        BY <1>1, <1>2, <2>2 DEF Separated
      <4>2. Len(separator) = 0 => separator = <<>>
        BY <1>2, EmptySeq DEF Text
      <4> QED
        BY <1>1, <1>4, <4>1, <4>2
    <3>3. x \o apart = x
      BY <1>5, <3>2, ConcatEmptySeq DEF Text
    <3> QED
      BY <1>2, <1>4, <3>1, <3>3
  <2> QED
    BY <2>1, <2>2
<1>7. PICK u : RopeTexts(u, longer) /\ u[Len(longer)] = (x \o apart) \o item.text
  <2>1. longer = middle \o PortionStrand
    BY <1>4
  <2>2. CASE pgraphs > 0
    <3>1. PICK one : one = [compare_offset |-> AfterSeparator, string |-> item.text]
      OBVIOUS
    <3>2. one \in Strand /\ one.string = item.text
      BY <1>2, <1>3, <3>1 DEF Strand
    <3>3. longer = Append(middle, one)
      BY <1>6, <2>1, <2>2, <3>1, <3>2, AppendIsConcat DEF PortionStrand
    <3>4. Len(longer) = Len(middle) + 1
      BY <1>6, <3>2, <3>3, AppendProperties
    <3> QED
      BY <1>6, <3>2, <3>3, <3>4, AnotherStrand
  <2>3. CASE ~ pgraphs > 0
    <3>1. longer = middle
      BY <1>6, <2>1, <2>3, ConcatEmptySeq DEF PortionStrand
    <3>2. Len(item.text) = 0
      BY <1>1, <1>2, <2>3
    <3>3. item.text = <<>>
      BY <1>2, <3>2, EmptySeq DEF Text
    <3>4. x \o apart \in Text
      BY <1>5, ConcatProperties DEF Text
    <3>5. (x \o apart) \o item.text = x \o apart
      BY <3>3, <3>4, ConcatEmptySeq DEF Text
    <3> QED
      BY <1>6, <3>1, <3>5
  <2> QED
    BY <2>2, <2>3
<1>8. (x \o apart) \o item.text = AddedTo(input, separator, x, index + 1)
  <2>1. AddedTo(input, separator, x, index + 1) = x \o apart \o item.text
    BY <1>1, <1>4 DEF AddedTo
  <2> QED
    BY <2>1
<1> QED
  BY <1>4, <1>7, <1>8

(* An element that adds no strand adds no text.                              *)
LEMMA NothingAdded ==
  ASSUME TypeOK, index < Len(input), (IF item.concrete THEN Strands ELSE 0) = 0
  PROVE  AddedTo(input, separator, <<>>, index + 1) = <<>>
<1>1. /\ index + 1 \in 1..Len(input) /\ item \in Element /\ pgraphs \in Nat /\ sgraphs \in Nat
      /\ item = input[index + 1] /\ index \in Nat
  BY Turn DEF TypeOK
<1>2. /\ separator \in Text /\ item.text \in Text
      /\ pgraphs = Len(item.text) /\ sgraphs = Len(separator)
  BY <1>1 DEF TypeOK, Element, pgraphs, sgraphs
<1>3. CASE ~ item.concrete
  BY <1>1, <1>3 DEF AddedTo
<1>4. CASE item.concrete
  <2>1. One(pgraphs > 0) + One(Separated) = 0
    BY <1>4 DEF Strands
  <2>2. ~ (pgraphs > 0) /\ ~ Separated
    BY <2>1 DEF One
  <2>3. item.text = <<>>
    <3>1. Len(item.text) = 0
      BY <1>1, <1>2, <2>2
    <3> QED
      BY <1>2, <3>1, EmptySeq DEF Text
  <2>4. (IF index + 1 > 1 THEN separator ELSE <<>>) = <<>>
    <3>1. index = 0 \/ Len(separator) = 0
      BY <1>1, <1>2, <2>2 DEF Separated
    <3>2. Len(separator) = 0 => separator = <<>>
      BY <1>2, EmptySeq DEF Text
    <3> QED
      BY <1>1, <3>1, <3>2
  <2>5. <<>> \o <<>> \o <<>> = <<>>
    OBVIOUS
  <2> QED
    BY <1>1, <1>4, <2>3, <2>4, <2>5 DEF AddedTo
<1> QED
  BY <1>3, <1>4

LEMMA NextTelling ==
  ASSUME Inv, Telling, [Next]_vars
  PROVE  Telling'
<1>1. TypeOK /\ Counting
  BY DEF Inv
<1>2. CASE Count
  <2>1. /\ phase = "count" /\ index < Len(input) /\ phase' = "count" /\ index' = index + 1
        /\ UNCHANGED <<input, separator>>
        /\ portion_index' = portion_index + (IF item.concrete THEN Strands ELSE 0)
    BY <1>2 DEF Count, Looping
  <2>2. PICK t : ListTexts(input, separator, t, index) /\ (portion_index = 0 => t[index] = <<>>)
    BY <2>1 DEF Telling
  <2>3. PICK u : /\ ListTexts(input, separator, u, index + 1)
                 /\ u[index + 1] = AddedTo(input, separator, t[index], index + 1)
    BY <1>1, <2>1, <2>2, AnotherText
  <2>4. portion_index' = 0 => u[index + 1] = <<>>
    <3>1. portion_index \in Nat /\ pgraphs \in Nat
      BY <1>1, <2>1, Turn DEF TypeOK
    <3>2. (IF item.concrete THEN Strands ELSE 0) \in Nat
      BY DEF Strands, One
    <3>3. portion_index' = 0 => portion_index = 0 /\ (IF item.concrete THEN Strands ELSE 0) = 0
      BY <2>1, <3>1, <3>2
    <3> QED
      BY <1>1, <2>1, <2>2, <2>3, <3>3, NothingAdded
  <2>5. ListTexts(input', separator', u, index')
    BY <2>1, <2>3
  <2> QED
    BY <2>1, <2>3, <2>4, <2>5 DEF Telling
<1>3. CASE Counted
  <2>1. /\ phase = "count" /\ index = Len(input) /\ UNCHANGED <<input, separator, strands>>
        /\ strands = <<>> /\ portion_index \in Nat
    BY <1>1, <1>3 DEF Counted, LoopEnds, Counting, TypeOK
  <2>2. PICK t : ListTexts(input, separator, t, index) /\ (portion_index = 0 => t[index] = <<>>)
    BY <2>1 DEF Telling
  <2>3. PICK r : RopeTexts(r, <<>>) /\ r[0] = <<>>
    BY NoTexts
  <2>4. Len(<<>>) = 0
    OBVIOUS
  <2>5. CASE portion_index > 0
    <3>1. phase' = "link" /\ index' = 0
      BY <1>3, <2>5 DEF Counted
    <3>2. PICK u : ListTexts(input, separator, u, 0)
      BY NoTexts
    <3>3. u[0] = <<>> /\ ListTexts(input', separator', u, 0)
      BY <2>1, <3>2 DEF ListTexts
    <3> QED
      BY <2>1, <2>3, <2>4, <3>1, <3>3 DEF Telling, Says
  <2>6. CASE ~ portion_index > 0
    <3>1. phase' = "check" /\ portion_index = 0
      BY <1>3, <2>1, <2>6 DEF Counted
    <3>2. ListTexts(input', separator', t, Len(input'))
      BY <2>1, <2>2
    <3> QED
      BY <2>1, <2>2, <2>3, <2>4, <3>1, <3>2 DEF Telling, Says
  <2> QED
    BY <2>5, <2>6
<1>4. CASE Link
  <2>1. /\ phase = "link" /\ index < Len(input) /\ phase' = "link" /\ index' = index + 1
        /\ UNCHANGED <<input, separator>>
    BY <1>4 DEF Link, Looping
  <2>2. PICK t, r : /\ ListTexts(input, separator, t, index) /\ RopeTexts(r, strands)
                    /\ r[Len(strands)] = t[index]
    BY <2>1 DEF Telling, Says
  <2>3. PICK u : /\ ListTexts(input, separator, u, index + 1)
                 /\ u[index + 1] = AddedTo(input, separator, t[index], index + 1)
    BY <1>1, <2>1, <2>2, AnotherText
  <2>4. ListTexts(input', separator', u, index')
    BY <2>1, <2>3 DEF ListTexts, AddedTo
  <2>5. \E q : RopeTexts(q, strands') /\ q[Len(strands')] = u[index + 1]
    <3>1. CASE item.concrete
      <4>1. strands' = strands \o SeparatorStrand \o PortionStrand
        BY <1>4, <3>1 DEF Link
      <4> QED
        BY <1>1, <2>1, <2>2, <2>3, <3>1, <4>1, StrandsAdd
    <3>2. CASE ~ item.concrete
      <4>1. strands' = strands
        BY <1>4, <3>2 DEF Link
      <4>2. AddedTo(input, separator, t[index], index + 1) = t[index]
        BY <3>2 DEF AddedTo, item
      <4> QED
        BY <2>2, <2>3, <4>1, <4>2
    <3> QED
      BY <3>1, <3>2
  <2>6. Says(input', separator', strands', index')
    <3>1. PICK q : RopeTexts(q, strands') /\ q[Len(strands')] = u[index + 1]
      BY <2>5
    <3>2. RopeTexts(q, strands')
      BY <3>1
    <3> QED
      BY <2>1, <2>4, <3>1, <3>2 DEF Says
  <2> QED
    BY <2>1, <2>6 DEF Telling
<1>5. CASE Linked \/ Check
  <2>1. /\ (phase = "link" /\ index = Len(input)) \/ phase = "check"
        /\ phase' \in {"check", "done", "internalerror"} /\ UNCHANGED <<input, separator, strands>>
    BY <1>5 DEF Linked, Check, LoopEnds
  <2>2. Says(input, separator, strands, Len(input))
    BY <2>1 DEF Telling
  <2>3. Says(input', separator', strands', Len(input'))
    BY <2>1, <2>2
  <2> QED
    BY <2>1, <2>3 DEF Telling
<1>6. CASE TooMany
  BY <1>6 DEF TooMany, Telling
<1>7. CASE UNCHANGED vars
  BY <1>7 DEF vars, Telling
<1>8. CASE Ended
  BY <1>7, <1>8 DEF Ended
<1> QED
  BY <1>2, <1>3, <1>4, <1>5, <1>6, <1>7, <1>8 DEF Next

LEMMA InitTelling == Init => Telling
<1> SUFFICES ASSUME Init PROVE Telling
  OBVIOUS
<1>1. phase = "count" /\ index = 0
  BY DEF Init
<1>2. PICK t : ListTexts(input, separator, t, 0)
  BY NoTexts
<1>3. t[0] = <<>>
  BY <1>2 DEF ListTexts
<1> QED
  BY <1>1, <1>2, <1>3 DEF Telling

(* The texts are those of the recursive definitions.                         *)
LEMMA ListTextsAre ==
  ASSUME TypeOK, NEW t, ListTexts(input, separator, t, Len(input))
  PROVE  TextOfList[Len(input)] = t[Len(input)]
<1>1. PICK n, l, s : n = Len(input) /\ l = input /\ s = separator
  OBVIOUS
<1>2. n \in Nat /\ n \in 0..n
  BY <1>1 DEF TypeOK
<1>3. DOMAIN t = 0..n /\ t[0] = <<>> /\ \A k \in 1..n : t[k] = AddedTo(l, s, t[k - 1], k)
  BY <1>1 DEF ListTexts
<1>4. PICK h : h = [k \in 0..n |-> t[k]]
  OBVIOUS
<1>5. \A k \in 0..n : h[k] = IF k = 0 THEN <<>> ELSE AddedTo(l, s, h[k - 1], k)
  <2>1. \A k \in 0..n : k = 0 \/ (k \in 1..n /\ k - 1 \in 0..n)
    BY <1>2
  <2>2. \A k \in 0..n : h[k] = t[k]
    BY <1>4
  <2> QED
    BY <1>3, <2>1, <2>2
<1>6. h = [k \in 0..n |-> IF k = 0 THEN <<>> ELSE AddedTo(l, s, h[k - 1], k)]
  BY <1>4, <1>5
<1>7. \E g : g = [k \in 0..Len(input) |->
                    IF k = 0 THEN <<>>
                    ELSE IF ~ input[k].concrete THEN g[k - 1]
                    ELSE g[k - 1] \o (IF k > 1 THEN separator ELSE <<>>) \o input[k].text]
  BY <1>1, <1>6, Zenon DEF AddedTo
<1>8. TextOfList = [k \in 0..Len(input) |->
                     IF k = 0 THEN <<>>
                     ELSE IF ~ input[k].concrete THEN TextOfList[k - 1]
                     ELSE TextOfList[k - 1] \o (IF k > 1 THEN separator ELSE <<>>) \o input[k].text]
  BY <1>7, Zenon DEF TextOfList
<1>9. PICK g : g = TextOfList
  OBVIOUS
<1>10. g = [k \in 0..n |-> IF k = 0 THEN <<>> ELSE AddedTo(l, s, g[k - 1], k)]
  BY <1>1, <1>8, <1>9, Zenon DEF AddedTo
<1>11. \A k \in 0..n : g[k] = t[k]
  <2> DEFINE S == {k \in 0..n : g[k] = t[k]}
  <2>1. 0 \in S
    BY <1>2, <1>3, <1>10
  <2>2. ASSUME NEW k \in 1..n, k - 1 \in S
        PROVE  k \in S
    <3>1. k \in 0..n /\ k # 0
      BY <1>2
    <3>2. g[k] = AddedTo(l, s, g[k - 1], k)
      BY <1>10, <3>1
    <3> QED
      BY <1>3, <2>2, <3>1, <3>2
  <2> HIDE DEF S
  <2>3. \A k \in 1..n : k - 1 \in S => k \in S
    BY <2>2
  <2>4. \A k \in 0..n : k \in S
    BY <1>2, <2>1, <2>3, StepByStep
  <2> QED
    BY <2>4 DEF S
<1> QED
  BY <1>1, <1>2, <1>9, <1>11

LEMMA RopeTextsAre ==
  ASSUME TypeOK, NEW r, RopeTexts(r, strands)
  PROVE  TextOfRope[Len(strands)] = r[Len(strands)]
<1>1. PICK n, s : n = Len(strands) /\ s = strands
  OBVIOUS
<1>2. n \in Nat /\ n \in 0..n
  BY <1>1 DEF TypeOK
<1>3. DOMAIN r = 0..n /\ r[0] = <<>> /\ \A k \in 1..n : r[k] = r[k - 1] \o s[k].string
  BY <1>1 DEF RopeTexts
<1>4. PICK h : h = [k \in 0..n |-> r[k]]
  OBVIOUS
<1>5. \A k \in 0..n : h[k] = IF k = 0 THEN <<>> ELSE h[k - 1] \o s[k].string
  <2>1. \A k \in 0..n : k = 0 \/ (k \in 1..n /\ k - 1 \in 0..n)
    BY <1>2
  <2>2. \A k \in 0..n : h[k] = r[k]
    BY <1>4
  <2> QED
    BY <1>3, <2>1, <2>2
<1>6. h = [k \in 0..n |-> IF k = 0 THEN <<>> ELSE h[k - 1] \o s[k].string]
  BY <1>4, <1>5
<1>7. \E g : g = [k \in 0..Len(strands) |-> IF k = 0 THEN <<>> ELSE g[k - 1] \o strands[k].string]
  BY <1>1, <1>6, Zenon
<1>8. TextOfRope = [k \in 0..Len(strands) |->
                     IF k = 0 THEN <<>> ELSE TextOfRope[k - 1] \o strands[k].string]
  BY <1>7, Zenon DEF TextOfRope
<1>9. PICK g : g = TextOfRope
  OBVIOUS
<1>10. g = [k \in 0..n |-> IF k = 0 THEN <<>> ELSE g[k - 1] \o s[k].string]
  BY <1>1, <1>8, <1>9, Zenon
<1>11. \A k \in 0..n : g[k] = r[k]
  <2> DEFINE S == {k \in 0..n : g[k] = r[k]}
  <2>1. 0 \in S
    BY <1>2, <1>3, <1>10
  <2>2. ASSUME NEW k \in 1..n, k - 1 \in S
        PROVE  k \in S
    <3>1. k \in 0..n /\ k # 0
      BY <1>2
    <3>2. g[k] = g[k - 1] \o s[k].string
      BY <1>10, <3>1
    <3> QED
      BY <1>3, <2>2, <3>1, <3>2
  <2> HIDE DEF S
  <2>3. \A k \in 1..n : k - 1 \in S => k \in S
    BY <2>2
  <2>4. \A k \in 0..n : k \in S
    BY <1>2, <2>1, <2>3, StepByStep
  <2> QED
    BY <2>4 DEF S
<1> QED
  BY <1>1, <1>2, <1>9, <1>11
-----------------------------------------------------------------------------
(* The invariant holds in every state of a join.                            *)
THEOREM Invariance == Spec => []Inv
<1>1. Init => Inv BY InitInv
<1>2. Inv /\ [Next]_vars => Inv' BY NextInv
<1> QED BY <1>1, <1>2, PTL DEF Spec

(* The variables of MVM_string_join_ex keep their types.                     *)
THEOREM TypeCorrectness == Spec => []TypeOK
<1>1. Inv => TypeOK BY DEF Inv
<1> QED BY <1>1, Invariance, PTL

(* The second pass over the list never writes past the strands that were      *)
(* allocated from the count of the first.                                   *)
THEOREM Fit == Spec => []StrandsFit
<1>1. Inv => StrandsFit
  <2> SUFFICES ASSUME Inv, phase \in {"link", "check"}, allocated > 0
               PROVE  Len(strands) < allocated
    BY DEF StrandsFit
  <2>1. CASE phase = "check" BY <2>1 DEF Inv, Joined
  <2>2. CASE phase = "link"
    <3>1. /\ Len(totals) = Len(input) + 1 /\ allocated = All.strands + 1
          /\ Len(strands) = totals[index + 1].strands
      BY <2>2 DEF Inv, Linking
    <3>2. index \in 0..Len(input) /\ Len(input) \in Nat BY DEF Inv, TypeOK
    <3>3. index + 1 \in 1..Len(totals) /\ Len(totals) \in 1..Len(totals)
          /\ index + 1 <= Len(totals)
      BY <3>1, <3>2
    <3>4. totals[index + 1].strands <= All.strands BY <3>3 DEF Inv, Growing, All
    <3>5. totals[index + 1].strands \in Nat /\ All.strands \in Nat
      BY <3>3, TotalsNat DEF Inv, All
    <3> QED BY <3>1, <3>4, <3>5
  <2> QED BY <2>1, <2>2
<1> QED BY <1>1, Invariance, PTL

(* Both passes agree on the length and on the number of strands.             *)
THEOREM Agreement == Spec => []PassesAgree
<1>1. Inv => PassesAgree BY DEF Inv, Joined, PassesAgree, All
<1> QED BY <1>1, Invariance, PTL

(* The strands lie end to end.                                              *)
THEOREM EndToEnd == Spec => []StrandsTile
<1>1. Inv => StrandsTile BY DEF Inv, Tiling, Tilings, StrandsTile
<1> QED BY <1>1, Invariance, PTL

(* A join that ends has joined: the strands read one after another are the     *)
(* texts of the elements that have one, the separator between them.           *)
THEOREM Texts == Spec => []JoinsTheTexts
<1>1. Init => Inv /\ Telling
  BY InitInv, InitTelling
<1>2. Inv /\ Telling /\ [Next]_vars => (Inv /\ Telling)'
  BY NextInv, NextTelling
<1>3. Inv /\ Telling => JoinsTheTexts
  <2> SUFFICES ASSUME Inv, Telling, phase = "done"
               PROVE  TextOfRope[Len(strands)] = TextOfList[Len(input)]
    BY DEF JoinsTheTexts
  <2>1. PICK t, r : /\ ListTexts(input, separator, t, Len(input)) /\ RopeTexts(r, strands)
                    /\ r[Len(strands)] = t[Len(input)]
    BY DEF Telling, Says
  <2>2. TypeOK
    BY DEF Inv
  <2> QED
    BY <2>1, <2>2, ListTextsAre, RopeTextsAre
<1> QED
  BY <1>1, <1>2, <1>3, PTL DEF Spec

(* The check at the end never finds an internal error.                       *)
THEOREM NoInternalError == Spec => [](phase # "internalerror")
<1>1. Inv => phase # "internalerror" BY DEF Inv
<1> QED BY <1>1, Invariance, PTL
=============================================================================
