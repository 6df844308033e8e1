-------------------------------- MODULE Join --------------------------------
(***************************************************************************)
(* MVM_string_join_ex of src/src/builtin/array.c: the strings of a list are  *)
(* counted in a first pass over it and linked as the strands of a rope in a   *)
(* second one, which stringifies the elements again.  A string is a          *)
(* sequence of graphemes; an element has a text, unless it is null or a type. *)
(* One action is one turn of a loop.                                        *)
(***************************************************************************)
EXTENDS Integers, Sequences

CONSTANTS
  Graphemes,
  Lists,      \* the lists that are joined
  Separators,
  MaxStrands  \* 1 << 30

Text == Seq(Graphemes)
Element == [concrete : BOOLEAN, text : Text]

ASSUME ListsAssumption == Lists \subseteq Seq(Element) /\ Separators \subseteq Text
ASSUME MaxStrandsAssumption == MaxStrands \in Nat

VARIABLES
  phase,         \* "count", "link", "check", or how it ended
  input, separator,
  index,         \* the elements the loop has seen
  portion_index,
  length,
  position,
  strands,       \* the strands written so far
  allocated,     \* how many strands calloc made room for
  graphs,        \* NUM_GRAPHS(result)
  totals         \* history: portion_index and length after each turn of pass 1

vars == <<phase, input, separator, index, portion_index, length, position,
          strands, allocated, graphs, totals>>
-----------------------------------------------------------------------------
sgraphs == Len(separator)
item    == input[index + 1]
pgraphs == Len(item.text)

Init ==
  /\ phase = "count" /\ input \in Lists /\ separator \in Separators
  /\ index = 0 /\ portion_index = 0 /\ length = 0 /\ position = 0
  /\ strands = <<>> /\ allocated = 0 /\ graphs = 0
  /\ totals = <<[strands |-> 0, graphs |-> 0]>>

Looping(p) == phase = p /\ index < Len(input)
LoopEnds(p) == phase = p /\ index = Len(input)

(* Mutant: the first element gets a separator too.                          *)
SeparatedAll == sgraphs > 0
(* An element but the first has a separator before it.                      *)
Separated == index > 0 /\ sgraphs > 0
One(b) == IF b THEN 1 ELSE 0

(* Mutant: an empty element is taken to need no separator.                  *)
StrandsOfFull == IF pgraphs > 0 THEN 1 + One(Separated) ELSE 0
Strands == One(pgraphs > 0) + One(Separated)

Count ==
  /\ Looping("count")
  /\ LET more == IF item.concrete THEN Strands ELSE 0
         longer == IF item.concrete THEN pgraphs + (IF index > 0 THEN sgraphs ELSE 0) ELSE 0
     IN /\ portion_index' = portion_index + more
        /\ length' = length + longer
  /\ totals' = Append(totals, [strands |-> portion_index', graphs |-> length'])
  /\ index' = index + 1
  /\ UNCHANGED <<phase, input, separator, position, strands, allocated, graphs>>

TooMany ==
  /\ LoopEnds("count") /\ portion_index > MaxStrands
  /\ phase' = "toomany"
  /\ UNCHANGED <<input, separator, index, portion_index, length, position, strands,
                 allocated, graphs, totals>>

(* Mutant: the second loop starts one before the first element.              *)
CountedBefore ==
  /\ LoopEnds("count") /\ portion_index <= MaxStrands
  /\ IF portion_index > 0
     THEN /\ phase' = "link" /\ index' = -1
          /\ allocated' = portion_index + 1 /\ portion_index' = 0
     ELSE phase' = "check" /\ UNCHANGED <<index, allocated, portion_index>>
  /\ UNCHANGED <<input, separator, length, position, strands, graphs, totals>>
Counted ==
  /\ LoopEnds("count") /\ portion_index <= MaxStrands
  /\ IF portion_index > 0
     THEN /\ phase' = "link" /\ index' = 0
          /\ allocated' = portion_index + 1 /\ portion_index' = 0
     ELSE phase' = "check" /\ UNCHANGED <<index, allocated, portion_index>>
  /\ UNCHANGED <<input, separator, length, position, strands, graphs, totals>>

(* The strands an element adds, each with its offset.                        *)
SeparatorStrand == IF Separated THEN <<[compare_offset |-> position, string |-> separator]>>
                   ELSE <<>>
AfterSeparator == position + (IF Separated THEN sgraphs ELSE 0)
(* Mutant: the offset of an element does not count its separator.           *)
PortionStrandEarly ==
  IF pgraphs > 0 THEN <<[compare_offset |-> position, string |-> item.text]>> ELSE <<>>
PortionStrand ==
  IF pgraphs > 0 THEN <<[compare_offset |-> AfterSeparator, string |-> item.text]>> ELSE <<>>

(* Mutant: the position is not moved past the separator.                     *)
LinkForgetsSeparator ==
  /\ Looping("link")
  /\ IF item.concrete
     THEN /\ strands' = strands \o SeparatorStrand \o PortionStrand
          /\ portion_index' = Len(strands')
          /\ position' = position + pgraphs /\ length' = pgraphs
     ELSE UNCHANGED <<strands, portion_index, position, length>>
  /\ index' = index + 1
  /\ UNCHANGED <<phase, input, separator, allocated, graphs, totals>>
Link ==
  /\ Looping("link")
  /\ IF item.concrete
     THEN /\ strands' = strands \o SeparatorStrand \o PortionStrand
          /\ portion_index' = Len(strands')
          /\ position' = AfterSeparator + pgraphs /\ length' = pgraphs
     ELSE UNCHANGED <<strands, portion_index, position, length>>
  /\ index' = index + 1
  /\ UNCHANGED <<phase, input, separator, allocated, graphs, totals>>

(* The strand after the last one holds the length.                          *)
Linked ==
  /\ LoopEnds("link")
  /\ phase' = "check" /\ graphs' = position
  /\ UNCHANGED <<input, separator, index, portion_index, length, position, strands,
                 allocated, totals>>

Check ==
  /\ phase = "check"
  /\ phase' = IF graphs = position THEN "done" ELSE "internalerror"
  /\ UNCHANGED <<input, separator, index, portion_index, length, position, strands,
                 allocated, graphs, totals>>

Ended == phase \in {"done", "toomany", "internalerror"} /\ UNCHANGED vars

Next == Count \/ TooMany \/ Counted \/ Link \/ Linked \/ Check \/ Ended

Spec == Init /\ [][Next]_vars
-----------------------------------------------------------------------------
(* Properties.                                                              *)

Strand == [compare_offset : Nat, string : Text]
TypeOK ==
  /\ phase \in {"count", "link", "check", "done", "toomany", "internalerror"}
  /\ input \in Seq(Element) /\ separator \in Text
  /\ index \in 0..Len(input)
  /\ portion_index \in Nat /\ length \in Nat /\ position \in Nat /\ graphs \in Nat
  /\ strands \in Seq(Strand) /\ allocated \in Nat
  /\ totals \in Seq([strands : Nat, graphs : Nat])

(* The second pass writes no strand, nor the length after the last strand,   *)
(* outside of what the first pass had allocated.                            *)
StrandsFit == phase \in {"link", "check"} /\ allocated > 0 => Len(strands) < allocated

(* The rope is as long as the first pass has measured.                       *)
PassesAgree ==
  phase = "done" => graphs = totals[Len(totals)].graphs /\ portion_index = totals[Len(totals)].strands

(* Each strand starts where the one before it ends, so that a position of    *)
(* the rope lies in one strand.                                             *)
StrandsTile ==
  \A k \in DOMAIN strands :
    strands[k].compare_offset =
      IF k = 1 THEN 0 ELSE strands[k - 1].compare_offset + Len(strands[k - 1].string)

(* The text of the rope: the texts of the elements that have one, each but   *)
(* the first of the list with the separator before it.                      *)
TextOfList[k \in 0..Len(input)] ==
  IF k = 0 THEN <<>>
  ELSE IF ~ input[k].concrete THEN TextOfList[k - 1]
  ELSE TextOfList[k - 1] \o (IF k > 1 THEN separator ELSE <<>>) \o input[k].text
TextOfRope[k \in 0..Len(strands)] ==
  IF k = 0 THEN <<>> ELSE TextOfRope[k - 1] \o strands[k].string

JoinsTheTexts == phase = "done" => TextOfRope[Len(strands)] = TextOfList[Len(input)]
=============================================================================
