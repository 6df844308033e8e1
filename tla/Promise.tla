------------------------------ MODULE Promise ------------------------------
(***************************************************************************)
(* What a kiji process promises, whatever it does inside: it writes the texts *)
(* its program means, one after the other, and ends as the program does.      *)
(***************************************************************************)
EXTENDS Naturals, Sequences

CONSTANTS Programs, Meaning(_)

VARIABLES program, out, result

pvars == <<program, out, result>>

Init == program \in Programs /\ out = <<>> /\ result = "running"

WriteNext ==
  /\ Len(out) < Len(Meaning(program).out)
  /\ out' = Append(out, Meaning(program).out[Len(out) + 1])
  /\ UNCHANGED <<program, result>>

End ==
  /\ result = "running" /\ out = Meaning(program).out
  /\ result' = Meaning(program).result
  /\ UNCHANGED <<program, out>>

Next == WriteNext \/ End

Spec == Init /\ [][Next]_pvars /\ WF_pvars(Next)
=============================================================================
