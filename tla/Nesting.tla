------------------------------- MODULE Nesting -------------------------------
(***************************************************************************)
(* The discipline the node handlers keep with loops (loop.h, loop.c): a       *)
(* handler enters one loop at most, in the frame it was called in, and leaves *)
(* it there before it returns; what it compiles after the loop can throw     *)
(* nothing.                                                                 *)
(*                                                                         *)
(* A turn c says, of one activation: how many frames it has pushed (depth),   *)
(* and whether its loop is yet to come ("none"), in progress ("in") or left    *)
(* ("over"); the program's own activation has none ("never").                *)
(***************************************************************************)
EXTENDS Scripts

CONSTANT Turns  \* for a node, pairs of what its handler has left to do and its turn then

Turn(depth, loop) == [depth |-> depth, loop |-> loop]

Allowed(op, c) ==
  /\ op.op = "enter" => c = Turn(0, "none")
  /\ op.op = "leave" => c = Turn(0, "in")
  /\ op.op = "popframe" => c.depth > 0
  /\ op.op = "return" => c.depth = 0 /\ c.loop # "in"
  /\ op.op \in {"child", "throw"} => c.loop # "over"
  /\ op.op = "emit" => ~ IsThrow(op.name)

(* The turn after the operation.                                             *)
Turned(op, c) ==
  CASE op.op = "enter"     -> Turn(c.depth, "in")
    [] op.op = "leave"     -> Turn(c.depth, "over")
    [] op.op = "pushframe" -> Turn(c.depth + 1, c.loop)
    [] op.op = "popframe"  -> Turn(c.depth - 1, c.loop)
    [] OTHER -> c

Nests(T) ==
  \A n \in DOMAIN T : \A t \in T[n] : t[1] # <<>> =>
    LET op == t[1][1] IN
      /\ Allowed(op, t[2])
      /\ \A todo \in Ways(t[1]) : <<todo, Turned(op, t[2])>> \in T[n]
      /\ op.op = "child" => op.node \in DOMAIN T /\ <<Script(op.node), Turn(0, "none")>> \in T[op.node]

Nesting(T) ==
  /\ Nests(T)
  /\ \A p \in Programs : p \in DOMAIN T /\ <<MainScript(p), Turn(0, "never")>> \in T[p]

ASSUME NestingAssumption == Nesting(Turns)
=============================================================================
