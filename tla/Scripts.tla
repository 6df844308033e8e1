------------------------------- MODULE Scripts -------------------------------
(***************************************************************************)
(* What the disciplines of the node handlers say about a script, whatever    *)
(* they keep track of: what may be left to do after its first operation, and *)
(* which C locals that operation assigns.                                    *)
(***************************************************************************)
EXTENDS Codegen

(* What may be left to do after the first operation of todo.                *)
Ways(todo) ==
  LET op == todo[1]
      Into(ops) == ops \o Tail(todo)
  IN CASE op.op \in {"return", "die"} -> {}
       [] op.op = "switch"    -> {Into(op.cases[t]) : t \in RegTypes}
       [] op.op = "ifunknown" -> {Into(op.yes), Into(op.no)}
       [] op.op = "find"      -> {Into(op.found), Into(op.missing)}
                                 \cup (IF op.package # <<>> THEN {Into(op.package)} ELSE {})
       [] OTHER -> {Tail(todo)}

(* The locals an operation assigns.                                        *)
Assigned(op) ==
  CASE op.op \in {"child", "set", "narrow", "reg", "lexical", "mark"} -> {op.dst}
    [] op.op = "find"    -> {"lex_no", "outer"}
    [] op.op = "getcode" -> {"func_pos"}
    [] op.op = "enter"   -> {"start_offset"}
    [] op.op = "class"   -> {"wval1"}
    [] OTHER -> {}
=============================================================================
