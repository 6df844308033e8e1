------------------------------- MODULE MoarVM -------------------------------
(***************************************************************************)
(* What kiji relies on in MoarVM, its back end (an external submodule): the *)
(* register types, the types of the register operands of each instruction   *)
(* the handlers emit, and the instructions that end a frame or move the     *)
(* program counter.                                                         *)
(***************************************************************************)
EXTENDS Integers, Sequences

RegTypes == {"int64", "num64", "str", "obj"}

(* The operand types of an instruction, its destination first; if and unless *)
(* stand for their _i, _n, _s and _o forms, chosen by the register's type.   *)
Operands(op) ==
  CASE op \in {"if", "unless"} -> {<<t>> : t \in RegTypes}
    [] op = "set" -> {<<t, t>> : t \in RegTypes}
    [] op \in {"const_i64", "return_i", "arg_i", "inc_i"} -> {<<"int64">>}
    [] op \in {"const_n64", "return_n", "arg_n"} -> {<<"num64">>}
    [] op \in {"const_s", "return_s", "arg_s", "say", "print"} -> {<<"str">>}
    [] op \in {"return_o", "arg_o", "null", "wval", "getlex", "bindlex", "hllhash", "hlllist",
               "hllboxtype_i", "hllboxtype_n", "hllboxtype_s", "param_rp_o", "param_op_o",
               "getcode", "invoke_v", "next", "last", "redo"} -> {<<"obj">>}
    [] op \in {"create", "push_o", "iter", "shift_o", "invoke_o", "findmeth"} -> {<<"obj", "obj">>}
    [] op \in {"bnot_i", "neg_i", "not_i", "abs_i"} -> {<<"int64", "int64">>}
    [] op = "neg_n"       -> {<<"num64", "num64">>}
    [] op = "coerce_is"   -> {<<"str", "int64">>}
    [] op = "coerce_ns"   -> {<<"str", "num64">>}
    [] op = "coerce_ni"   -> {<<"int64", "num64">>}
    [] op = "coerce_si"   -> {<<"int64", "str">>}
    [] op = "coerce_in"   -> {<<"num64", "int64">>}
    [] op = "coerce_sn"   -> {<<"num64", "str">>}
    [] op = "smrt_strify" -> {<<"str", "obj">>}
    [] op = "smrt_numify" -> {<<"num64", "obj">>}
    [] op = "die"         -> {<<"obj", "str">>}
    [] op = "box_i"       -> {<<"obj", "int64", "obj">>}
    [] op = "box_n"       -> {<<"obj", "num64", "obj">>}
    [] op = "box_s"       -> {<<"obj", "str", "obj">>}
    [] op \in {"add_i", "band_i", "brshift_i", "eq_i", "lt_i"} -> {<<"int64", "int64", "int64">>}
    [] op = "add_n"       -> {<<"num64", "num64", "num64">>}
    [] op \in {"eq_n", "lt_n"} -> {<<"int64", "num64", "num64">>}
    [] op = "eq_s"        -> {<<"int64", "str", "str">>}
    [] op = "concat_s"    -> {<<"str", "str", "str">>}
    [] op = "repeat_s"    -> {<<"str", "str", "int64">>}
    [] op = "atkey_o"     -> {<<"obj", "obj", "str">>}
    [] op = "atpos_o"     -> {<<"obj", "obj", "int64">>}
    [] op = "bindkey_o"   -> {<<"obj", "str", "obj">>}
    [] op = "open_fh"     -> {<<"obj", "str", "str">>}
    [] op = "slurp"       -> {<<"str", "str", "str">>}
    [] op \in {"checkarity", "prepargs", "goto", "return"} -> {<<>>}

IsReturn(op)  == op \in {"return", "return_i", "return_n", "return_s", "return_o"}
IsBranch(op)  == op \in {"if", "unless"}
IsJump(op)    == op \in {"goto", "param_op_o"} \/ IsBranch(op)
IsThrow(op)   == op \in {"next", "last", "redo"}
IsInvoke(op)  == op \in {"invoke_o", "invoke_v"}
IsArgument(op) == op \in {"arg_i", "arg_n", "arg_s", "arg_o"}
ArgumentFlag(op) == CASE op = "arg_i" -> "int64" [] op = "arg_n" -> "num64"
                      [] op = "arg_s" -> "str"   [] op = "arg_o" -> "obj"

(* MoarVM takes the first handler of a frame, in the order of the table,     *)
(* whose category and bytecode range match: the program counter is past the  *)
(* op word of the throw in the frame that throws, and the return address in  *)
(* the frames outside it.                                                   *)
Handles(h, category, pc) ==
  h.category = category /\ h.start_offset <= pc /\ pc <= h.end_offset
=============================================================================
