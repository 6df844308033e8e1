------------------------------ MODULE Handlers ------------------------------
(***************************************************************************)
(* The node handlers of kiji (nd_control.c, nd_ops.c, nd_literal.c,         *)
(* nd_func.c and the helpers of op_helper.c they call) as sequences of the  *)
(* primitive operations module Codegen executes.  A node is a record        *)
(* [kind, kids, name, val]: its identifier, and the value of a literal (an   *)
(* integer, or the number a string of digits denotes, which stands for the   *)
(* index of a string in the pool).  NodeHandler(n) is the body of its ND     *)
(* function.                                                                *)
(***************************************************************************)
EXTENDS Naturals, Sequences, FiniteSets
LOCAL INSTANCE SequencesExt

(* The primitive operations.                                                *)
Child(v, n)       == [op |-> "child", dst |-> v, node |-> n]
Return(v)         == [op |-> "return", src |-> v]
Set(v, w)         == [op |-> "set", dst |-> v, src |-> w]
Narrow(v)         == [op |-> "narrow", dst |-> v]
Reg(v, t)         == [op |-> "reg", dst |-> v, type |-> t]
Lexical(v, name)  == [op |-> "lexical", dst |-> v, name |-> name]
PackageVariable(name) == [op |-> "pkgvar", name |-> name]
FindLexical(name, found, missing) ==
  [op |-> "find", name |-> name, found |-> found, package |-> <<>>, missing |-> missing]
FindVariable(name, my, our) ==                       \* exit(1) when it is neither
  [op |-> "find", name |-> name, found |-> my, package |-> our,
   missing |-> <<[op |-> "die", why |-> "exit"]>>]
Access(o, v, lex, outer) == [op |-> "access", instr |-> o, reg |-> v, lex |-> lex, outer |-> outer]
GetLex(v)         == Access("getlex", v, "lex_no", "outer")   \* where a lookup found it
SetLex(v)         == Access("bindlex", v, "lex_no", "outer")
BindLex(lex, v)   == Access("bindlex", v, lex, "zero")        \* in the frame on top
Emit(o, args, n)  == [op |-> "emit", name |-> o, args |-> args, imm |-> n,
                      val |-> 0, extra |-> 0, str |-> ""]
EmitVal(o, args, n, x) == [Emit(o, args, n) EXCEPT !.val = x]
CheckArity(min, max)   == [EmitVal("checkarity", <<>>, 4, min) EXCEPT !.extra = max]
ConstName(v, name)     == [Emit("const_s", <<v>>, 2) EXCEPT !.str = name]
FindMeth(v, obj, name) == [Emit("findmeth", <<v, obj>>, 2) EXCEPT !.str = name]
GetCode(v, f)     == [op |-> "getcode", dst |-> v, frame |-> f]
PatchCode(f)      == [op |-> "patchcode", frame |-> f]
PushFrame(f)      == [op |-> "pushframe", dst |-> f]
PopFrame          == [op |-> "popframe"]
Put(l)            == [op |-> "put", label |-> l]
Goto(l)           == [op |-> "goto", label |-> l]
ParamOptional(v, i, l) == [op |-> "paramop", on |-> v, index |-> i, label |-> l]
PrepArgs(args)    == [op |-> "prepargs", args |-> args]
OpenClass         == [op |-> "class"]
CloseClass        == [op |-> "endclass"]
BindMethod(name, f) == [op |-> "bindmethod", name |-> name, frame |-> f]
Wval(v, sc)       == [op |-> "wval", dst |-> v, sc |-> sc]
Finalize          == [op |-> "finalize"]
LoopEnter         == [op |-> "enter"]
LoopNext          == [op |-> "mark", dst |-> "next_offset"]
LoopLast          == [op |-> "mark", dst |-> "last_offset"]
LoopLeave         == [op |-> "leave"]
Throw(v, c)       == [op |-> "throw", dst |-> v, category |-> c]
IfUnknown(v, y, n) == [op |-> "ifunknown", on |-> v, yes |-> y, no |-> n]
AssertType(v, t)  == [op |-> "assert", on |-> v, type |-> t]
Die(why)          == [op |-> "die", why |-> why]

(* One branch for each type of register v.                                  *)
Switch(v, i, n, s, o) ==
  [op |-> "switch", on |-> v,
   cases |-> [int64 |-> i, num64 |-> n, str |-> s, obj |-> o]]

Void == <<Return("UNKNOWN_REG")>>
AssertKnown(v) == IfUnknown(v, <<Die("assert")>>, <<>>)
Child16(v, n)  == <<Child(v, n), Narrow(v)>>             \* MVMuint16 v = ...

ArgO(i, v)     == EmitVal("arg_o", <<v>>, 2, i)

Each(n, F(_)) == FlattenSeq([i \in 1..n |-> F(i)])

(* A label is named after the C variable, with a number when it is one of    *)
(* several: the labels of elsif clauses and of optional parameters.          *)
L(name)  == <<name, 0>>
Elsif(i) == <<"elsif", i>>

K(n, i) == n.kids[i]

(* The name of a variable, of a sub, and of a class, as it is declared.      *)
Var(name)  == <<"$", name>>
Amp(name)  == <<"&", name>>
Bare(name) == <<"", name>>
Package    == <<"$?", "PACKAGE">>
-----------------------------------------------------------------------------
(* op_helper.c                                                              *)

Branch(name, v, l) == <<[op |-> "branch", on |-> v, label |-> l, name |-> name]>>
If(v, l)     == Branch("if", v, l)
Unless(v, l) == Branch("unless", v, l)

Const1(v) == <<Reg(v, "int64"), EmitVal("const_i64", <<v>>, 8, 1)>>

ReturnAny(v) ==
  <<Switch(v, <<Emit("return_i", <<v>>, 0)>>, <<Emit("return_n", <<v>>, 0)>>,
              <<Emit("return_s", <<v>>, 0)>>, <<Emit("return_o", <<v>>, 0)>>)>>

(* A new register of type t, set from v by a coercion, becomes d.            *)
Coerce(d, v, t, op) == <<Reg("to", t), Emit(op, <<"to", v>>, 0), Set(d, "to")>>
Box(d, v, boxtype, op) ==
  <<Reg("to", "obj"), Reg("boxtype", "obj"), Emit(boxtype, <<"boxtype">>, 0),
    Emit(op, <<"to", v, "boxtype">>, 0), Set(d, "to")>>

(* d := to_s(v), to_i(v), to_n(v), to_o(v).                                  *)
ToS(d, v) == <<Switch(v, Coerce(d, v, "str", "coerce_is"), Coerce(d, v, "str", "coerce_ns"),
                         <<Set(d, v)>>, Coerce(d, v, "str", "smrt_strify"))>>
(* Mutant: an object is left as the number smrt_numify gives.               *)
ToILeavesNum(d, v) == <<Switch(v, <<Set(d, v)>>, Coerce(d, v, "num64", "coerce_ni"),
                         Coerce(d, v, "int64", "coerce_si"),
                         Coerce(d, v, "num64", "smrt_numify"))>>
ToI(d, v) == <<Switch(v, <<Set(d, v)>>, Coerce(d, v, "num64", "coerce_ni"),
                         Coerce(d, v, "int64", "coerce_si"),
                         <<Reg("dst_num", "num64"), Reg("to", "int64"),
                           Emit("smrt_numify", <<"dst_num", v>>, 0),
                           Emit("coerce_ni", <<"to", "dst_num">>, 0), Set(d, "to")>>)>>
ToN(d, v) == <<Switch(v, Coerce(d, v, "num64", "coerce_in"), <<Set(d, v)>>,
                         Coerce(d, v, "num64", "coerce_sn"),
                         Coerce(d, v, "num64", "smrt_numify"))>>
ToO(d, v) == <<Switch(v, Box(d, v, "hllboxtype_i", "box_i"), Box(d, v, "hllboxtype_n", "box_n"),
                         Box(d, v, "hllboxtype_s", "box_s"), <<Set(d, v)>>)>>

To(type, d, v) == CASE type = "str" -> ToS(d, v) [] type = "int64" -> ToI(d, v)
                    [] type = "num64" -> ToN(d, v)

ChildS(d, n) == <<Child(d, n)>> \o ToS(d, d)
ChildI(d, n) == <<Child(d, n)>> \o ToI(d, d)
ChildN(d, n) == <<Child(d, n)>> \o ToN(d, d)
ChildO(d, n) == <<Child(d, n)>> \o ToO(d, d)

(* $?PACKAGE is looked up to reach an `our' variable.                       *)
WithPackage(ops) == <<FindLexical(Package, ops, <<Die("panic")>>)>>

(* Kiji_compiler_get_variable and _set_variable, of a `my' variable or of an *)
(* `our' variable, which is an entry of $?PACKAGE.                           *)
GetVariable(d, var) ==
  <<FindVariable(Var(var.name), <<Reg(d, "obj"), GetLex(d)>>,
      WithPackage(<<Reg(d, "obj"), Reg("varname_s", "str"), GetLex(d),
                    ConstName("varname_s", var.name),
                    Emit("atkey_o", <<d, d, "varname_s">>, 0)>>))>>

SetVariable(var, v) ==
  <<FindVariable(Var(var.name), <<SetLex(v)>>,
      WithPackage(<<Reg("package", "obj"), Reg("varname_s", "str"), GetLex("package"),
                    ConstName("varname_s", var.name),
                    Emit("bindkey_o", <<"package", "varname_s", v>>, 0)>>))>>

(* Kiji_compiler_compile_statements: the value of the last statement, boxed, *)
(* or null, goes to dst.                                                    *)
Statements(n, dst) ==
  <<Set("st", "UNKNOWN_REG")>>
  \o (IF n.kind \in {"statements", "else"}
      THEN Each(Len(n.kids), LAMBDA i : <<Child("st", K(n, i))>>)
      ELSE <<Child("st", n)>>)
  \o <<IfUnknown("st", <<Emit("null", <<dst>>, 0)>>,
                       ToO("st", "st") \o <<Emit("set", <<dst, "st">>, 0)>>)>>

(* str_cmp_binop and num_cmp_binop, the two cases of do_compare.            *)
Compare(type, d, lhs, rhs) ==
  LET op_i == IF type = "lt" THEN "lt_i" ELSE "eq_i"
      op_n == IF type = "lt" THEN "lt_n" ELSE "eq_n"
  IN <<Reg(d, "int64")>> \o
     IF type = "streq"
     THEN ToS("l", lhs) \o ToS("r", rhs) \o <<Emit("eq_s", <<d, "l", "r">>, 0)>>
     ELSE <<Switch(lhs, ToI("r", rhs) \o <<Emit(op_i, <<d, lhs, "r">>, 0)>>,
                        ToN("r", rhs) \o <<Emit(op_n, <<d, lhs, "r">>, 0)>>,
                        <<Die("assert")>>,
                        ToN("l", lhs) \o ToN("r", rhs) \o <<Emit(op_n, <<d, "l", "r">>, 0)>>)>>

(* Mutant: every comparison of a chain has its first operand on the left.    *)
ChainKeepsLeft(n) ==
  Child16("lhs", K(n, 1)) \o <<Reg("dst_reg", "int64")>>
  \o Each(Len(n.kids) - 1, LAMBDA i :
       Child16("rhs", K(K(n, i + 1), 1))
       \o Compare(K(n, i + 1).kind, "ret", "lhs", "rhs") \o Unless("ret", L("false")))
  \o <<EmitVal("const_i64", <<"dst_reg">>, 8, 1), Goto(L("end")), Put(L("false")),
       EmitVal("const_i64", <<"dst_reg">>, 8, 0), Put(L("end")), Return("dst_reg")>>

(* compile_chained_comparisions: lhs op rhs op rhs ...                       *)
Chain(n) ==
  Child16("lhs", K(n, 1)) \o <<Reg("dst_reg", "int64")>>
  \o Each(Len(n.kids) - 1, LAMBDA i :
       Child16("rhs", K(K(n, i + 1), 1))
       \o Compare(K(n, i + 1).kind, "ret", "lhs", "rhs")
       \o Unless("ret", L("false")) \o <<Set("lhs", "rhs")>>)
  \o <<EmitVal("const_i64", <<"dst_reg">>, 8, 1), Goto(L("end")), Put(L("false")),
       EmitVal("const_i64", <<"dst_reg">>, 8, 0), Put(L("end")), Return("dst_reg")>>

NumericBinop(n) ==
  <<Child("num1", K(n, 1)),
    Switch("num1",
      <<Reg("dst", "int64")>> \o ChildI("num2", K(n, 2))
        \o <<AssertType("num2", "int64"), Emit("add_i", <<"dst", "num1", "num2">>, 0)>>,
      <<Reg("dst", "num64")>> \o ChildN("num2", K(n, 2))
        \o <<AssertType("num2", "num64"), Emit("add_n", <<"dst", "num1", "num2">>, 0)>>,
      <<Reg("num", "num64"), Emit("coerce_sn", <<"num", "num1">>, 0), Reg("dst", "num64")>>
        \o ChildN("num2", K(n, 2)) \o <<Emit("add_n", <<"dst", "num", "num2">>, 0)>>,
      <<Reg("dst", "num64"), Reg("num", "num64"), Emit("smrt_numify", <<"num", "num1">>, 0)>>
        \o ChildN("num2", K(n, 2))
        \o <<AssertType("num2", "num64"), Emit("add_n", <<"dst", "num", "num2">>, 0)>>),
    Return("dst")>>

BinaryBinop(n) ==
  ChildI("num1", K(n, 1)) \o <<Narrow("num1")>> \o ChildI("num2", K(n, 2)) \o <<Narrow("num2")>>
  \o <<Reg("dst", "int64"), Emit("band_i", <<"dst", "num1", "num2">>, 0), Return("dst")>>

(* $x op= rhs: both sides coerced to the types of op, the result kept in $x. *)
Inplace(n, type, op, rtype) ==
  GetVariable("lhs", K(n, 1)) \o Child16("rhs", K(n, 2)) \o <<Reg("tmp", type)>>
  \o To(type, "l", "lhs") \o To(rtype, "r", "rhs") \o <<Emit(op, <<"tmp", "l", "r">>, 0)>>
  \o ToO("o", "tmp") \o SetVariable(K(n, 1), "o") \o <<Return("tmp")>>
-----------------------------------------------------------------------------
(* nd_literal.c                                                             *)

Literal(n, type, op, imm) ==
  <<Reg("reg", type), EmitVal(op, <<"reg">>, imm, n.val), Return("reg")>>
Variable(n) == GetVariable("reg", n) \o <<Return("reg")>>
TwArgs == <<Reg("retval", "obj"), Wval("retval", "zero"), Return("retval")>>

(* A bare word is a class, else a sub called without arguments.              *)
Ident(n) ==
  <<FindLexical(Bare(n.name), <<Reg("reg_no", "obj"), GetLex("reg_no"), Return("reg_no")>>,
     <<FindLexical(Amp(n.name),
         <<Reg("func", "obj"), GetLex("func"), PrepArgs(<<>>), Reg("dest_reg", "obj"),
           Emit("invoke_o", <<"dest_reg", "func">>, 0), Return("dest_reg")>>,
         <<Die("panic")>>)>>)>>

NewObject(v, type) == <<Reg(v, "obj"), Emit(type, <<v>>, 0), Emit("create", <<v, v>>, 0)>>

(* compile_array: the elements of a nested list are pushed one by one.       *)
RECURSIVE Elements(_)
Elements(n) ==
  IF n.kind = "list" THEN Each(Len(n.kids), LAMBDA i : Elements(K(n, i)))
  ELSE ChildO("elem", n) \o <<Emit("push_o", <<"array", "elem">>, 0)>>

(* NODE_LIST and NODE_ARRAY; a pair is an array of its key.                  *)
List(n) == NewObject("array", "hlllist") \o Each(Len(n.kids), LAMBDA i : Elements(K(n, i)))
           \o <<Return("array")>>
Pair(n) == NewObject("array", "hlllist") \o Elements(K(n, 1)) \o <<Return("array")>>

Hash(n) ==
  <<Reg("hashtype", "obj"), Reg("hash", "obj"), Emit("hllhash", <<"hashtype">>, 0),
    Emit("create", <<"hash", "hashtype">>, 0)>>
  \o Each(Len(n.kids), LAMBDA i :
       ChildS("k", K(K(n, i), 1)) \o ChildO("v", K(K(n, i), 2))
       \o <<Emit("bindkey_o", <<"hash", "k", "v">>, 0)>>)
  \o <<Return("hash")>>
-----------------------------------------------------------------------------
(* nd_control.c                                                             *)

LoopControl(category) == <<Reg("ret", "obj"), Throw("ret", category), Return("ret")>>

ReturnNode(n) == Child16("reg", K(n, 1)) \o ReturnAny("reg") \o Void  \* reg < 0 is never true

DieNode(n) ==
  ChildS("msg_reg", K(n, 1)) \o <<Reg("dst_reg", "obj"), Emit("die", <<"dst_reg", "msg_reg">>, 0)>>
  \o Void

While(n) ==
  <<LoopEnter, Put(L("while")), LoopNext, Child("reg", K(n, 1)), AssertKnown("reg")>>
  \o Unless("reg", L("end"))
  \o <<Child("void", K(n, 2)), Goto(L("while")), Put(L("end")), LoopLast, LoopLeave>>
  \o Void

(* The body is a lambda invoked with the element, or code after `$_' is bound.*)
For(n) ==
  <<LoopEnter>> \o ChildO("src_reg", K(n, 1))
  \o <<Reg("iter_reg", "obj"), Emit("iter", <<"iter_reg", "src_reg">>, 0)>>
  \o Unless("iter_reg", L("end"))
  \o <<Put(L("for")), LoopNext, Reg("val", "obj"), Emit("shift_o", <<"val", "iter_reg">>, 0)>>
  \o (IF K(n, 2).kind = "lambda"
      THEN <<Child("body", K(n, 2)), PrepArgs(<<"val">>), ArgO(0, "val"),
             Emit("invoke_v", <<"body">>, 0)>>
      ELSE <<Lexical("it", Var("_")), BindLex("it", "val"), Child("void", K(n, 2))>>)
  \o If("iter_reg", L("for"))
  \o <<Put(L("end")), LoopLast, LoopLeave>>
  \o Void

(* kids: the parameters (nodes with a name) and the body.                    *)
Lambda(n) ==
  LET params == K(n, 1).kids IN
  <<PushFrame("frame_no"), CheckArity(Len(params), Len(params))>>
  \o Each(Len(params), LAMBDA i :
       <<Reg("reg", "obj"), Lexical("lex", Var(params[i].name)),
         EmitVal("param_rp_o", <<"reg">>, 2, i - 1), BindLex("lex", "reg")>>)
  \o <<Child("retval", K(n, 2)),
       IfUnknown("retval", <<Reg("retval", "obj"), Emit("null", <<"retval">>, 0)>>, <<>>)>>
  \o ReturnAny("retval")
  \o <<PopFrame, Reg("dst_reg", "obj"), GetCode("dst_reg", "frame_no"), Return("dst_reg")>>

(* NODE_BLOCK, and NODE_USE for a library without exports.                   *)
Block(n) ==
  <<PushFrame("frame_no"), CheckArity(0, 0)>>
  \o Each(Len(n.kids), LAMBDA i : <<Child("void", K(n, i))>>)
  \o <<Emit("return", <<>>, 0), PopFrame, Reg("frame_reg", "obj"),
       GetCode("frame_reg", "frame_no"), PrepArgs(<<>>),
       Emit("invoke_v", <<"frame_reg">>, 0)>>
  \o Void

UnlessNode(n) ==
  <<Child("cond_reg", K(n, 1))>> \o If("cond_reg", L("end"))
  \o <<Child("dst_reg", K(n, 2)), Put(L("end")), Return("dst_reg")>>

(* kids: condition, body, then elsif nodes [condition, body] and an else.    *)
IfNode(n) ==
  LET hasElse == n.kids[Len(n.kids)].kind = "else"
      elsifs  == IF hasElse THEN Len(n.kids) - 3 ELSE Len(n.kids) - 2
      Clause(i) == K(n, i + 2)
  IN <<Child("if_cond", K(n, 1)), Reg("dst_reg", "obj")>> \o If("if_cond", L("if"))
     \o Each(elsifs, LAMBDA i : <<Child("reg", K(Clause(i), 1))>> \o If("reg", Elsif(i)))
     \o (IF hasElse THEN Statements(K(n, Len(n.kids)), "dst_reg") ELSE <<>>)
     \o <<Goto(L("end")), Put(L("if"))>> \o Statements(K(n, 2), "dst_reg") \o <<Goto(L("end"))>>
     \o Each(elsifs, LAMBDA i : <<Put(Elsif(i))>> \o Statements(K(Clause(i), 2), "dst_reg")
                                \o <<Goto(L("end"))>>)
     \o <<Put(L("end")), Return("dst_reg")>>

(* retval is uninitialised when there is no statement.                       *)
StatementsNode(n) ==
  Each(Len(n.kids), LAMBDA i : <<Child("retval", K(n, i))>>) \o <<Return("retval")>>

Conditional(n) ==
  <<Reg("dst_reg", "obj"), Child("cond_reg", K(n, 1))>> \o Unless("cond_reg", L("else"))
  \o ChildO("if_reg", K(n, 2)) \o <<Emit("set", <<"dst_reg", "if_reg">>, 0), Goto(L("end")),
       Put(L("else"))>>
  \o ChildO("else_reg", K(n, 3)) \o <<Emit("set", <<"dst_reg", "else_reg">>, 0),
       Put(L("end")), Return("dst_reg")>>
-----------------------------------------------------------------------------
(* nd_ops.c                                                                 *)

SetReg(v, w) == Emit("set", <<v, w>>, 0)

LogicalXor(n) ==
  <<Reg("dst_reg", "obj")>> \o ChildO("arg1", K(n, 1)) \o ChildO("arg2", K(n, 2))
  \o If("arg1", L("a1_true")) \o Unless("arg2", L("both_false"))
  \o <<SetReg("dst_reg", "arg2"), Goto(L("end")),
       Put(L("both_false")), SetReg("dst_reg", "arg1"), Goto(L("end")), Put(L("a1_true"))>>
  \o If("arg2", L("both_true"))
  \o <<SetReg("dst_reg", "arg1"), Goto(L("end")),
       Put(L("both_true")), Emit("null", <<"dst_reg">>, 0), Goto(L("end")),
       Put(L("end")), Return("dst_reg")>>

(* NODE_LOGICAL_OR (skip is "if") and NODE_LOGICAL_AND (skip is "unless").    *)
ShortCircuit(n, skip) ==
  <<Reg("dst_reg", "obj")>> \o ChildO("arg1", K(n, 1)) \o Branch(skip, "arg1", L("a1"))
  \o ChildO("arg2", K(n, 2))
  \o <<SetReg("dst_reg", "arg2"), Goto(L("end")), Put(L("a1")), SetReg("dst_reg", "arg1"),
       Put(L("end")), Return("dst_reg")>>

(* $i++ and $i-- return the register read, ++$i and --$i the one written.    *)
Increment(n, result) ==
  GetVariable("reg_no", K(n, 1)) \o ToI("i_tmp", "reg_no") \o <<Emit("inc_i", <<"i_tmp">>, 0)>>
  \o ToO("dst_reg", "i_tmp") \o SetVariable(K(n, 1), "dst_reg")
  \o <<Return(result)>>

BitwiseNegation(n) ==
  ChildI("reg", K(n, 1)) \o <<Emit("bnot_i", <<"reg", "reg">>, 0), Return("reg")>>
ShiftNode(n) ==
  ChildI("l", K(n, 1)) \o ChildI("r", K(n, 2))
  \o <<Emit("brshift_i", <<"r", "l", "r">>, 0), Return("r")>>
UnaryMinus(n) ==
  LET negN == ToN("reg", "reg") \o <<Emit("neg_n", <<"reg", "reg">>, 0)>>
  IN <<Child("reg", K(n, 1)),
       Switch("reg", <<Emit("neg_i", <<"reg", "reg">>, 0)>>, negN, negN, negN), Return("reg")>>
Coercion(n, type) == <<Child("reg", K(n, 1))>> \o To(type, "reg", "reg") \o <<Return("reg")>>

Concat(n) ==
  <<Reg("dst_reg", "str")>> \o ChildS("l", K(n, 1)) \o ChildS("r", K(n, 2))
  \o <<Emit("concat_s", <<"dst_reg", "l", "r">>, 0), Return("dst_reg")>>
Repeat(n) ==
  <<Reg("dst_reg", "str")>> \o ChildS("l", K(n, 1)) \o ChildI("r", K(n, 2))
  \o <<Emit("repeat_s", <<"dst_reg", "l", "r">>, 0), Return("dst_reg")>>
Not(n) ==
  ChildI("src_reg", K(n, 1))
  \o <<Reg("dst_reg", "int64"), Emit("not_i", <<"dst_reg", "src_reg">>, 0), Return("dst_reg")>>
AtPos(n) ==
  <<Child("container", K(n, 1))>> \o ChildI("idx", K(n, 2))
  \o <<Reg("dst", "obj"), Emit("atpos_o", <<"dst", "container", "idx">>, 0), Return("dst")>>
AtKey(n) ==
  <<Reg("dst", "obj")>> \o ChildO("container", K(n, 1)) \o ChildS("key", K(n, 2))
  \o <<Emit("atkey_o", <<"dst", "container", "key">>, 0), Return("dst")>>

(* kids: the left side (`my', `our' or a variable) and the value.            *)
BindNode(n) ==
  LET lhs == K(n, 1) IN
  CASE lhs.kind = "my" -> <<Child("lex_no", lhs)>> \o ChildO("val", K(n, 2))
                          \o <<BindLex("lex_no", "val"), Return("val")>>
    [] lhs.kind = "our" -> <<PackageVariable(Var(lhs.name))>> \o ChildO("val", K(n, 2))
                          \o WithPackage(<<Reg("package", "obj"), GetLex("package"),
                               Reg("varname_s", "str"), ConstName("varname_s", lhs.name),
                               Emit("bindkey_o", <<"package", "varname_s", "val">>, 0),
                               Return("val")>>)
    [] OTHER -> ChildO("val", K(n, 2)) \o SetVariable(lhs, "val") \o <<Return("val")>>
-----------------------------------------------------------------------------
(* nd_func.c                                                                *)

(* A parameter of a sub has a name and a default value, or `nop'.            *)
HasDefault(p) == K(p, 1).kind # "nop"
FuncParam(p, i) ==
  <<Reg("reg", "obj"), Lexical("lex", Var(p.name))>>
  \o (IF HasDefault(p)
      THEN <<ParamOptional("reg", i - 1, <<"jmp", i>>)>> \o ChildO("def", K(p, 1))
           \o <<SetReg("reg", "def"), Put(<<"jmp", i>>)>>
      ELSE <<EmitVal("param_rp_o", <<"reg">>, 2, i - 1)>>)
  \o <<BindLex("lex", "reg")>>

(* Kiji_compiler_count_min_arity                                             *)
MinArity(params) == Cardinality({i \in DOMAIN params : ~ HasDefault(params[i])})

NullReturn == <<Reg("reg", "obj"), Emit("null", <<"reg">>, 0), Emit("return_o", <<"reg">>, 0)>>

(* Statements of a body; the value of the last one, if any, is returned.     *)
(* Mutant: the value of the last statement is returned whatever it is.       *)
FuncBodyReturnsAny(kids) ==
  Each(Len(kids), LAMBDA i : <<Child("reg", kids[i])>>)
  \o (IF kids = <<>> THEN NullReturn ELSE ReturnAny("reg"))
FuncBody(kids) ==
  Each(Len(kids), LAMBDA i : <<Child("reg", kids[i])>>)
  \o (IF kids = <<>> THEN NullReturn ELSE <<IfUnknown("reg", NullReturn, ReturnAny("reg"))>>)

(* kids: the parameters and the body.  Frame 0 is a placeholder.             *)
Func(n) ==
  LET params == K(n, 1).kids IN
  <<Reg("funcreg", "obj"), Lexical("funclex", Amp(n.name)), GetCode("funcreg", "0"),
    BindLex("funclex", "funcreg"), PushFrame("frame_no"),
    CheckArity(MinArity(params), Len(params))>>
  \o Each(Len(params), LAMBDA i : FuncParam(params[i], i))
  \o FuncBody(K(n, 2).kids)
  \o <<PopFrame, PatchCode("frame_no"), Return("funcreg")>>

(* A method takes __self, then its parameters but the first.  (What the name *)
(* of a further one is read from depends on the parser, which is external:   *)
(* here it is its name.)                                                    *)
Method(n) ==
  LET params == K(n, 1).kids
      Bound(i) == <<EmitVal("param_rp_o", <<"reg">>, 2, i), BindLex("lex", "reg")>>
      Take(i, name) == <<Reg("reg", "obj"), Lexical("lex", name)>> \o Bound(i)
  IN <<Reg("funcreg", "obj"), Lexical("funclex", Amp(n.name)), GetCode("funcreg", "0"),
       BindLex("funclex", "funcreg"), PushFrame("frame_no"),
       CheckArity(Len(params) + 1, Len(params) + 1)>>
     \o <<Lexical("lex", Bare("__self")), Reg("reg", "obj")>> \o Bound(0)
     \o Each(Len(params) - 1, LAMBDA i : Take(i, Var(params[i + 1].name)))
     \o FuncBody(K(n, 2).kids)
     \o <<PopFrame, PatchCode("frame_no"), BindMethod(n.name, "frame_no"), Return("funcreg")>>

(* Kiji_compiler_compile_class: kids are the statements of the body; an       *)
(* anonymous class has no name.                                             *)
Class(n) ==
  <<OpenClass>> \o Each(Len(n.kids), LAMBDA i : <<Child("void", K(n, i))>>)
  \o <<CloseClass, Reg("retval", "obj"), Wval("retval", "wval1")>>
  \o (IF n.name = "" THEN <<>>
      ELSE <<Lexical("lex", Bare(n.name)), BindLex("lex", "retval")>>)
  \o <<Return("retval")>>

(* kids: what is called (a `name', or an expression), then the arguments,    *)
(* all compiled before the first is passed.                                 *)
ArgReg(i) == <<"arg1", "arg2", "arg3", "arg4">>[i]
ArgRegs(n) == [i \in 1..(Len(n.kids) - 1) |-> ArgReg(i)]
Callee(n) ==
  IF K(n, 1).kind = "name"
  THEN <<Reg("func", "obj"), FindLexical(Amp(K(n, 1).name), <<GetLex("func")>>, <<Die("panic")>>)>>
  ELSE ChildO("func", K(n, 1))
(* Mutant: each argument is passed as soon as it is compiled.               *)
FunCallPassesEarly(n) ==
  Callee(n)
  \o Each(Len(n.kids) - 1, LAMBDA i :
       ChildO(ArgReg(i), K(n, i + 1)) \o <<ArgO(i - 1, ArgReg(i))>>)
  \o <<PrepArgs(ArgRegs(n)), Reg("dest_reg", "obj"),
       Emit("invoke_o", <<"dest_reg", "func">>, 0), Return("dest_reg")>>
FunCall(n) ==
  LET args == Len(n.kids) - 1
      Pass(i) == LET Arg(op) == <<EmitVal(op, <<ArgReg(i)>>, 2, i - 1)>>
                 IN <<Switch(ArgReg(i), Arg("arg_i"), Arg("arg_n"), Arg("arg_s"), Arg("arg_o"))>>
  IN Callee(n)
     \o Each(args, LAMBDA i :
          <<Child(ArgReg(i), K(n, i + 1)), IfUnknown(ArgReg(i), <<Die("panic")>>, <<>>),
            Switch(ArgReg(i), <<>>, <<>>, <<>>, <<>>)>>)
     \o <<PrepArgs(ArgRegs(n))>> \o Each(args, Pass)
     \o <<Reg("dest_reg", "obj"), Emit("invoke_o", <<"dest_reg", "func">>, 0),
          Return("dest_reg")>>

(* kids: the invocant, then the arguments, each passed as soon as compiled.  *)
MethodCall(n) ==
  LET args == Len(n.kids) - 1 IN
  ChildO("obj", K(n, 1))
  \o <<Reg("meth", "obj"), Reg("ret", "obj"), FindMeth("meth", "obj", n.name), ArgO(0, "obj")>>
  \o Each(args, LAMBDA i : ChildO(ArgReg(i), K(n, i + 1)) \o <<ArgO(i, ArgReg(i))>>)
  \o <<PrepArgs(<<"obj">> \o ArgRegs(n)), Emit("invoke_o", <<"ret", "meth">>, 0), Return("ret")>>

(* .method is a call on $_.                                                  *)
ItMethodCall(n) ==
  <<Child("call", [n EXCEPT !.kind = "method",
                            !.kids = <<[n EXCEPT !.kind = "var", !.name = "_", !.kids = <<>>]>> \o @]),
    Return("call")>>

(* The functions compiled in place.                                         *)
Say(n, last) ==
  Each(Len(n.kids), LAMBDA i :
    ChildS("s", K(n, i)) \o <<Emit(IF i = Len(n.kids) THEN last ELSE "print", <<"s">>, 0)>>)
  \o Const1("one") \o <<Return("one")>>
OpenFile(n) ==
  <<Child("fname_s", K(n, 1)), Reg("dst_reg_o", "obj"), Reg("mode_s", "str"),
    Emit("const_s", <<"mode_s">>, 2), Emit("open_fh", <<"dst_reg_o", "fname_s", "mode_s">>, 0),
    Return("dst_reg_o")>>
Slurp(n) ==
  <<Child("fname_s", K(n, 1)), Reg("dst_reg_s", "str"), Reg("encoding_s", "str"),
    Emit("const_s", <<"encoding_s">>, 2),
    Emit("slurp", <<"dst_reg_s", "fname_s", "encoding_s">>, 0), Return("dst_reg_s")>>
Abs(n) == ChildI("r", K(n, 1)) \o <<Emit("abs_i", <<"r", "r">>, 0), Return("r")>>
(* There is no return statement: the caller gets what is in its place.       *)
Push(n) ==
  ChildO("target", K(n, 1))
  \o Each(Len(n.kids) - 1, LAMBDA i :
       ChildO("elem", K(n, i + 1)) \o <<Emit("push_o", <<"target", "elem">>, 0)>>)
  \o <<Return("undefined")>>
-----------------------------------------------------------------------------
(* Kiji_compiler_compile: bind $?PACKAGE, compile the program, return null.  *)
Compile(n) ==
  <<CheckArity(0, 65535), Lexical("lex", Package), Reg("package", "obj"),
    Reg("hash_type", "obj"), Emit("hllhash", <<"hash_type">>, 0),
    Emit("create", <<"package", "hash_type">>, 0), BindLex("lex", "package"), Child("void", n)>>
  \o NullReturn \o <<Finalize, Return("UNKNOWN_REG")>>

(* The dispatch of Kiji_compiler_do_compile on the node's type.              *)
NodeHandler(n) ==
  CASE n.kind = "int"   -> Literal(n, "int64", "const_i64", 8)
    [] n.kind = "num"   -> Literal(n, "num64", "const_n64", 8)
    [] n.kind = "str"   -> Literal(n, "str", "const_s", 2)
    [] n.kind = "var"   -> Variable(n)
    [] n.kind = "ident" -> Ident(n)
    [] n.kind = "my"    -> <<Lexical("idx", Var(n.name)), Return("idx")>>
    [] n.kind = "our"   -> <<PackageVariable(Var(n.name))>> \o Void
    [] n.kind \in {"nop", "module"} -> Void
    [] n.kind \in {"next", "last", "redo"} -> LoopControl(n.kind)
    [] n.kind = "clargs" -> TwArgs
    [] n.kind \in {"list", "array"} -> List(n)
    [] n.kind = "pair"  -> Pair(n)
    [] n.kind = "hash"  -> Hash(n)
    [] n.kind = "return" -> ReturnNode(n)
    [] n.kind = "die"   -> DieNode(n)
    [] n.kind = "while" -> While(n)
    [] n.kind = "for"   -> For(n)
    [] n.kind = "if"    -> IfNode(n)
    [] n.kind = "unless" -> UnlessNode(n)
    [] n.kind = "cond"  -> Conditional(n)
    [] n.kind = "statements" -> StatementsNode(n)
    [] n.kind = "lambda" -> Lambda(n)
    [] n.kind = "block" -> Block(n)
    [] n.kind = "func"  -> Func(n)
    [] n.kind = "call"  -> FunCall(n)
    [] n.kind = "methoddef" -> Method(n)
    [] n.kind = "class" -> Class(n)
    [] n.kind = "method" -> MethodCall(n)
    [] n.kind = "itmethod" -> ItMethodCall(n)
    [] n.kind \in {"say", "print"} -> Say(n, n.kind)
    [] n.kind = "open"  -> OpenFile(n)
    [] n.kind = "slurp" -> Slurp(n)
    [] n.kind = "abs"   -> Abs(n)
    [] n.kind = "push"  -> Push(n)
    [] n.kind = "bind"  -> BindNode(n)
    [] n.kind = "chain" -> IF Len(n.kids) = 1
                           THEN <<Child("reg", K(n, 1)), Return("reg")>>
                           ELSE Chain(n)
    [] n.kind = "add"   -> NumericBinop(n)
    [] n.kind = "band"  -> BinaryBinop(n)
    [] n.kind = "+="    -> Inplace(n, "num64", "add_n", "num64")
    [] n.kind = "+&="   -> Inplace(n, "int64", "band_i", "int64")
    [] n.kind = "~="    -> Inplace(n, "str", "concat_s", "str")
    [] n.kind = "x="    -> Inplace(n, "str", "repeat_s", "int64")
    [] n.kind = "post++" -> Increment(n, "reg_no")
    [] n.kind = "++pre" -> Increment(n, "dst_reg")
    [] n.kind = "+^"    -> BitwiseNegation(n)
    [] n.kind = "+>"    -> ShiftNode(n)
    [] n.kind = "-"     -> UnaryMinus(n)
    [] n.kind = "+"     -> Coercion(n, "num64")
    [] n.kind = "~"     -> Coercion(n, "str")
    [] n.kind = "concat" -> Concat(n)
    [] n.kind = "x"     -> Repeat(n)
    [] n.kind = "not"   -> Not(n)
    [] n.kind = "atpos" -> AtPos(n)
    [] n.kind = "atkey" -> AtKey(n)
    [] n.kind = "^^"    -> LogicalXor(n)
    [] n.kind = "||"    -> ShortCircuit(n, "if")
    [] n.kind = "&&"    -> ShortCircuit(n, "unless")
=============================================================================
