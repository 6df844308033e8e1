----------------------------- MODULE MCCodegen -----------------------------
(* Codegen with the handlers of kiji, on sets of small programs.            *)
EXTENDS Codegen
H == INSTANCE Handlers

HandlerScript(n) == H!NodeHandler(n)
CompileScript(n) == H!Compile(n)

(* What is left in an uninitialised local or return value: UNKNOWN_REG, a    *)
(* small register, or a large number.                                       *)
StaleValues == {-1, 1, 1000}
-----------------------------------------------------------------------------
N(kind, kids) == [kind |-> kind, kids |-> kids, name |-> "x", val |-> 0]
Leaf(kind)    == N(kind, <<>>)
Stmts(kids)   == N("statements", kids)
Named(kind, name, kids) == [N(kind, kids) EXCEPT !.name = name]

int == Leaf("int")
num == Leaf("num")
str == Leaf("str")
var == Leaf("var")
list == N("list", <<int, str>>)
name == Named("name", "f", <<>>)
ourvar == Named("var", "p", <<>>)
Param(default) == Named("param", "y", <<default>>)
NoParams  == N("params", <<>>)
OneParam  == N("params", <<Param(Leaf("nop"))>>)
OptParams == N("params", <<Param(Leaf("nop")), Param(int), Param(str)>>) \* two are optional
Sub(params, kids) == Named("func", "f", <<params, Stmts(kids)>>)
Closure(params, b) == N("lambda", <<params, b>>)
Say1(e)   == N("say", <<e>>)
Call1(f, e) == N("call", <<f, e>>)

(* The variables, and the sub, a program uses are declared before it.        *)
WithX(p)  == Stmts(<<Leaf("my"), p>>)
WithAll(p) == Stmts(<<Leaf("my"), Named("our", "p", <<>>), Sub(NoParams, <<>>), p>>)
-----------------------------------------------------------------------------
(* Loops, blocks and conditions around `next', `last' and a plain call.      *)

Around(b) ==
  {N("while", <<var, b>>), N("for", <<list, b>>),
   N("for", <<list, Closure(OneParam, b)>>), N("block", <<b>>),
   N("if", <<var, b>>), N("unless", <<var, b>>)}

Throws == {Leaf("next"), Leaf("last"), Say1(int)}
Wrapped(S) == UNION {Around(Stmts(<<b>>)) : b \in S}
Nested == Wrapped(Throws)
Pairs  == {<<a, b>> : a \in Nested, b \in Throws} \cup {<<a, b>> : a \in Throws, b \in Nested}

(* Two in a row, but for a loop right after a block: see MCSession.          *)
Neighbours == {q \in Nested \X Nested : q[1].kind # "block" \/ q[2].kind \notin {"while", "for"}}

VoidArgument == N("call", <<name, N("while", <<var, Stmts(<<int>>)>>)>>)

LoopPrograms ==
  {WithX(p) : p \in {Stmts(q) : q \in Pairs} \cup UNION {Around(Stmts(q)) : q \in Pairs}
                    \cup {N("while", <<var, Stmts(q)>>) : q \in Neighbours} \cup Wrapped(Nested)}
  \cup {WithAll(VoidArgument)}

RedoPrograms == {WithX(N("while", <<var, Stmts(<<Leaf("redo")>>)>>))}
-----------------------------------------------------------------------------
(* Expressions.  Int gives operands a coercion to int64 accepts, Any any.    *)

Int0 == {int, str, var, list}
Any0 == Int0 \cup {num}

(* Operators that compile an operand with to_i.                             *)
OfInts(S, T) ==
  {N(k, <<a>>) : k \in {"+^", "not", "abs"}, a \in S}
  \cup {N(k, <<a, b>>) : k \in {"band", "+>", "x"}, a \in S, b \in T}
  \cup {N("add", <<a, b>>) : a \in S, b \in T}
  \cup {N("atpos", <<list, a>>) : a \in S}
  \cup {N("+&=", <<var, a>>) : a \in S} \cup {N("x=", <<var, a>>) : a \in S}
  \cup {N("chain", <<a, N("eq", <<b>>)>>) : a \in S \ {str}, b \in T}
  \cup {N("chain", <<a, N("streq", <<b>>), N("streq", <<b>>)>>) : a \in S, b \in T}

(* The others.                                                              *)
OfAny(S, T) ==
  {N(k, <<a>>) : k \in {"-", "+", "~", "list", "array", "chain"}, a \in S}
  \cup {N(k, <<a, b>>) : k \in {"concat", "^^", "||", "&&", "atkey"}, a \in S, b \in T}
  \cup {N("add", <<a, b>>) : a \in {num, str, var}, b \in T}
  \cup {N("cond", <<a, b, a>>) : a \in S, b \in T}
  \cup {N(k, <<var, a>>) : k \in {"+=", "~="}, a \in S}
  \cup {N("hash", <<N("pair", <<a, b>>)>>) : a \in S, b \in T}
  \cup {N("pair", <<a, b>>) : a \in S, b \in {int}}
  \cup {N("bind", <<v, a>>) : v \in {var, ourvar, Leaf("my"), Leaf("our")}, a \in S}
  \cup {N("call", <<f, a, b>>) : f \in {name, var}, a \in S, b \in T}
  \cup {N("if", <<a, b, N("elsif", <<b, a>>), N("else", <<a, b>>)>>) : a \in S, b \in T}

Int1 == OfInts(Int0, Int0)
Any1 == OfAny(Any0, Any0)
Calls1 == {N("method", <<var>>), N("method", <<var, int, num>>), N("call", <<name>>),
           N("open", <<str>>), N("slurp", <<str>>), N("post++", <<var>>), N("++pre", <<var>>),
           Named("ident", "f", <<>>), ourvar, Leaf("clargs")}

Expr1 == Int1 \cup Any1 \cup Calls1
Inner == OfInts({int, var}, {str}) \cup OfAny({num, list}, {var}) \cup Calls1
Expr2 == OfAny(Inner, {int}) \cup OfAny({num}, Inner)

(* Expressions as a statement, a returned value, and the value of a body.    *)
Bodies(e) ==
  {Say1(e), N("die", <<e>>), N("push", <<var, e>>), Sub(OptParams, <<int, e>>),
   Sub(NoParams, <<N("return", <<e>>)>>), Call1(Closure(OneParam, e), e),
   Sub(N("params", <<Param(e)>>), <<Leaf("my"), N("block", <<e>>)>>), Sub(NoParams, <<>>),
   N("print", <<e, e>>), Stmts(<<Leaf("our"), Leaf("nop"), Leaf("module")>>)}

ExprPrograms == {WithAll(p) : p \in UNION {Bodies(e) : e \in Any0 \cup Calls1}
                                     \cup Expr1 \cup Expr2}

(* Programs of many statements, for a small Word: the jumps of the last one  *)
(* are beyond it, or the registers run out in the middle.                    *)

Long(k, p) ==
  LET filler == [i \in 1..k |-> int]
      rest   == <<p, Say1(str)>>
  IN {WithAll(Stmts(filler \o rest)), WithAll(Sub(OptParams, filler \o rest)),
      WithAll(Call1(Closure(OneParam, Stmts(filler \o rest)), var))}

Jumping ==
  {N("while", <<var, Stmts(<<num>>)>>), N("unless", <<var, str>>), N("cond", <<var, num, str>>),
   N("if", <<var, str, N("elsif", <<num, var>>), N("else", <<str>>)>>),
   N("||", <<var, str>>), N("^^", <<num, var>>), N("chain", <<var, N("streq", <<str>>)>>)}

LongPrograms == UNION {Long(k, p) : k \in {0, 2, 5} \cup 110..126, p \in Jumping}
AllPrograms  == ExprPrograms \cup LongPrograms
LongFor == {Stmts([i \in 1..6 |-> int] \o <<N("for", <<list, Say1(int)>>)>>)}
=============================================================================
