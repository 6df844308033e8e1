-------------------------------- MODULE Exec --------------------------------
(***************************************************************************)
(* A kiji process: it compiles a program (module Codegen), then MoarVM runs  *)
(* what was generated (main of src/src/kiji.c).  The interpreter executes    *)
(* one instruction per action; the methods of builtin types and of classes   *)
(* that kiji writes in C are the actions CallArray to CallNew.               *)
(***************************************************************************)
EXTENDS Codegen, Values, FiniteSets

VARIABLES
  stack,    \* the calls in progress, innermost last
  heap,     \* lists, hashes and iterators
  composed, \* the classes whose method cache object_compose has replaced
  out,      \* what the program has written
  result    \* "none" before the run, "running", "ok" or "died"

xvars == <<stack, heap, composed, out, result>>
allvars == <<vars, xvars>>
-----------------------------------------------------------------------------
Cur  == stack[Len(stack)]
Code == frame[Cur.f].code
In   == Code[Cur.pc]
R(i) == Cur.work[In.args[i] + 1]

Runs(ops)  == result = "running" /\ In.op \in ops
Update(c)  == stack' = [stack EXCEPT ![Len(stack)] = c]
Onward     == [Cur EXCEPT !.pc = @ + 1]
Write(c, reg, x) == [c EXCEPT !.work[reg + 1] = x]
Put1(x)    == Update(Write(Onward, In.args[1], x))
JumpTo(c, offset) ==
  [c EXCEPT !.pc = CHOOSE i \in DOMAIN frame[c.f].code : frame[c.f].code[i].at = offset]

(* An exception no handler takes ends the process.                          *)
Dies == result' = "died" /\ UNCHANGED <<stack, heap, composed, out>>

Zero(type) == CASE type = "int64" -> IntVal(0) [] type = "num64" -> NumVal(0) [] OTHER -> Null

(* A new call of frame f.  Code that was not taken as a closure finds its    *)
(* outer frame among the callers: the innermost call of its static outer.    *)
Calls(f) == {d \in DOMAIN stack : stack[d].f = frame[f].outer}
Invocation(f, params, dst) ==
  [f |-> f, pc |-> 1, dst |-> dst, params |-> params,
   outer |-> IF Calls(f) = {} THEN 0 ELSE SetMax(Calls(f)),
   work |-> [i \in DOMAIN frame[f].locals |-> Zero(frame[f].locals[i])],
   lex  |-> [i \in DOMAIN frame[f].lexicals |-> Null],
   callsite |-> <<>>, args |-> [i \in 1..cu.max_callsite_size |-> Null]]

ExecInit == /\ Init /\ stack = <<>> /\ heap = <<>> /\ composed = {}
            /\ out = <<>> /\ result = "none"

(* MVM_interp_run on the first frame.                                       *)
Start ==
  /\ status = "done" /\ result = "none"
  /\ stack' = <<Invocation(1, <<>>, -1)>> /\ result' = "running"
  /\ UNCHANGED <<heap, composed, out>>

(* A program that does not compile never runs.                              *)
Refuse ==
  /\ status \notin {"compiling", "done"} /\ result = "none"
  /\ result' = "died"
  /\ UNCHANGED <<stack, heap, composed, out>>
-----------------------------------------------------------------------------
(* Instructions that compute one register from others.                      *)
Computed ==
  CASE In.op = "const_i64" -> IntVal(In.target)
    [] In.op = "const_n64" -> NumVal(In.target)
    [] In.op = "const_s"   -> StrVal(IF In.str = "" THEN <<In.target>> ELSE <<In.str>>)
    [] In.op = "null"      -> Null
    [] In.op = "wval"      -> Value(IF In.target = 0 THEN "clargs" ELSE "type", In.target)
    [] In.op = "getcode"   -> Value("code", In.target)
    [] In.op \in {"hlllist", "hllhash", "hllboxtype_i", "hllboxtype_n", "hllboxtype_s"} ->
         Value("boottype", In.op)
    [] In.op \in {"set", "box_i", "box_n", "box_s"} -> R(2)
    [] In.op \in {"coerce_is", "coerce_ns", "smrt_strify"} -> StrVal(Text(R(2)))
    [] In.op \in {"coerce_ni", "coerce_si"} -> IntVal(Number(R(2)))
    [] In.op \in {"coerce_in", "coerce_sn", "smrt_numify"} -> NumVal(Number(R(2)))
    [] In.op = "inc_i"     -> IntVal(R(1).v + 1)
    [] In.op \in {"neg_i", "neg_n"} -> Value(R(2).k, -R(2).v)
    [] In.op = "not_i"     -> Bool(R(2).v = 0)
    [] In.op = "add_i"     -> IntVal(R(2).v + R(3).v)
    [] In.op = "add_n"     -> NumVal(R(2).v + R(3).v)
    [] In.op \in {"eq_i", "eq_n", "eq_s"} -> Bool(R(2).v = R(3).v)
    [] In.op \in {"lt_i", "lt_n"} -> Bool(R(2).v < R(3).v)
    [] In.op = "concat_s"  -> StrVal(R(2).v \o R(3).v)

Compute ==
  /\ Runs({"const_i64", "const_n64", "const_s", "null", "wval", "getcode", "hlllist", "hllhash",
           "hllboxtype_i", "hllboxtype_n", "hllboxtype_s", "set", "box_i", "box_n", "box_s",
           "coerce_is", "coerce_ns", "smrt_strify", "coerce_ni", "coerce_si", "coerce_in",
           "coerce_sn", "smrt_numify", "inc_i", "neg_i", "neg_n", "not_i", "add_i", "add_n",
           "eq_i", "eq_n", "eq_s", "lt_i", "lt_n", "concat_s"})
  /\ Put1(Computed)
  /\ UNCHANGED <<heap, composed, out, result>>

(* An iterator is true while it has elements left.                          *)
Holds(x) == IF x.k = "iter" THEN heap[x.v].pos < Len(heap[heap[x.v].of]) ELSE True(x)

Jump ==
  /\ Runs({"goto", "if", "unless"})
  /\ LET taken == In.op = "goto" \/ Holds(R(1)) = (In.op = "if")
     IN Update(IF taken THEN JumpTo(Cur, In.target) ELSE Onward)
  /\ UNCHANGED <<heap, composed, out, result>>

(* The call that holds a lexical: `extra' steps along the outer frames.       *)
Holder ==
  LET climb[i \in 0..In.extra] == IF i = 0 THEN Len(stack) ELSE stack[climb[i - 1]].outer
  IN climb[In.extra]

GetLexical ==
  /\ Runs({"getlex"})
  /\ Put1(stack[Holder].lex[In.target + 1])
  /\ UNCHANGED <<heap, composed, out, result>>

BindLexical ==
  /\ Runs({"bindlex"})
  /\ stack' = [[stack EXCEPT ![Len(stack)] = Onward] EXCEPT ![Holder].lex[In.target + 1] = R(1)]
  /\ UNCHANGED <<heap, composed, out, result>>
-----------------------------------------------------------------------------
(* Lists, hashes and iterators.                                             *)

Create ==
  /\ Runs({"create", "iter"})
  /\ LET new == Len(heap) + 1 IN
     CASE In.op = "iter" -> /\ heap' = Append(heap, [of |-> R(2).v, pos |-> 0])
                            /\ Put1(Value("iter", new))
       [] R(2).v = "hlllist" -> heap' = Append(heap, <<>>) /\ Put1(Value("list", new))
       [] R(2).v = "hllhash" -> heap' = Append(heap, <<>>) /\ Put1(Value("hash", new))
  /\ UNCHANGED <<composed, out, result>>

Keep ==
  /\ Runs({"push_o", "bindkey_o"})
  /\ heap' = IF In.op = "push_o" THEN [heap EXCEPT ![R(1).v] = Append(@, R(2))]
             ELSE [heap EXCEPT ![R(1).v] = Assign(@, R(2).v, R(3))]
  /\ Update(Onward)
  /\ UNCHANGED <<composed, out, result>>

Fetch ==
  /\ Runs({"atpos_o", "atkey_o"})
  /\ LET entries == heap[R(2).v]
         at == IF In.op = "atpos_o" THEN R(3).v + 1 ELSE R(3).v
     IN Put1(IF at \in DOMAIN entries THEN entries[at] ELSE Null)
  /\ UNCHANGED <<heap, composed, out, result>>

(* Shifting an exhausted iterator is an exception.                          *)
Shift ==
  /\ Runs({"shift_o"})
  /\ LET it == heap[R(2).v] IN
     IF Holds(R(2)) THEN /\ Put1(heap[it.of][it.pos + 1])
                         /\ heap' = [heap EXCEPT ![R(2).v].pos = @ + 1]
                         /\ UNCHANGED <<composed, out, result>>
     ELSE Dies
-----------------------------------------------------------------------------
(* Output and errors.                                                       *)

Output ==
  /\ Runs({"say", "print"})
  /\ out' = Append(out, R(1).v)
  /\ Update(Onward)
  /\ UNCHANGED <<heap, composed, result>>

DieNow == Runs({"die"}) /\ Dies
-----------------------------------------------------------------------------
(* Calls.  prepargs names the callsite, and each argument is written to the  *)
(* buffer of the frame that calls.                                          *)

PrepareCall ==
  /\ Runs({"prepargs"})
  /\ Update([Onward EXCEPT !.callsite = cu.callsites[In.target + 1]])
  /\ UNCHANGED <<heap, composed, out, result>>

PassArgument ==
  /\ Runs({"arg_i", "arg_n", "arg_s", "arg_o"})
  /\ Update([Onward EXCEPT !.args[In.target + 1] = R(1)])
  /\ UNCHANGED <<heap, composed, out, result>>

Arguments == SubSeq(Cur.args, 1, Len(Cur.callsite))
Callee    == IF In.op = "invoke_v" THEN R(1) ELSE R(2)
Dst       == IF In.op = "invoke_v" THEN -1 ELSE In.args[1]
Invokes(kinds) == Runs({"invoke_o", "invoke_v"}) /\ Callee.k \in kinds

Invoke ==
  /\ Invokes({"code"})
  /\ stack' = Append([stack EXCEPT ![Len(stack)] = Onward],
                     Invocation(Callee.v, Arguments, Dst))
  /\ UNCHANGED <<heap, composed, out, result>>

InvokeOther == Runs({"invoke_o", "invoke_v"}) /\ Callee.k \notin {"code", "cfunction"} /\ Dies

(* The result is written to the register the caller invoked with.           *)
Deliver(c, reg, x) == IF reg = -1 THEN c ELSE Write(c, reg, x)

ReturnFrom ==
  /\ Runs({"return", "return_i", "return_n", "return_s", "return_o"})
  /\ LET rest == SubSeq(stack, 1, Len(stack) - 1)
         x    == IF In.op = "return" THEN Null ELSE R(1)
     IN IF rest = <<>> THEN stack' = <<>> /\ result' = "ok"
        ELSE /\ stack' = [rest EXCEPT ![Len(rest)] = Deliver(@, Cur.dst, x)]
             /\ UNCHANGED result
  /\ UNCHANGED <<heap, composed, out>>

CheckArity ==
  /\ Runs({"checkarity"})
  /\ IF In.target <= Len(Cur.params) /\ Len(Cur.params) <= In.extra
     THEN Update(Onward) /\ UNCHANGED <<heap, composed, out, result>>
     ELSE Dies

(* An optional parameter that was passed skips the code of its default.      *)
TakeParameter ==
  /\ Runs({"param_rp_o", "param_op_o"})
  /\ LET index == IF In.op = "param_rp_o" THEN In.target ELSE In.extra
         passed == index < Len(Cur.params)
         taken  == Write(Cur, In.args[1], Cur.params[index + 1])
     IN CASE ~ passed /\ In.op = "param_rp_o" -> Dies
          [] ~ passed /\ In.op = "param_op_o" -> Update(Onward) /\ UNCHANGED <<heap, composed, out, result>>
          [] passed -> /\ Update(IF In.op = "param_op_o" THEN JumpTo(taken, In.target)
                                 ELSE [taken EXCEPT !.pc = @ + 1])
                       /\ UNCHANGED <<heap, composed, out, result>>

(* throwcatlex: the first handler that applies, in the frame that throws or   *)
(* in the frames around it.                                                 *)
ThrowTo ==
  /\ Runs({"next", "last", "redo"})
  /\ LET Pc(d) == IF d = Len(stack) THEN In.at + 2 ELSE frame[stack[d].f].code[stack[d].pc].at
         Takers(d) == Taking(stack[d].f, Pc(d), In.op)
         search[d \in 0..Len(stack)] ==
           IF d = 0 \/ Takers(d) # {} THEN d ELSE search[stack[d].outer]
         d == search[Len(stack)]
     IN IF d = 0 THEN Dies
        ELSE LET h == frame[stack[d].f].handlers[SetMin(Takers(d))] IN
             /\ stack' = [i \in 1..d |-> IF i = d THEN JumpTo(stack[d], h.goto_offset)
                                                  ELSE stack[i]]
             /\ UNCHANGED <<heap, composed, out, result>>
-----------------------------------------------------------------------------
(* Methods.                                                                 *)

ArrayMethods == {"shift", "pop", "push", "unshift", "elems", "join", "say"}

(* The methods of a class: until it is composed, `new' of its own cache, then *)
(* those of its HOW; from then on those of its HOW only.                     *)
ClassMethod(sc, name) ==
  LET methods == cu.scs[sc].methods IN
  CASE name = "new" /\ sc \notin composed -> Value("cfunction", "new")
    [] ~ (name = "new" /\ sc \notin composed) /\ name \in DOMAIN methods ->
         Value("code", methods[name])
    [] OTHER -> Null

Method(obj, name) ==
  CASE obj.k = "type" -> ClassMethod(obj.v + 1, name)
    [] obj.k = "list" /\ name \in ArrayMethods -> Value("cfunction", name)
    [] obj.k = "hash" /\ name = "elems" -> Value("cfunction", name)
    [] obj.k \in {"int", "str"} /\ name = "say" -> Value("cfunction", name)
    [] OTHER -> Null

FindMethod ==
  /\ Runs({"findmeth"})
  /\ IF Method(R(2), In.str).k = "null" THEN Dies
     ELSE Put1(Method(R(2), In.str)) /\ UNCHANGED <<heap, composed, out, result>>

CallsC(names) == Invokes({"cfunction"}) /\ Callee.v \in names
Self == Arguments[1]

(* Array_elems, Array_shift .. Array_push.                                  *)
CallArray ==
  /\ CallsC({"shift", "pop", "push", "unshift", "elems"}) /\ Self.k = "list"
  /\ LET items == heap[Self.v]
         n     == Len(items)
         Gives(list, x) == /\ heap' = [heap EXCEPT ![Self.v] = list]
                           /\ Update(Deliver(Onward, Dst, x))
                           /\ UNCHANGED <<composed, out, result>>
     IN CASE Callee.v = "elems" -> Gives(items, IntVal(n))
          [] Callee.v = "push"  -> Gives(Append(items, Arguments[2]), Self)
          [] Callee.v = "unshift" -> Gives(<<Arguments[2]>> \o items, Self)
          [] Callee.v \in {"shift", "pop"} /\ n = 0 -> Dies
          [] Callee.v = "shift" /\ n > 0 -> Gives(Tail(items), items[1])
          [] Callee.v = "pop"   /\ n > 0 -> Gives(SubSeq(items, 1, n - 1), items[n])

(* Array_join: the texts of the elements, each but the first preceded by the  *)
(* joiner, which is empty when none is given.  Module Join has its strands.   *)
Joined(items, joiner) ==
  LET upto[i \in 0..Len(items)] ==
        IF i = 0 THEN <<>>
        ELSE IF Undefined(items[i]) THEN upto[i - 1]
        ELSE upto[i - 1] \o (IF i > 1 THEN joiner ELSE <<>>) \o Text(items[i])
  IN upto[Len(items)]

CallJoin ==
  /\ CallsC({"join"})
  /\ LET joiner == IF Len(Arguments) < 2 THEN <<>> ELSE Text(Arguments[2]) IN
     Update(Deliver(Onward, Dst, StrVal(Joined(heap[Self.v], joiner))))
  /\ UNCHANGED <<heap, composed, out, result>>

(* Hash_elems                                                               *)
CallHash ==
  /\ CallsC({"elems"}) /\ Self.k = "hash"
  /\ Update(Deliver(Onward, Dst, IntVal(Cardinality(DOMAIN heap[Self.v]))))
  /\ UNCHANGED <<heap, composed, out, result>>

Says(text) == out' = Append(out, text) /\ UNCHANGED <<heap, composed, result>>

CallSay ==
  /\ CallsC({"say"}) /\ Self.k = "list"
  /\ LET text == Joined(heap[Self.v], <<>>)
     IN Says(text) /\ Update(Deliver(Onward, Dst, StrVal(text)))

(* Int_say and Str_say set no result: the register keeps what it held.        *)
CallIntSay == CallsC({"say"}) /\ Self.k = "int" /\ Says(<<Self.v>>) /\ Update(Onward)
CallStrSay == CallsC({"say"}) /\ Self.k = "str" /\ Says(Self.v) /\ Update(Onward)

(* Mu_new: object_compose replaces the method cache and returns the type.     *)
CallNew ==
  /\ CallsC({"new"})
  /\ composed' = composed \cup {Self.v + 1}
  /\ Update(Deliver(Onward, Dst, Self))
  /\ UNCHANGED <<heap, out, result>>
-----------------------------------------------------------------------------
Ended == result \in {"ok", "died"} /\ UNCHANGED allvars

Execute ==
  \/ Start \/ Refuse
  \/ Compute \/ Jump \/ GetLexical \/ BindLexical
  \/ Create \/ Keep \/ Fetch \/ Shift
  \/ Output \/ DieNow
  \/ PrepareCall \/ PassArgument \/ Invoke \/ InvokeOther \/ ReturnFrom
  \/ CheckArity \/ TakeParameter \/ ThrowTo
  \/ FindMethod \/ CallArray \/ CallHash \/ CallJoin
  \/ CallSay \/ CallIntSay \/ CallStrSay \/ CallNew

ExecNext ==
  \/ Step /\ UNCHANGED <<program, xvars>>
  \/ Execute /\ UNCHANGED vars
  \/ Ended

(* A single thread that nothing preempts for good goes on.                   *)
ExecSpec == ExecInit /\ [][ExecNext]_allvars /\ WF_allvars(ExecNext)
-----------------------------------------------------------------------------
(* The buffer MoarVM allocates for the arguments of a frame's calls, as long  *)
(* as the longest callsite, has room for every argument that is written.      *)
ArgumentsFit == result = "running" /\ IsArgument(In.op) => In.target < Len(Cur.args)
=============================================================================
