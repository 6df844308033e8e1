------------------------------- MODULE Typing -------------------------------
(***************************************************************************)
(* The discipline the node handlers keep, which the invariants of module    *)
(* Codegen rest on: what a handler may rely on at each of its operations,    *)
(* what the operation needs, and what holds after it.                       *)
(*                                                                         *)
(* A context c says, of one activation: whether it is the program's own or   *)
(* that of a node (of), how many frames it has pushed (depth), whether the    *)
(* frame on top has no code yet, some, or code that ends with a return        *)
(* nothing jumps past (code), what its C locals hold (kinds), what became of  *)
(* its labels (labels), and what its caller may be given (ret).              *)
(***************************************************************************)
EXTENDS Codegen

CONSTANTS
  Typings,   \* for a node, pairs of what its handler has left to do and its context then
  Results(_) \* the kinds of value the handler of a node may return

(* A register of the frame `level' frames above the caller's has a type; so   *)
(* has the offset of a frame number to patch, the start of a loop and the     *)
(* offset of a LOOP_ macro: where the code ends now ("here"), where it ended  *)
(* or an instruction starts ("reached"), and where one starts ("passed").    *)
Kind(is, type, level) == [is |-> is, type |-> type, level |-> level]
Unknown     == Kind("unknown", "none", 0)
Integer     == Kind("integer", "none", 0)
FrameNumber == Kind("frame", "none", 0)
Register(type, level) == Kind("register", type, level)
CodeOperand(level)    == Kind("operand", "none", level)
LoopStart(level)      == Kind("start", "none", level)
Mark(is, level)       == Kind(is, "none", level)

Start(ret) ==
  [of |-> "node", depth |-> 0, code |-> "some",
   kinds |-> [UNKNOWN_REG |-> Unknown, zero |-> Integer], labels |-> <<>>, ret |-> ret]
MainStart == [Start({}) EXCEPT !.of = "program", !.code = "none"]

Known(c, v)      == v \in DOMAIN c.kinds
KindOf(c, v)     == IF Known(c, v) THEN c.kinds[v] ELSE Integer
IsRegisterOf(c, v) == Known(c, v) /\ c.kinds[v] = Register(c.kinds[v].type, c.depth)
Holds(c, v, type)  == Known(c, v) /\ c.kinds[v] = Register(type, c.depth)
AreRegisters(c, args) == args \in Seq(DOMAIN c.kinds) /\ \A i \in DOMAIN args : IsRegisterOf(c, args[i])
TypesOf(c, args) == [i \in DOMAIN args |-> c.kinds[args[i]].type]

InLoop(c) == Known(c, "start_offset") /\ c.kinds["start_offset"] = LoopStart(c.depth)

(* A label is pending, with jumps to it, or solved, of the frame at a level;  *)
(* the labels of a popped frame are dead.                                   *)
Target(state, level)  == [state |-> state, level |-> level]
IsFree(c, l)     == l \notin DOMAIN c.labels
IsPending(c, l)  == ~ IsFree(c, l) /\ c.labels[l] = Target("pending", c.depth)
IsPut(c, l)      == ~ IsFree(c, l) /\ c.labels[l] = Target("solved", c.depth)
NonePending(c)   == \A l \in DOMAIN c.labels : c.labels[l] # Target("pending", c.depth)

(* The local v is assigned.  No handler assigns the start of its loop twice.  *)
IsFreeVariable(v) == v # "start_offset"
Gets(c, v, k)    == [c EXCEPT !.kinds = Assign(@, v, k)]
(* The kinds after an instruction, once more of them may have come, and after *)
(* the frame on top is popped.                                              *)
Mapped(c, F(_, _)) == [v \in DOMAIN c.kinds |-> F(c.kinds[v], c.depth)]
Past(k, level)  == IF k.level = level /\ k.is \in {"here", "reached"} THEN Mark("passed", level) ELSE k
Later(k, level) == IF k.level = level /\ k.is = "here" THEN Mark("reached", level) ELSE k
Gone(k, level)  == IF k.level = level THEN Integer ELSE k
GoesOn(code)     == IF code = "ended" THEN "some" ELSE code
Emits(c, op)     == [c EXCEPT !.code = IF IsReturn(op) THEN "ended" ELSE "some",
                              !.kinds = Mapped(c, Past)]
Jumps(c, op, l)  == [Emits(c, op) EXCEPT !.labels = IF IsFree(c, l)
                                                    THEN Assign(@, l, Target("pending", c.depth))
                                                    ELSE @]
Puts(c, l)       == [c EXCEPT !.code = GoesOn(@), !.labels = Assign(@, l, Target("solved", c.depth))]
Waits(c)         == [c EXCEPT !.code = GoesOn(@), !.kinds = Mapped(c, Later)]
Leaves(c)        == [c EXCEPT !.code = GoesOn(@)]
Opens(c, v)      == [Gets(c, v, FrameNumber) EXCEPT !.depth = @ + 1, !.code = "none"]
Closes(c) ==
  [c EXCEPT !.depth = @ - 1, !.code = "some", !.kinds = Mapped(c, Gone),
            !.labels = [l \in DOMAIN @ |-> IF @[l].level = c.depth THEN Target("dead", c.depth)
                                           ELSE @[l]]]

(* A value given to the caller, whose frame on top is the callee's level 0.   *)
Givable(k) == k.is \in {"unknown", "integer", "frame", "register"} /\ k.level = 0
Given(c, k) == IF k.is = "register" THEN Register(k.type, c.depth) ELSE k
-----------------------------------------------------------------------------
(* What operation op needs in context c.                                    *)

Constrained(op, c) ==
  CASE op.op = "child" -> /\ c.code # "none" /\ IsFreeVariable(op.dst)
                          /\ \A k \in Results(op.node) : Givable(k)
    [] op.op = "return" -> /\ c.depth = 0 /\ NonePending(c)
                           /\ IF c.of = "program" THEN c.code = "ended" ELSE KindOf(c, op.src) \in c.ret
    [] op.op = "set" -> Known(c, op.src) /\ IsFreeVariable(op.dst)
    [] op.op = "narrow" -> Known(c, op.dst) /\ IsFreeVariable(op.dst)
    [] op.op \in {"switch", "assert"} -> Known(c, op.on) /\ IsFreeVariable(op.on)
    [] op.op = "ifunknown" -> Known(c, op.on)
    [] op.op = "die" -> op.why \in {"assert", "abort", "panic", "exit"}
    [] op.op = "reg" -> op.type \in RegTypes /\ IsFreeVariable(op.dst)
    [] op.op = "lexical" -> op.name \in STRING \X STRING /\ IsFreeVariable(op.dst)
    [] op.op = "pkgvar" -> op.name \in STRING \X STRING
    [] op.op = "find" -> TRUE
    [] op.op = "access" -> /\ op.instr \in {"getlex", "bindlex"} /\ Holds(c, op.reg, "obj")
                           /\ Known(c, op.lex) /\ Known(c, op.outer)
    [] op.op = "emit" -> /\ op.name \in STRING /\ ~ IsJump(op.name)
                         /\ op.val \in Int /\ op.extra \in Int /\ op.str \in STRING /\ op.imm \in Nat
                         /\ AreRegisters(c, op.args) /\ TypesOf(c, op.args) \in Operands(op.name)
    [] op.op = "getcode" -> Holds(c, op.dst, "obj") /\ (op.frame = "0" \/ Known(c, op.frame))
    [] op.op = "patchcode" -> /\ Known(c, "func_pos") /\ c.kinds["func_pos"] = CodeOperand(c.depth)
                              /\ Known(c, op.frame)
    [] op.op = "pushframe" -> c.code # "none" /\ IsFreeVariable(op.dst)
    [] op.op = "popframe" -> c.depth > 0 /\ c.code = "ended" /\ NonePending(c)
    [] op.op = "goto" -> IsFree(c, op.label) \/ IsPending(c, op.label) \/ IsPut(c, op.label)
    [] op.op = "branch" -> /\ IsBranch(op.name) /\ Known(c, op.on) /\ IsFreeVariable(op.on)
                           /\ IsFree(c, op.label) \/ IsPending(c, op.label) \/ IsPut(c, op.label)
    [] op.op = "paramop" -> /\ Holds(c, op.on, "obj") /\ op.index \in Int
                            /\ IsFree(c, op.label) \/ IsPending(c, op.label)
    [] op.op = "put" -> IsFree(c, op.label) \/ IsPending(c, op.label)
    [] op.op = "enter" -> c.code # "none" /\ ~ Known(c, "start_offset")
    [] op.op = "mark" -> InLoop(c) /\ IsFreeVariable(op.dst)
    [] op.op = "leave" -> /\ InLoop(c)
                          /\ KindOf(c, "next_offset") = Mark("passed", c.depth)
                          /\ KindOf(c, "last_offset") = Mark("here", c.depth)
    [] op.op = "throw" -> IsThrow(op.category) /\ Holds(c, op.dst, "obj")
    [] op.op = "prepargs" -> AreRegisters(c, op.args)
    [] op.op \in {"class", "endclass", "finalize"} -> TRUE
    [] op.op = "bindmethod" -> Known(c, op.frame) /\ c.kinds[op.frame] = FrameNumber
    [] op.op = "wval" -> Holds(c, op.dst, "obj") /\ Known(c, op.sc)

(* What asserts the type of a register stops the compiler, or from then on    *)
(* the register is known to have one of the types.                          *)
Checked(todo, c, types) ==
  {<<todo, Gets(c, todo[1].on, Register(type, c.depth))>> : type \in types}

(* What is left and its context after the operation, in each of its outcomes; *)
(* an assertion on what is not known is settled before the operation.        *)
Onward(todo, c) ==
  LET op == todo[1]
      To(d) == {<<Tail(todo), d>>}
      Into(ops, d) == {<<ops \o Tail(todo), d>>}
  IN CASE op.op = "child" -> {<<Tail(todo), Gets(Waits(c), op.dst, Given(c, k))>> : k \in Results(op.node)}
       [] op.op \in {"return", "die"} -> {}
       [] op.op = "set" -> To(Gets(c, op.dst, c.kinds[op.src]))
       [] op.op = "narrow" -> To(IF IsRegisterOf(c, op.dst) THEN c ELSE Gets(c, op.dst, Integer))
       [] op.op = "switch" -> IF IsRegisterOf(c, op.on) THEN Into(op.cases[c.kinds[op.on].type], c)
                              ELSE Checked(todo, c, RegTypes)
       [] op.op = "assert" -> IF Holds(c, op.on, op.type) THEN To(c)
                              ELSE Checked(todo, c, {op.type})
       [] op.op = "ifunknown" ->
            (IF c.kinds[op.on].is # "register" THEN Into(op.yes, c) ELSE {})
            \cup (IF c.kinds[op.on] # Unknown THEN Into(op.no, c) ELSE {})
       [] op.op \in {"pkgvar", "patchcode", "endclass", "bindmethod", "finalize"} -> To(c)
       [] op.op = "reg" -> To(Gets(c, op.dst, Register(op.type, c.depth)))
       [] op.op = "lexical" -> To(Gets(c, op.dst, Integer))
       [] op.op = "find" -> Into(op.found, Gets(Gets(c, "lex_no", Integer), "outer", Integer))
                            \cup (IF op.package # <<>> THEN Into(op.package, c) ELSE {})
                            \cup Into(op.missing, c)
       [] op.op = "access" -> To(Emits(c, op.instr))
       [] op.op = "emit" -> To(Emits(c, op.name))
       [] op.op = "getcode" -> To(Gets(Emits(c, "getcode"), "func_pos", CodeOperand(c.depth)))
       [] op.op = "pushframe" -> To(Opens(c, op.dst))
       [] op.op = "popframe" -> To(Closes(c))
       [] op.op = "goto" -> To(Jumps(c, "goto", op.label))
       [] op.op = "branch" -> IF IsRegisterOf(c, op.on) THEN To(Jumps(c, op.name, op.label))
                              ELSE Checked(todo, c, RegTypes)
       [] op.op = "paramop" -> To(Jumps(c, "param_op_o", op.label))
       [] op.op = "put" -> To(Puts(c, op.label))
       [] op.op = "enter" -> To(Gets(c, "start_offset", LoopStart(c.depth)))
       [] op.op = "mark" -> To(Gets(c, op.dst, Mark("here", c.depth)))
       [] op.op = "leave" -> To(Leaves(c))
       [] op.op = "throw" -> To(Emits(c, op.category))
       [] op.op = "prepargs" -> To(Emits(c, "prepargs"))
       [] op.op = "class" -> To(Gets(c, "wval1", Integer))
       [] op.op = "wval" -> To(Emits(c, "wval"))

(* The handler of a node starts on its script, that of a program on its own.  *)
TypesNode(T, n)    == n \in DOMAIN T /\ <<Script(n), Start(Results(n))>> \in T[n]
TypesProgram(T, p) == p \in DOMAIN T /\ <<MainScript(p), MainStart>> \in T[p]

(* What the typings of a node say of an operation they say of what is left   *)
(* after it, and the child it calls has typings of its own.                  *)
Closed(T) ==
  \A n \in DOMAIN T : \A t \in T[n] :
    /\ t[1] # <<>> /\ Constrained(t[1][1], t[2])
    /\ Onward(t[1], t[2]) \subseteq T[n]
    /\ t[1][1].op = "child" => TypesNode(T, t[1][1].node)

Covers(T) == Closed(T) /\ \A p \in Programs : TypesProgram(T, p)

ASSUME TypingAssumption == Covers(Typings)

(* That a literal is a string has to be said to the provers, of those the     *)
(* actions emit themselves.                                                 *)
ASSUME LiteralsAssumption ==
  {"", "getlex", "bindlex", "getcode", "goto", "if", "unless", "param_op_o", "prepargs", "wval",
   "next", "last", "redo"} \subseteq STRING
=============================================================================
