------------------------------ MODULE Codegen ------------------------------
(***************************************************************************)
(* The code generator of kiji: the frames being filled, the assembler       *)
(* (src/src/asm.c), forward jumps (src/src/compiler/label.c), loop handlers *)
(* (loop.h, loop.c) and registers (frame.c), driven by the node handlers.   *)
(*                                                                         *)
(* A node handler (an ND function of nd_*.c) is the sequence of primitive   *)
(* operations Script(n) gives for a node n: module Handlers writes them.     *)
(* The C call stack is `acts', one activation per handler in progress with  *)
(* its remaining operations and its C locals; each action below is one      *)
(* primitive, executed by the innermost activation.  Registers, lexicals    *)
(* and byte offsets count from 0 as in C, frames from 1; the bytecode of a   *)
(* frame stays below 2^31 bytes, so 32-bit offsets do not wrap.             *)
(***************************************************************************)
EXTENDS MoarVM

CONSTANTS
  Programs,      \* the syntax trees that are compiled
  Script(_),     \* the operations of a node's handler
  MainScript(_), \* the operations of Kiji_compiler_compile for a tree
  Garbage,       \* what an uninitialised C variable may hold
  Word           \* how many values a uint16_t has: 65536

ASSUME GarbageAssumption == Garbage \subseteq Int /\ Garbage # {}
ASSUME WordAssumption == Word \in Nat /\ Word > 2

VARIABLES
  program, \* the tree being compiled
  frame,   \* self->cu->frames, in the order they were pushed
  frames,  \* self->frames: the stack of frames being compiled
  cu,      \* the rest of the compilation unit, and self->current_class_how
  acts,    \* the handlers in progress, innermost last
  calls,   \* how many handlers have been called: it names them in properties
  status   \* "compiling", "done", or why the compiler stopped

vars == <<program, frame, frames, cu, acts, calls, status>>
-----------------------------------------------------------------------------
UNKNOWN_REG == -1
Unsolved    == -1
U16(x) == x % Word

SetMin(S) == CHOOSE x \in S : \A y \in S : x <= y
SetMax(S) == CHOOSE x \in S : \A y \in S : y <= x

Top == frames[Len(frames)]
Act == acts[Len(acts)]
Op  == Act.todo[1]
loc == Act.loc
lab == Act.lab

NewFrame(outer) == [outer |-> outer, code |-> <<>>, bytecode_size |-> 0,
                    locals |-> <<>>, lexicals |-> <<>>, package_variables |-> {},
                    handlers |-> <<>>]

(* An instruction: its offset, operation, registers and up to two more       *)
(* operands (a constant, an argument's index, a callsite, a jump target, a   *)
(* frame number; a lexical and its outer count, an arity) or a name.  `slot' *)
(* is the offset of an operand a later patch may rewrite, else 0.  `by' is   *)
(* no part of the bytecode: it names the handler that emitted it.           *)
Instr(at, op, args) == [at |-> at, op |-> op, args |-> args, slot |-> 0,
                        target |-> 0, extra |-> 0, str |-> "", by |-> Act.id]

(* Frame r after an instruction: a bank and an op byte, 16 bits for each     *)
(* register, imm bytes of other operands.                                   *)
Asm(r, instr, imm) ==
  [r EXCEPT !.code = Append(@, instr),
            !.bytecode_size = @ + 2 + 2 * Len(instr.args) + imm]

Size == frame[Top].bytecode_size
Emitted(op, args) == Instr(Size, op, args)

(* Mutant: a jump is patched in 16 bits.                                    *)
Patch16(code, offsets, val) ==
  [i \in DOMAIN code |-> IF code[i].slot \in offsets
                         THEN [code[i] EXCEPT !.target = U16(val)] ELSE code[i]]
(* Kiji_asm_write_uint32_t_for, Kiji_asm_write_uint16_t_for at each of the   *)
(* given offsets.                                                           *)
Patch(code, offsets, val) ==
  [i \in DOMAIN code |-> IF code[i].slot \in offsets
                         THEN [code[i] EXCEPT !.target = val] ELSE code[i]]

(* A C function's locals are a function of the names assigned so far.       *)
Assign(f, v, x) == [w \in DOMAIN f \cup {v} |-> IF w = v THEN x ELSE f[w]]
ReadOf(v) == IF v \in DOMAIN loc THEN {loc[v]} ELSE Garbage

Label(l) == IF l \in DOMAIN lab THEN lab[l]
            ELSE [address |-> Unsolved, reserved |-> {}]      \* Kiji_label_init
IsSolved(l) == Label(l).address # Unsolved
(* Mutant: only the last jump to a label is remembered.                     *)
ReserveLast(l, pos) ==
  IF IsSolved(l) THEN lab ELSE Assign(lab, l, [Label(l) EXCEPT !.reserved = {pos}])
Reserve(l, pos) ==
  IF IsSolved(l) THEN lab
  ELSE Assign(lab, l, [Label(l) EXCEPT !.reserved = @ \cup {pos}])

IsRegister(x) == 0 <= x /\ x < Len(frame[Top].locals)
TypeOf(x) == frame[Top].locals[x + 1]           \* Kiji_frame_get_local_type
Registers(args) == [i \in DOMAIN args |-> U16(loc[args[i]])]

(* The innermost activation goes on with its next operation.                *)
Resume(todo, newloc, newlab) ==
  acts' = [acts EXCEPT ![Len(acts)] =
             [@ EXCEPT !.todo = todo, !.loc = newloc, !.lab = newlab]]
Continue       == Resume(Tail(Act.todo), loc, lab)
ContinueSet(v, x) == Resume(Tail(Act.todo), Assign(loc, v, x), lab)
SetTop(r)      == frame' = [frame EXCEPT ![Top] = r]

Does(op)  == status = "compiling" /\ Act.todo # <<>> /\ Op.op = op
Stop(why) == status' = why /\ UNCHANGED <<frame, frames, cu, acts, calls>>
Proceed   == UNCHANGED <<cu, calls, status>>

(* dst is the variable of the caller that takes the value.                  *)
Activation(script, dst, id) ==
  [todo |-> script, loc |-> [UNKNOWN_REG |-> UNKNOWN_REG, zero |-> 0], lab |-> <<>>,
   dst |-> dst, id |-> id]

(* @*ARGS is the object of the first serialization context.                  *)
Clargs == [class |-> FALSE, methods |-> <<>>]
NewClass == [class |-> TRUE, methods |-> <<>>]
EmptyUnit == [callsites |-> <<>>, max_callsite_size |-> 0, scs |-> <<Clargs>>,
              current_class_how |-> 0]

Init ==
  /\ program \in Programs
  /\ frame  = <<NewFrame(0)>>
  /\ frames = <<1>>
  /\ cu     = EmptyUnit
  /\ acts   = <<Activation(MainScript(program), "void", 0)>>
  /\ calls  = 0
  /\ status = "compiling"
-----------------------------------------------------------------------------
(* Calls between handlers.                                                  *)

(* Kiji_compiler_do_compile on a child.                                     *)
Child ==
  /\ Does("child")
  /\ acts' = Append([acts EXCEPT ![Len(acts)].todo = Tail(@)],
                    Activation(Script(Op.node), Op.dst, calls + 1))
  /\ calls' = calls + 1
  /\ UNCHANGED <<frame, frames, cu, status>>

(* A handler returns; the caller's variable gets the value.                 *)
Return ==
  /\ Does("return")
  /\ \E x \in ReadOf(Op.src) :
       IF Len(acts) = 1
       THEN acts' = <<>> /\ status' = "done"
       ELSE LET rest == SubSeq(acts, 1, Len(acts) - 1) IN
            /\ acts' = [rest EXCEPT ![Len(rest)].loc = Assign(@, Act.dst, x)]
            /\ UNCHANGED status
  /\ UNCHANGED <<frame, frames, cu, calls>>
-----------------------------------------------------------------------------
(* C locals and what the handlers test.                                     *)

Set ==
  /\ Does("set")
  /\ ContinueSet(Op.dst, loc[Op.src])
  /\ UNCHANGED <<frame, frames>> /\ Proceed

(* The value is stored in a variable of type MVMuint16.                     *)
Narrow ==
  /\ Does("narrow")
  /\ ContinueSet(Op.dst, U16(loc[Op.dst]))
  /\ UNCHANGED <<frame, frames>> /\ Proceed

(* switch (get_local_type(reg)): the type is asserted to exist.             *)
Switch ==
  /\ Does("switch")
  /\ IF IsRegister(loc[Op.on])
     THEN /\ Resume(Op.cases[TypeOf(loc[Op.on])] \o Tail(Act.todo), loc, lab)
          /\ UNCHANGED <<frame, frames>> /\ Proceed
     ELSE Stop("assert")

(* if (reg == UNKNOWN_REG).                                                 *)
IfUnknown ==
  /\ Does("ifunknown")
  /\ Resume((IF loc[Op.on] = UNKNOWN_REG THEN Op.yes ELSE Op.no) \o Tail(Act.todo),
            loc, lab)
  /\ UNCHANGED <<frame, frames>> /\ Proceed

(* An assertion on the type of a register, or an unconditional abort/panic. *)
AssertType ==
  /\ Does("assert")
  /\ IF IsRegister(loc[Op.on]) /\ TypeOf(loc[Op.on]) = Op.type
     THEN Continue /\ UNCHANGED <<frame, frames>> /\ Proceed
     ELSE Stop("assert")

Die ==
  /\ Does("die")
  /\ Stop(Op.why)
-----------------------------------------------------------------------------
(* Registers, lexicals and plain instructions.                              *)

(* Mutant: registers are handed out without a limit.                        *)
PushLocalUnlimited ==
  /\ Does("reg")
  /\ SetTop([frame[Top] EXCEPT !.locals = Append(@, Op.type)])
  /\ ContinueSet(Op.dst, Len(frame[Top].locals))
  /\ UNCHANGED frames /\ Proceed

(* Kiji_frame_push_local_type aborts before a register number could reach    *)
(* the UNKNOWN_REG of 16 bits.                                              *)
PushLocal ==
  /\ Does("reg")
  /\ IF Len(frame[Top].locals) + 1 >= Word - 1 THEN Stop("abort")
     ELSE /\ SetTop([frame[Top] EXCEPT !.locals = Append(@, Op.type)])
          /\ ContinueSet(Op.dst, Len(frame[Top].locals))
          /\ UNCHANGED frames /\ Proceed

PushLexical ==
  /\ Does("lexical")
  /\ SetTop([frame[Top] EXCEPT !.lexicals = Append(@, Op.name)])
  /\ ContinueSet(Op.dst, Len(frame[Top].lexicals))
  /\ UNCHANGED frames /\ Proceed

PushPackageVariable ==
  /\ Does("pkgvar")
  /\ SetTop([frame[Top] EXCEPT !.package_variables = @ \cup {Op.name}])
  /\ Continue
  /\ UNCHANGED frames /\ Proceed

(* Kiji_frame_find_lexical_by_name, and Kiji_find_variable_by_name when      *)
(* package variables count too: the loops of module Frames in one step.      *)
Lexicals(f) == {i \in DOMAIN frame[f].lexicals : frame[f].lexicals[i] = Op.name}
IsPackageVariable(f) == Op.package # <<>> /\ Op.name \in frame[f].package_variables

(* How many frames the search from frame f climbs, and where it ends: the     *)
(* frame that has the name, or 0.                                           *)
Has(f) == Lexicals(f) # {} \/ IsPackageVariable(f)
Climb[f \in 0..Len(frame)] ==
  IF f = 0 \/ Has(f) THEN <<0, f>>
  ELSE LET c == Climb[frame[f].outer] IN <<c[1] + 1, c[2]>>

FindName ==
  /\ Does("find")
  /\ LET outer == Climb[Top][1]
         f     == Climb[Top][2]
     IN IF f = 0 THEN Resume(Op.missing \o Tail(Act.todo), loc, lab)
        ELSE IF Lexicals(f) = {} THEN Resume(Op.package \o Tail(Act.todo), loc, lab)
        ELSE Resume(Op.found \o Tail(Act.todo),
                    Assign(Assign(loc, "lex_no", SetMax(Lexicals(f)) - 1), "outer", outer), lab)
  /\ UNCHANGED <<frame, frames>> /\ Proceed

(* getlex or bindlex of a register, with the operands lex and outer.         *)
AccessLexical ==
  /\ Does("access")
  /\ SetTop(Asm(frame[Top], [Emitted(Op.instr, Registers(<<Op.reg>>)) EXCEPT
                               !.target = U16(loc[Op.lex]), !.extra = U16(loc[Op.outer])], 4))
  /\ Continue
  /\ UNCHANGED frames /\ Proceed

Emit ==
  /\ Does("emit")
  /\ SetTop(Asm(frame[Top],
                [Emitted(Op.name, Registers(Op.args)) EXCEPT
                   !.target = Op.val, !.extra = Op.extra, !.str = Op.str], Op.imm))
  /\ Continue
  /\ UNCHANGED frames /\ Proceed

(* The operand of frame no, in 16 bits like any other but a jump's.          *)
FrameOperand(no) == U16(no - 1) + 1

(* getcode dst, frame_no; a sub is bound before its body is compiled, with   *)
(* frame number 0 and the operand's offset kept in func_pos.                 *)
GetCode ==
  /\ Does("getcode")
  /\ LET no == IF Op.frame = "0" THEN 1 ELSE loc[Op.frame]
     IN SetTop(Asm(frame[Top], [Emitted("getcode", Registers(<<Op.dst>>)) EXCEPT
                                  !.slot = Size + 4, !.target = FrameOperand(no)], 2))
  /\ ContinueSet("func_pos", Size + 2 + 2)
  /\ UNCHANGED frames /\ Proceed

(* ASM_WRITE_UINT16_T(frame_no, func_pos), in the frame then on top.        *)
PatchCode ==
  /\ Does("patchcode")
  /\ SetTop([frame[Top] EXCEPT !.code = Patch(@, {loc["func_pos"]}, FrameOperand(loc[Op.frame]))])
  /\ Continue
  /\ UNCHANGED frames /\ Proceed
-----------------------------------------------------------------------------
(* Frames.                                                                  *)

(* Mutant: the frame number is the count after the push.                    *)
PushFrameOffByOne ==
  /\ Does("pushframe")
  /\ frame'  = Append(frame, NewFrame(Top))
  /\ frames' = Append(frames, Len(frame) + 2)
  /\ ContinueSet(Op.dst, Len(frame) + 2)
  /\ Proceed

PushFrame ==
  /\ Does("pushframe")
  /\ frame'  = Append(frame, NewFrame(Top))
  /\ frames' = Append(frames, Len(frame) + 1)
  /\ ContinueSet(Op.dst, Len(frame) + 1)
  /\ Proceed

PopFrame ==
  /\ Does("popframe")
  /\ frames' = SubSeq(frames, 1, Len(frames) - 1)
  /\ Continue
  /\ UNCHANGED frame /\ Proceed
-----------------------------------------------------------------------------
(* Labels and jumps.                                                        *)

(* Kiji_compiler_goto.                                                      *)
Goto ==
  /\ Does("goto")
  /\ SetTop(Asm(frame[Top], [Emitted("goto", <<>>) EXCEPT
                               !.slot = Size + 2,
                               !.target = Label(Op.label).address], 4))
  /\ Resume(Tail(Act.todo), loc, Reserve(Op.label, Size + 2))
  /\ UNCHANGED frames /\ Proceed

(* Kiji_compiler_if_any, Kiji_compiler_unless_any: Kiji_asm_op_u16_u32 takes *)
(* the address as a uint16_t.                                               *)
Branch ==
  /\ Does("branch")
  /\ IF IsRegister(loc[Op.on])
     THEN /\ SetTop(Asm(frame[Top],
                        [Emitted(Op.name, Registers(<<Op.on>>)) EXCEPT
                           !.slot = Size + 2 + 2,
                           !.target = U16(Label(Op.label).address)], 4))
          /\ Resume(Tail(Act.todo), loc, Reserve(Op.label, Size + 2 + 2))
          /\ UNCHANGED frames /\ Proceed
     ELSE Stop("assert")

(* The optional parameter of NODE_FUNC: param_op_o reg, i, label.           *)
ParamOptional ==
  /\ Does("paramop")
  /\ SetTop(Asm(frame[Top], [Emitted("param_op_o", Registers(<<Op.on>>)) EXCEPT
                               !.slot = Size + 1 + 1 + 2 + 2, !.extra = Op.index], 6))
  /\ Resume(Tail(Act.todo), loc, Reserve(Op.label, Size + 1 + 1 + 2 + 2))
  /\ UNCHANGED frames /\ Proceed

(* Kiji_label_put: patches, in the frame on top, every address reserved.    *)
PutLabel ==
  /\ Does("put")
  /\ IF IsSolved(Op.label) THEN Stop("assert")
     ELSE /\ SetTop([frame[Top] EXCEPT
                       !.code = Patch(@, Label(Op.label).reserved, Size)])
          /\ Resume(Tail(Act.todo), loc,
                    Assign(lab, Op.label, [address |-> Size, reserved |-> {}]))
          /\ UNCHANGED frames /\ Proceed
-----------------------------------------------------------------------------
(* Loops: the KijiLoop record is the locals start_offset, last_offset,       *)
(* next_offset and redo_offset of the activation.                           *)

LoopEnter ==
  /\ Does("enter")
  /\ ContinueSet("start_offset", Size - 1)
  /\ UNCHANGED <<frame, frames>> /\ Proceed

(* Mutant: the offset is taken one byte early, as the start of the loop is.  *)
LoopMarkEarly ==
  /\ Does("mark")
  /\ ContinueSet(Op.dst, Size - 1)
  /\ UNCHANGED <<frame, frames>> /\ Proceed

(* LOOP_NEXT and LOOP_LAST (no handler uses LOOP_REDO).                      *)
LoopMark ==
  /\ Does("mark")
  /\ ContinueSet(Op.dst, Size)
  /\ UNCHANGED <<frame, frames>> /\ Proceed

(* Kiji_loop_finalize pushes three handlers on the frame then on top.        *)
Handler(category, to) ==
  [start_offset |-> loc["start_offset"], end_offset |-> Size - 1,
   category |-> category, goto_offset |-> to, by |-> Act.id]

(* Mutant: an outer loop's handlers come before those of the loops in it.    *)
LoopLeaveOuterFirst ==
  /\ Does("leave")
  /\ \E redo \in ReadOf("redo_offset") :
       SetTop([frame[Top] EXCEPT !.handlers =
                 <<Handler("last", loc["last_offset"]),
                   Handler("next", loc["next_offset"]),
                   Handler("redo", redo)>> \o @])
  /\ Continue
  /\ UNCHANGED frames /\ Proceed

LoopLeave ==
  /\ Does("leave")
  /\ \E redo \in ReadOf("redo_offset") :
       SetTop([frame[Top] EXCEPT !.handlers =
                 @ \o <<Handler("last", loc["last_offset"]),
                        Handler("next", loc["next_offset"]),
                        Handler("redo", redo)>>])
  /\ Continue
  /\ UNCHANGED frames /\ Proceed

(* The loop a throw belongs to: its handler is the innermost in progress.    *)
InnermostLoop ==
  LET inside == {i \in DOMAIN acts : "start_offset" \in DOMAIN acts[i].loc}
  IN IF inside = {} THEN 0
     ELSE acts[CHOOSE i \in inside : \A j \in inside : j <= i].id

(* NODE_LAST, NODE_NEXT, NODE_REDO: throwcatlex ret, category.  `by' names    *)
(* the loop.                                                                *)
Throw ==
  /\ Does("throw")
  /\ SetTop(Asm(frame[Top], [Emitted(Op.category, Registers(<<Op.dst>>)) EXCEPT
                               !.by = InnermostLoop], 8))
  /\ Continue
  /\ UNCHANGED frames /\ Proceed
-----------------------------------------------------------------------------
(* The compilation unit: callsites and serialization contexts.               *)

(* The flags of a call: the register types of its arguments.                 *)
Flags(args) == [i \in DOMAIN args |-> TypeOf(loc[args[i]])]
(* callsite_eq                                                              *)
SameCallsite(flags) == {i \in DOMAIN cu.callsites : cu.callsites[i] = flags}

(* Kiji_compiler_push_callsite, then prepargs: an equal callsite is shared.  *)
PrepArgs ==
  /\ Does("prepargs")
  /\ LET flags == Flags(Op.args)
         fresh == SameCallsite(flags) = {}
         no    == IF fresh THEN Len(cu.callsites) ELSE SetMin(SameCallsite(flags)) - 1
     IN /\ cu' = IF fresh THEN [cu EXCEPT !.callsites = Append(@, flags)] ELSE cu
        /\ SetTop(Asm(frame[Top], [Emitted("prepargs", <<>>) EXCEPT !.target = U16(no)], 2))
  /\ Continue
  /\ UNCHANGED <<frames, calls, status>>

(* The head of Kiji_compiler_compile_class: a type object with its HOW.       *)
OpenClass ==
  /\ Does("class")
  /\ cu' = [cu EXCEPT !.scs = Append(@, NewClass), !.current_class_how = Len(cu.scs) + 1]
  /\ ContinueSet("wval1", Len(cu.scs))
  /\ UNCHANGED <<frame, frames, calls, status>>

CloseClass ==
  /\ Does("endclass")
  /\ cu' = [cu EXCEPT !.current_class_how = 0]
  /\ Continue
  /\ UNCHANGED <<frame, frames, calls, status>>

(* The end of NODE_METHOD: the code object of the frame goes to the HOW.      *)
BindMethod ==
  /\ Does("bindmethod")
  /\ IF cu.current_class_how = 0 THEN Stop("panic")
     ELSE /\ cu' = [cu EXCEPT !.scs[cu.current_class_how].methods =
                      Assign(@, Op.name, loc[Op.frame])]
          /\ Continue
          /\ UNCHANGED <<frame, frames, calls, status>>

(* wval reg, context, 0                                                      *)
Wval ==
  /\ Does("wval")
  /\ SetTop(Asm(frame[Top], [Emitted("wval", Registers(<<Op.dst>>)) EXCEPT
                               !.target = loc[Op.sc]], 4))
  /\ Continue
  /\ UNCHANGED frames /\ Proceed

(* Mutant: the length of the callsite pushed last.                          *)
FinalizeLast ==
  /\ Does("finalize")
  /\ cu' = [cu EXCEPT !.max_callsite_size =
               IF cu.callsites = <<>> THEN 0 ELSE Len(cu.callsites[Len(cu.callsites)])]
  /\ Continue
  /\ UNCHANGED <<frame, frames, calls, status>>

(* The end of Kiji_compiler_compile: the longest callsite.                    *)
Finalize ==
  /\ Does("finalize")
  /\ cu' = [cu EXCEPT !.max_callsite_size =
               SetMax({0} \cup {Len(cu.callsites[i]) : i \in DOMAIN cu.callsites})]
  /\ Continue
  /\ UNCHANGED <<frame, frames, calls, status>>
-----------------------------------------------------------------------------
Terminated == status # "compiling" /\ UNCHANGED vars

Step ==
  \/ Child \/ Return
  \/ Set \/ Narrow \/ Switch \/ IfUnknown \/ AssertType \/ Die
  \/ PushLocal \/ PushLexical \/ PushPackageVariable \/ FindName \/ AccessLexical
  \/ Emit \/ GetCode \/ PatchCode
  \/ PushFrame \/ PopFrame
  \/ Goto \/ Branch \/ ParamOptional \/ PutLabel
  \/ LoopEnter \/ LoopMark \/ LoopLeave \/ Throw
  \/ PrepArgs \/ OpenClass \/ CloseClass \/ BindMethod \/ Wval \/ Finalize

Next == (Step /\ UNCHANGED program) \/ Terminated

Spec == Init /\ [][Next]_vars
-----------------------------------------------------------------------------
(* Properties.                                                              *)

Instruction  == [at : Nat, op : STRING, args : Seq(Int), slot : Nat, target : Int,
                 extra : Int, str : STRING, by : Nat]
FrameHandler == [start_offset : Nat, end_offset : Nat, by : Nat,
                 category : {"next", "last", "redo"}, goto_offset : Int]
KijiFrame    == [outer : Nat, code : Seq(Instruction), bytecode_size : Nat,
                 locals : Seq(RegTypes), lexicals : Seq(STRING \X STRING),
                 package_variables : SUBSET (STRING \X STRING),
                 handlers : Seq(FrameHandler)]

TypeOK ==
  /\ frame  \in Seq(KijiFrame)
  /\ frames \in Seq(DOMAIN frame)
  /\ cu.callsites \in Seq(Seq(RegTypes)) /\ cu.max_callsite_size \in Nat
  /\ cu.current_class_how \in {0} \cup {i \in DOMAIN cu.scs : cu.scs[i].class}
  /\ \A i \in DOMAIN cu.scs : \A m \in DOMAIN cu.scs[i].methods :
       cu.scs[i].methods[m] \in DOMAIN frame
  /\ calls  \in Nat
  /\ \A i \in DOMAIN acts : /\ \A v \in DOMAIN acts[i].loc : acts[i].loc[v] \in Int
                            /\ acts[i].id <= calls
  /\ status \in {"compiling", "done", "assert", "abort", "panic", "exit"}

Finished(f) == status = "done" \/ ~ \E i \in DOMAIN frames : frames[i] = f

IsStart(f, offset) == \E i \in DOMAIN frame[f].code : frame[f].code[i].at = offset

(* The code of a finished frame cannot be left but by a return: its last     *)
(* instruction is one, and every jump lands on an instruction, whatever was  *)
(* compiled between the jump and its label, frames included.                *)
JumpsLand ==
  \A f \in DOMAIN frame : Finished(f) =>
    LET code == frame[f].code IN
      /\ code # <<>> /\ IsReturn(code[Len(code)].op)
      /\ \A i \in DOMAIN code : IsJump(code[i].op) => IsStart(f, code[i].target)

(* Every register an instruction uses is a local of its own frame, of the    *)
(* type the instruction takes there.                                        *)
RegistersTyped ==
  \A f \in DOMAIN frame : Finished(f) => \A i \in DOMAIN frame[f].code :
    LET in == frame[f].code[i] IN
      /\ \A j \in DOMAIN in.args : in.args[j] \in 0..(Len(frame[f].locals) - 1)
      /\ [j \in DOMAIN in.args |-> frame[f].locals[in.args[j] + 1]] \in Operands(in.op)

(* No assertion of the compiler fails: no register number is taken for a     *)
(* value that is none, or for a value of another type than its own.          *)
NoAssertFails == status # "assert"

(* An invoke finds in each argument slot of its callsite the argument its    *)
(* own call wrote, of the type its callsite declares: no call compiled in     *)
(* between has overwritten it, and sharing callsites mixes up no two calls.   *)
CallsGetTheirArguments ==
  \A f \in DOMAIN frame : Finished(f) =>
    LET code == frame[f].code
        Before(k, P(_)) == {i \in 1..(k - 1) : P(code[i])}
    IN \A k \in DOMAIN code : IsInvoke(code[k].op) =>
         LET prep  == code[SetMax(Before(k, LAMBDA c : c.op = "prepargs"))]
             flags == cu.callsites[prep.target + 1]
         IN /\ prep.by = code[k].by
            /\ \A slot \in DOMAIN flags :
                 LET writers == Before(k, LAMBDA c : IsArgument(c.op) /\ c.target = slot - 1)
                     writer  == code[SetMax(writers)]
                 IN writers # {} /\ writer.by = code[k].by /\ ArgumentFlag(writer.op) = flags[slot]

(* Where frame g returns to in the frame that holds it, which invokes it     *)
(* right after taking its code.                                             *)
ReturnAddress(g) ==
  LET code   == frame[frame[g].outer].code
      taken  == SetMin({i \in DOMAIN code : code[i].op = "getcode" /\ code[i].target = g})
      called == {i \in DOMAIN code : i > taken /\ IsInvoke(code[i].op)}
  IN IF called = {} THEN -1 ELSE code[SetMin(called) + 1].at

(* The handlers of frame f that take a throw at pc, and the loop of the first. *)
Taking(f, pc, category) ==
  {k \in DOMAIN frame[f].handlers : Handles(frame[f].handlers[k], category, pc)}
FirstLoop(f, pc, category) == frame[f].handlers[SetMin(Taking(f, pc, category))].by

(* The loop MoarVM goes to for a throw at pc of frame f, 0 for none.         *)
CaughtBy(f, pc, category) ==
  LET outside[g \in DOMAIN frame] ==
        LET p == frame[g].outer IN
          IF p = 0 THEN 0
          ELSE IF Taking(p, ReturnAddress(g), category) # {}
          THEN FirstLoop(p, ReturnAddress(g), category)
          ELSE outside[p]
  IN IF Taking(f, pc, category) # {} THEN FirstLoop(f, pc, category) ELSE outside[f]

(* `next' and `last' reach the loop that encloses them most closely, through *)
(* blocks and lambdas, past the loops next to it and inside it; outside any  *)
(* loop no handler takes them.  This is so unless a loop starts where a      *)
(* block or lambda returns to: the return address of the invoke is an offset *)
(* of the loop after it, which takes what the block throws.                  *)
ThrowsReachTheirLoop ==
  status = "done" =>
    \A f \in DOMAIN frame : \A i \in DOMAIN frame[f].code :
      LET in == frame[f].code[i] IN
        IsThrow(in.op) => CaughtBy(f, in.at + 2, in.op) = in.by

(* In its own frame a throw is taken by the loop that encloses it most       *)
(* closely, if that loop is in the frame, and by none if it is not: not by   *)
(* the loops around that one, inside it, or before and after the throw.      *)
ThrowsStayInTheirLoop ==
  \A f \in DOMAIN frame : Finished(f) => \A i \in DOMAIN frame[f].code :
    LET in  == frame[f].code[i]
        own == \E k \in DOMAIN frame[f].handlers : frame[f].handlers[k].by = in.by
        taking == Taking(f, in.at + 2, in.op)
    IN IsThrow(in.op) => IF own THEN taking # {} /\ FirstLoop(f, in.at + 2, in.op) = in.by
                         ELSE taking = {}

(* `next' resumes inside its loop and `last' after it, on an instruction.    *)
LoopsLand ==
  \A f \in DOMAIN frame : Finished(f) =>
    \A k \in DOMAIN frame[f].handlers :
      LET h == frame[f].handlers[k]
          inside == h.start_offset < h.goto_offset /\ h.goto_offset <= h.end_offset
      IN h.category # "redo" => IsStart(f, h.goto_offset) /\ (inside <=> h.category = "next")

(* `redo' does too, on an instruction of its loop.                           *)
RedoLands ==
  \A f \in DOMAIN frame : Finished(f) =>
    \A k \in DOMAIN frame[f].handlers :
      LET h == frame[f].handlers[k] IN
        h.category = "redo" =>
          /\ IsStart(f, h.goto_offset)
          /\ h.start_offset < h.goto_offset /\ h.goto_offset <= h.end_offset
=============================================================================
