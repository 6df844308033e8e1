# A TLA+ model of kiji

kiji compiles a subset of Perl 6 to MoarVM bytecode.  It is a sequential C
program of about 4300 lines: main (src/src/kiji.c) parses the command line,
has the program parsed by the external library pvip, compiles the tree into the
bytecode of an external MoarVM compilation unit, and runs it.  The compiler has
no threads and persists nothing; what makes it hard is recursion.  A node
handler compiles its children in the middle of its own work, so that frames,
labels, loops, registers and argument slots of many handlers are open at once,
and each handler relies on what the others leave behind.  The models cover that
part: which frame is on top when, where jumps, names and handlers lead, what
every emitted register means, and whether the generated code, run, does what the
program means.  The option parser before it and the one builtin method with an
algorithm of its own, join, have models of their own.

## Inventory

| Component | Source (src/src/) | State | Operations | Correct when |
|---|---|---|---|---|
| Frames and names | frame.c, frame.h, frame half of compiler/core.c | `cu->frames` (all frames), `self->frames` (the open ones), per frame: outer, lexicals, package variables, exportables, registers, bytecode, handlers | push/pop frame, push lexical / package variable / exportable / register / handler, two lookup loops | the open frames are the static scope; a lookup obeys lexical scoping and its (lex, outer) pair still holds when the frames are finished; exports reach the user of the library |
| Labels | compiler/label.c | address, reserved addresses of each label | init, reserve, put, is_solved | every jump lands on an instruction of its own frame |
| Loops | compiler/loop.c, loop.h | four offsets of each open loop | LOOP_ENTER, NEXT, LAST, LEAVE | `next` and `last` reach the nearest loop, inside and after it respectively |
| Assembler | asm.c, generated ASM_ macros | bytecode of the top frame | append, overwrite at an offset | a patch hits the operand it was kept for; no operand is wider than its field |
| Node handlers | compiler/nd_*.c, op_helper.c | C locals, the C stack | one function for each node type | registers exist and have the types the instruction takes; no assertion fails; calls get their own arguments |
| Compile unit | compiler/core.c | pools of strings, callsites, serialization contexts | push, find equal callsite, finalize | indices stay valid; equal callsites are shared |
| Classes and methods | op_helper.c 85-278, nd_func.c 7-113 | current_class_how, method table and cache | compile class, add method, compose | a method is bound to the class around it; a class can be instantiated |
| Builtin types | builtin/*.c | none of their own | methods on arrays, strings, hashes, files | join's two passes agree |
| Command line | commander.c, kiji.c | nargv, self->arg, remaining arguments, CmdLineState | normalise, parse, callbacks, choice of the source | every flag and word takes effect once, nothing is written past an allocation |
| Execution | kiji.c, MoarVM | the frames called, their registers and lexicals, lists and hashes, output | run main's frame | what the program writes and how it ends is what it means |
| External | MoarVM, pvip (empty submodules) | | oplist, handler search, parser | modelled from their use, in MoarVM.tla and Exec.tla |

Interaction is by direct calls: main → compile → do_compile → a handler → its
children's handlers through do_compile again, and from each handler the helpers,
which all act on the frame on top of `self->frames`.  That shared, implicit
argument is the main hazard.  PROJECT.json lists the hazards by line with the
properties that cover them.

## Modules

| Module | What it models |
|---|---|
| Frames | The frame stack and name resolution, with arbitrary programs: at any point any handler that opens a frame, declares or refers to a name may be called, so all trees up to MaxNodes nodes are covered. |
| MCFrames | The node kinds of the runs on Frames. |
| Frames_proofs | The theorems about Frames and their proofs. |
| MoarVM | External: operand types of the instructions used, which instructions return, jump, throw and pass arguments, and when a handler applies. |
| Codegen | The machine that executes handlers: one action per primitive (push a register, emit an instruction, jump, put a label, push a frame, enter a loop, call a child, return a register, stop on an assertion). |
| Handlers | Each node handler and each helper as the sequence of primitives it performs; the dispatch on node types. |
| MCCodegen | Codegen with Script given by Handlers, and the sets of programs of the runs. |
| Typing | The discipline the handlers keep: what an operation needs and what holds after it.  The proofs about Codegen assume it, TLC checks that the handlers keep it. |
| Scripts | What may be left to do after an operation of a script and what the operation assigns, for the next two. |
| Calling | The discipline they keep with the argument buffer of a frame, assumed and checked in the same way. |
| Nesting | The discipline they keep with loops: one for each handler at most, entered and left in the frame it was called in. |
| MCTyping | Those checks, for the programs of mcloops, one of each kind of node with each kind of operand, programs an assertion stops, and calls of calls. |
| Codegen_proofs | Lemmas about the code of a frame, and the theorems about Codegen. |
| CodegenCalls_proofs | The theorem about the arguments of calls. |
| CodegenLoops_proofs | The theorem about the throws of loops. |
| NatSets_proofs | Least and greatest elements of sets of numbers, for the other proofs. |
| Values | The values of a running program: numbers, texts, lists, code. |
| Exec | A kiji process: Codegen, then the interpreter on what Codegen has made, one instruction per action. Composes Codegen with the methods written in C. |
| Semantics | What a program means: an evaluator of trees that knows nothing of registers or jumps. |
| Promise | The abstract specification of a process: it writes the texts its program means and ends as the program does. |
| MCExec | Exec with Handlers, the refinement `Implements`, and the programs of the runs. |
| MCSession | Several programs in turn, each in a process of its own, as the scripts of t/ run them; what each wrote and how it ended is kept in `ran`. |
| Commander, MCCommander, Commander_proofs | The option parser and main; its command lines; its theorems. |
| Join, MCJoin, Join_proofs | The two passes of MVM_string_join_ex; its lists; its theorems. |
| FramesRefs_proofs | Further theorems about Frames: operands of lookups and of GETCODE, and what a `use` marks and imports. |

### Frames

A handler that compiles children is split at the recursive call: `OpenFunc` is
NODE_FUNC down to the body, `CloseFunc` the rest, and the record it leaves on
`open` is its C frame: `frame_no`, `func_pos` (as the index of the GETCODE in the
frame's `codes`), the parameters still to expand and the `lex_no` of a `my $x :=`.
The order of open and close is a stack discipline, as in C.  The loops along
`outer` run one iteration per step with their locals in `walk`; no other code
runs meanwhile, but the intermediate states are what the loop invariant
`WalkFollowsStack` is about.  `refs` collects the (lex, outer) operands emitted in a
frame, each with the name it was emitted for, and `codes` the GETCODE operands.

C numbers frames from 0 and this module from 1, so that the placeholder `GETCODE
0` is 1 here and 0 is the null pointer.  Names are a sigil and an identifier,
since `$x`, `&x` and `x` never collide and bare words retry with `&`.
NODE_USE's `self->frames[frame_no]` is out of bounds as soon as a frame has been
closed; `OpenUse` then takes any of the outcomes: no visible effect, the mark on
another frame reached by a stale pointer, or a crash.

### Codegen and Handlers

`acts` is the C stack: an activation has the primitives still to run, its C locals
(`loc`), its labels (`lab`) and the caller's variable that takes its value.  A
variable read before it is assigned yields any member of `Garbage` (the empty
NODE_STATEMENTS, the missing return of builtin `push`, `redo_offset`).  A local of
type MVMuint16 that takes a register is narrowed where a missing value (-1) can
reach it (`Narrow`).  Registers, frame numbers, lexicals, callsites and branch
operands go through `U16`, as in Kiji_asm_write_u16 and Kiji_asm_op_u16_u32; an
emitted forward target is later patched in 32 bits.  How many values a uint16_t has
is the constant `Word`: 65536, or 128 or 64 where a run is about the limit.

`cu` is the rest of the compilation unit.  A callsite is the sequence of the types
of its arguments; an equal one is shared and numbered by its first use
(`PrepArgs`).  A serialization context is a class with the methods bound to its HOW
(`OpenClass`, `BindMethod`, `CloseClass`); context 0 is `@*ARGS`.  `FindName` is
Frames' lookup in a single step, for a name with its sigil, since nothing happens between the
turns of its loop; the two modules agree on what a lookup is.

An instruction keeps its byte offset, its registers, and one further operand;
its length is computed from the operands' widths, so that offsets are those of
the program.  Where a family of handlers differs only in the instruction (add, sub,
mul, ...; `++` and `--`; the comparisons), one member stands for it.  The order of
evaluation of the arguments of a C call is unspecified; the model takes them left
to right, which changes the numbering of registers but no property.
`by` (the handler that emitted an instruction, or the loop a throw belongs to) is a
history field for the properties and no part of the bytecode.

### Values, Semantics, Promise and Exec

Exec starts MoarVM on the frame of the program when the compiler is done.  A call is
an entry of `stack`: its frame, the next instruction, registers (`work`),
lexicals, the arguments passed to it and the buffer of those it is about to
pass.  That buffer is as long as `max_callsite_size`; sharing it between nested calls is
how MoarVM works and what NODE_METHODCALL gets wrong.  A call finds the call of its
outer frame as MoarVM does for code that was not taken as a closure, which is all
kiji makes.  A throw goes to the first handler that applies in the frames around it.
Lists, hashes and iterators live in `heap`.  `composed` is the set of the classes whose
cache object_compose has replaced.

Semantics says what the same trees mean: scopes, values, loops and methods, by recursion
over the tree.  Where the repository has no text on the meaning of a construct it takes the
plain reading (a comparison chain compares neighbours, `last` leaves the nearest
loop), and no program of the passing run depends on a case the repository leaves
open.  A text is the sequence of numerals and names it was put together from, which
keeps "12" from two numbers apart from the number 12.

Promise is the abstract specification: a process appends the texts of its
program's meaning one by one, then ends.  `Implements == Promised!Spec`, with
`result` mapped through ("none" is "running"), is a PROPERTY of mcexec: compiling is
stuttering, each `say` is a WriteNext, the last return or an exception is the End,
and the process does end.

### Commander

One action is one turn of a loop of normalize_args or of command_parse_args, chosen
by what the turn finds, and then main's choices.  A token is a group of small flags (one
letter after the dash for a single flag), a long flag, `--` or a word.  Whatever is
left to the outside (a terminal on stdin, a file that does not open, a syntax
error) is a choice.  `alloc` counts the pointers nargv has room for.

### Join

One action is one turn of a loop.  Both passes run over the same list; an element is
concrete or not and has a text, which a stringification does not change.  `totals` is
a history variable, the sums after each turn of the first pass, by which the properties
and the invariant of the proofs relate the passes.

## Runs

| Run | Bounds | Properties |
|---|---|---|
| mcframes | 1 identifier, 4 nodes, 1 parameter, all kinds but `use` | TypeOK, ScopesNest, HandlersFindTheirFrame, WalkFollowsStack, RefsResolve, CodesNameFrames; LookupObeysScoping, LookupEnds |
| mclibraries | 1 sub name, 5 nodes: use, func (exportable or not), block, call | RefsResolve, CodesNameFrames, UseMarksItsFrame, FirstUsesImport |
| mcloops | (on MCTyping) `while`, `for`, `for ->`, block, `if`, `unless` around two statements and around each other, and two of them in a row in a `while`, with `next`, `last`, `say` | JumpsLand, LoopsLand, ThrowsReachTheirLoop, ThrowsStayInTheirLoop |
| mcexpressions | every operator on every operand type (int, num, str, variable, list), its results as operands once more, names, methods, in subs, lambdas, blocks, conditions, calls; and 0, 2, 5 or 110 to 126 statements of 12 bytes and one register, then one of seven kinds of branches, in the program, a sub or a lambda; Word is 128 | TypeOK, JumpsLand, RegistersTyped, NoAssertFails, CallsGetTheirArguments |
| mcexec | 113 programs: conditions, branches, loops in loops with `next` and `last`, calls with 0 to 4 arguments, defaults, recursion, lists, hashes, classes, errors | ArgumentsFit; Implements |
| mccommander | every command line of up to 3 of 12 tokens, or 4 of 5; MaxArgs is 3 | TypeOK, NargvFits, FlagsTakeEffect, EvalTakesTheNextWord, WordsKept; CommandEnds |
| mcjoin | lists of up to 3 elements with texts of up to 2 of 2 graphemes, or 4 with up to 1; separators of 0 to 2; MaxStrands is 5 | TypeOK, StrandsFit, PassesAgree, StrandsTile, JoinsTheTexts |
| mcuseaftersub | 3 nodes | UsesImport, violated |
| mcredo | one program | RedoLands, violated |
| mclongfor | one program, Word is 64 | JumpsLand, violated |
| mcsession | nine programs, one after the other | EachEndsAsMeant, violated |
| mcevalargs | one command line | ArgsReachTheProgram, violated |

What they show, and why the bounds are enough:

- *Scoping.*  One identifier is the hard case: all declarations collide, so that
  shadowing, redeclaration, `our` against `my`, and a bare word falling back to its
  sub all happen.  Four nodes make three nested frames and a reference, or two
  declarations on each side of a child's frame.  The theorems below lift the bound.
  LookupObeysScoping is about both ways a lookup can succeed: at a lexical, and at a
  package variable, where a `my` of the same frame must hide the `our`.
- *Libraries.*  Five nodes make a library with an exported sub that has a block in it,
  a library inside a library, and the call of the import.  FirstUsesImport is the
  promise of `is exportable` restricted to programs whose every `use` comes before any
  frame is closed; UsesImport states it without the restriction and fails at
  three nodes.
- *Loops.*  A handler range can go wrong against a loop around it, inside it, beside it, or
  across a block or lambda; three levels with a statement before or after each,
  and each next to each other, contain all of these.  `InnermostLoop` reads the loop off the C stack,
  ThrowsReachTheirLoop compares it with what MoarVM's search would find.  Left out is a
  loop right after a block, which takes what the block throws: that is a program of
  mcsession.  ThrowsStayInTheirLoop is about the throw's own frame and has no exception.  The run's module
  is MCTyping, so that before its first state TLC evaluates TypingAssumption,
  CallingAssumption and NestingAssumption: the certificates computed from the handlers'
  scripts (some 1160 programs of loops, every operator on every kind of operand as an
  expression, an argument, a default, a condition and the value of a body, programs an
  assertion stops, and, for the last two, calls of calls) are closed.
- *Expressions.*  The handlers branch on the register types of their operands only,
  and every operand type, basic or computed, reaches every operand position.  Left out
  of the passing sets are the values the code is known not to handle, each the
  subject of a violation run or of a noted hazard: a number where an int64 is wanted, a
  declaration or a void statement as a value, calls inside a method's arguments; and a
  string left of `==`, at which the compiler aborts on purpose (op_helper.c:339).
- *Widths.*  A field wraps when it is one too large, whatever its width.  With 128 values
  eleven statements are beyond the reach of a truncated jump and 126 use up the registers, in
  the middle of every kind of branch; the seventeen lengths from 110 on stop the
  compiler at every point of the statements that follow.  No program of the other
  sets comes near the limit of the registers.  No `for` is among the long ones: its
  jump back is what mclongfor refutes.  The other 16-bit operands (frames, lexicals,
  callsites) have no limit in the code and stay below Word here.
- *Execution.*  Each construct is run on operands that make it go every way: true,
  false, empty and undefined values; the first, second, third or no clause of an `if`;
  a loop left or cut short in a loop of each other kind, in place and from a
  block; an argument too few and one too many.  `next` leaves no last element of
  a `for`, a class is instantiated once, and no `for` without a lambda has `$_` used
  after an inner one: those are programs of mcsession.  Meaning is
  computed once per program by an evaluator that shares only module Values with
  the code under test.
- *Sessions.*  The nine programs on which kiji and the meaning of the program disagree:
  `$_` after an inner `for`, a class instantiated twice, a `join` in the argument of a
  `join`, a method after a nested class, `next` on the last element of a `for`, an
  integer plus a floating number, a declaration as the value of a sub, the return of
  a statement without a value, which the compiler means to refuse with a panic, and `next`
  in a block that a loop follows.  Each
  runs in a process of its own; the last state of the trace has all nine outcomes
  in `ran`, so that one run shows each of them wrong.  The passing runs leave
  these programs out (mcloops compiles `next` in a `for`, but runs nothing): what this
  run shows, no other would notice.
- *Command lines.*  What a turn does depends on its token, the next one, `literal` and
  the number of arguments.  Three tokens put a group before, after and between an
  `-e`, its word and `--`; four tokens of the few repeat -e after a word taken.
- *Join.*  Two elements make a separator, three put an undefined or empty one between
  others or first; MaxStrands 5 is reached by three elements.

A run that is expected to fail checks a property that a comment, an assertion or
a test of the repository states; PROJECT.json quotes it.

Fairness is stated where something must happen in the end, always of the same kind: a
sequential process that nothing preempts for good takes its next step.  In Frames it is
`WF_vars(WalkStep)`, a lookup loop that is running goes on, for LookupEnds; in
Exec `WF_allvars(ExecNext)`, for the end that Promise promises; in Commander
`WF_vars(Next)`, for CommandEnds.  Nothing is assumed of the program's nodes or of
the outside.  A compilation, process or parse that has ended stutters, so that deadlock
is checked everywhere but nowhere expected: no handler is ever stuck.

## Proofs

Frames_proofs proves, for every set of identifiers and node kinds and every MaxNodes
and MaxParams (BoundsAssumption: both are natural numbers, and nothing else),

    Invariance           Spec => []Inv
    TypeCorrectness      Spec => []TypeOK
    Nesting              Spec => []ScopesNest
    Resumption           Spec => []HandlersFindTheirFrame
    LookupFollowsStack   Spec => []WalkFollowsStack
    Scoping              Spec => LookupObeysScoping

ScopesNest is not inductive: popping keeps the stack a chain of outer pointers only if
the handler that closes is the one whose frame is on top.  HandlersFindTheirFrame is
not either: after a pop the new top must be the frame of the handler below, or of one
further down when those in between pushed no frame.  The invariant is

    Inv == TypeOK /\ Shape /\ WalkFollowsStack /\ WalkFits
    Shape == ScopesNest /\ HandlersFindTheirFrame /\ OpenOrdered

where OpenOrdered ties the stack of handlers to the stack of frames (their frames
occur in the same order, one for each handler that pushes) and WalkFits says which
kinds of name a lookup may want.  The actions fall into five kinds of step (in
place, suspend, resume, push a frame, pop a frame); a lemma for each kind shows
that Shape survives, a lemma for each action reduces it to a kind, and NextInv
collects them.  Scoping follows from WalkFollowsStack: the walk has passed no
declaration of the name, has counted the frames, and LexNo is the latest entry of
the frame it stops at; only FoundLexical ends a lookup well, and only
FoundPackageVariable, which has looked for a lexical first, turns one to `$?PACKAGE`.

FramesRefs_proofs adds

    Resolution           Spec => []RefsResolve
    FirstMark            Spec => []UseMarksItsFrame

RefsResolve says of every operand in every frame, finished or not, that it leads to
its name.  It is defined by a recursive function along the outer pointers, which no
prover unfolds by itself; `Points` says the same by a chain of frames that exists, and
a lemma derives the function's value from the chain, by a least counterexample.
A step only adds to a frame (`Adds`: the outer pointer stays, lexicals grow at the
end, the mark of a library stays), so that a chain once there stays, and the one operand
a lookup adds has the chain of the stack the lookup has just walked
(WalkFollowsStack).  `Lasting` collects what holds of the frames for good.

and, in its second half,

    Coding               Spec => []Codes
    Naming               Spec => []CodesNameFrames
    Bringing             Spec => []Importing
    Importation          Spec => []FirstUsesImport

They need to know what a step writes, not only that it keeps what was there: each
is shown to be in place, to push a frame, to close one, or to enter an export
(`Shaped`), and what it may write follows from the shape.  CodesNameFrames is not
inductive.  A sub patches the placeholder it has left when it closes, so that the entry
at func_pos must still be that placeholder, in the frame that is then on top; and the frame a
handler closes must be of the handler's kind.  Hence

    Codes == KindsMatch /\ EntriesName /\ ClosedAreCoded

FirstUsesImport looks at the import when it is done, which is too late: that nothing
is missing depends on where each export was entered and when.  `Importing` says that an
export is in the frame its outer pointers lead to (`FirstLead`: a library's or the root,
as long as each marked frame is one of a `use`, which is what its condition is for), that it is
not the main frame, whose number is that of the placeholders (`ExportsFit`), and that a
finished library has handed over all it has (`AllBrought`), to which nothing is added, because
an export climbs the stack and the library is no longer on it.

Commander_proofs, for all command lines and every MaxArgs (ArgvsAssumption: a command
line is a sequence of tokens that starts with the name of the program):

    TypeCorrectness      Spec => []TypeOK
    Allocation           Spec => []NargvFits
    FlagsHeard           Spec => []FlagsTakeEffect
    Words                Spec => []WordsKept
    NextWord             Spec => []EvalTakesTheNextWord

NargvFits needs `Room`: what alloc holds beyond nargv is one pointer for every
argument not yet normalised, and the NULL.  FlagsTakeEffect needs that exploding a
group loses no letter (`Explosion`), that nargv so far says of each flag what argv so far
says (`Faithful`), and that the dump flags are those of the tokens parsed so far (`Acted`);
a word -e takes has no flag in it.  The last two select words by what their neighbours
are, and the explosion of a group moves the neighbours apart.  `Parting` is their
invariant: the words of nargv so far that do not follow an -e are those of argv so far,
in the same order; the arguments so far are the words of the tokens parsed so far; and
`self->arg` and the code are what the last -e among them took.  The two recursive
functions that list words are determined turn by turn: one more token extends the list by
at most one, and what was listed of the tokens before stays.

Join_proofs, for all lists, separators and every MaxStrands:

    TypeCorrectness      Spec => []TypeOK
    Fit                  Spec => []StrandsFit
    Agreement            Spec => []PassesAgree
    EndToEnd             Spec => []StrandsTile
    Texts                Spec => []JoinsTheTexts
    NoInternalError      Spec => [](phase # "internalerror")

The invariant ties each turn of the second pass to the same turn of the first:
`Steps` and `Growing` are about the totals of the first pass, `Linking` says that after
an element the second has written that many strands and graphemes, so that it stays within
what was allocated.  `NoGraphsAlone` is for the list whose elements are all empty, where
the second pass does not run: no strands means no graphemes either.  `Telling` is for
Texts: the strands linked so far read as the text of the elements so far.

Codegen_proofs, for any set of programs, any scripts of handlers, any Garbage and any
Word greater than 2:

    Typed                Spec => []TypeOK
    RegistersAreTyped    Spec => []RegistersTyped
    JumpsAreResolved     Spec => [](ShortJumps => JumpsLand)
    HandlersLand         Spec => []LoopsLand

What a handler does is data to Codegen, a sequence of operations, and a bad sequence
(a jump to a label no one puts, a frame popped twice) would break each of these.  They
rest on an assumption that is the handlers' part of the contract, module Typing.  It
gives each operation a rule: what it needs in a context (`Constrained`), and the contexts
after it, one for each outcome (`Onward`).  A context says of an activation how many
frames it has pushed, whether the code of the one on top is empty or ends with a
return, what each C local holds (a register of a type in one of its frames, the number of a
frame, the start of a loop, where the code ended when a LOOP_ macro was executed) and which
labels are pending, solved or dead with their frame.
TypingAssumption says that a set of pairs (what is left to do, context) exists that holds
the start of every node's script and is closed under Onward.  It is a statement on
constants only, about Script alone and no behaviour; the run mcloops has TLC compute such a
set from Handlers and check it.  A handler that puts a label twice, or
LOOP_LAST in the wrong place, has none, and neither has `1 + 1.5`, whose coerce_ni
writes an integer to a register of the wrong type (op_helper.c:519).

The discipline takes an assertion of the code for what it is, a check at run time.  A
switch, a conditional branch or an assert on a local whose type the context does not
know is no fault (`Checked`): either the compiler stops there, and the
invariant must hold of what it leaves, or the local is from then on known to be a
register of that type (`Refined` is the lemma).  So the theorems cover programs an
assertion stops, such as the `my` and the void statement returned as a value, and
none of them says that no assertion fails.  LiteralsAssumption only says that the strings the
actions contain are strings, which the provers cannot tell.

What remains to be proved is what no handler can see: that handlers nest.  The
invariant `Inv` says that there are a context C[i], a node V[i] and a place B[i] on the
stack of frames for each activation i such that: the frames of the activations lie
on the stack one above the other (`Stacked`); what the running one has left is typed
in its context, and what a caller has left is typed in its context once it has been given any
of the values its callee may return (`Judged`); the locals and labels hold what the contexts say
(`Active`); and of the frames (`Filled`) the code is in order of its offsets,
every register operand is a local of the right type, every jump lands or is owed a patch by
a pending label of an activation that has this frame on its own part of the stack, and a
frame that is no longer open is owed nothing and ends with a return.  Frames of
a caller do not change while the callee runs but for the one both share, where code is only added
at the end; `Grows` and the lemmas ValuesLater and LabelsLater carry the caller's
knowledge across.

The premise of JumpsAreResolved is what the run mclongfor shows to be needed: the target of a
conditional branch back to a label is written in 16 bits, so that it is right if there are no
such branches (`ForwardOnly`: nothing but `for` makes one) or while no frame is longer
than Word bytes.

CodegenCalls_proofs, under the same assumptions and CallingAssumption:

    BufferInvariance     Spec => []CallsInv
    CallsServed          Spec => [](Len(cu.callsites) <= Word => CallsGetTheirArguments)

An invoke takes its arguments from a buffer that all calls of a frame share, and finds its
callsite by a number.  That no other call gets between is again half the handlers' affair:
module Calling says what a handler may do while it has arguments in the buffer.  A
`Buffer` of an activation is the slots it has passed and from which of its C locals, the
arguments its prepargs was for, the number of frames it has pushed, and whether a
caller has arguments in the frame it was called in (`quiet`).  An invoke needs that each of
its arguments is still there; a quiet handler may not write the buffer of its caller's
frame, but may do what it likes in a frame it pushes; and a handler with arguments in the
buffer may only call handlers that are quiet.  CallingAssumption says, as TypingAssumption
does, that a set of pairs is closed under these rules; TLC computes one from Handlers in
mcloops.  NODE_METHODCALL with a call among its arguments has none: it passes the invocant
before it compiles the arguments, and the run mcsession shows what comes of it.

The invariant `CallsInv` says that there is a buffer G[i] for each activation i, and that what it
says is so in the code: the last instruction that writes a slot is this handler's and
writes the type its local has (`Written`), and the last prepargs is this handler's and has
the number of a callsite with those types (`Prepared`).  It also says that callees on a frame with
arguments in it are quiet, for all callers below and not only the nearest (`Placed`),
that the local a callee's value goes to is none that was passed (`Forgotten`), and that a
patch never rewrites an argument (`Unpatched`, `NoneAtZero`).  An instruction appended by one
handler then leaves what all the others know as it was (`StaysBefore`, `StaysPlainly`), and an
invoke is `Furnished` when it is emitted and stays so, since code only grows and an entry of
the callsites never changes.  The premise is the limit of the operand: the callsite numbered
Word is written as 0 (the hazard at asm.c:121).

CodegenLoops_proofs, under TypingAssumption and NestingAssumption:

    LoopsInvariance      Spec => []LoopsInv
    ThrowsStay           Spec => []ThrowsStayInTheirLoop

A throw has an offset, and MoarVM gives it to the first handler of the frame whose range
contains it.  The handlers of a loop are only pushed when the loop ends
(Kiji_loop_finalize), so that until then nothing in the frame says where its throws will
go, and the property, which is about finished frames, is not inductive.  The handlers'
part is module Nesting: a `Turn` of an activation is the number of frames it has pushed and
whether its loop is yet to come, in progress or over; it enters one loop at most, in the frame
it was called in, leaves it in the same frame before it returns, and has nothing compiled or thrown
after that.  NestingAssumption says, as the others do, that a set of pairs is closed under
these rules, and TLC computes one from Handlers in mcloops.

The invariant `LoopsInv` says that there is a seat K[i] for each activation i: its id, the frame
it was called in, how far its loop is and where that starts.  The seats go with the stacks of
activations and frames (`Seated`), with the turns (`Guided`) and with the numbers of the
activations, which are given out once (`Recorded`).  In each frame (`Governed`) every throw is either
taken by a handler of its own loop, or no handler so far has it in its range and it is one of
two things: `Awaited`, when its loop is the innermost open one that starts before it, or `Outside`,
when its loop has no handler here and never will, and no loop of the frame is open around it.  A
loop that ends turns each throw it awaits into one that is taken, leaves the others alone because its range starts
after the start of every loop still open (`LeaveGoverned`), and throws emitted later lie
behind its end.  A frame that is finished has no open loop (`NoneOpen`), and what is left is the
property.

Only model-checked:

- ThrowsReachTheirLoop of Codegen, which follows a throw into the frames it was called from.  It is not
  true of all programs: a loop right after a block has the block's return address in
  its range and takes what the block throws (the run mcsession).  To prove it of the others one
  would have to say which they are, that is that no loop starts where a call of a frame with throws
  has ended.
- NoAssertFails of Codegen.  It is not true of all programs (mcsession has three an assertion
  stops), and a discipline without them would have to contain the assertions themselves.
- ArgumentsFit of Exec.  The theorems about Codegen hold for any scripts that keep the disciplines,
  but what the code does when it runs is defined for the values it is made for only; a proof would first
  need that each register holds a value of its type at run time, objects and frames included.
- LookupEnds, CommandEnds and Implements: liveness under fairness is out of the prover's
  reach, as is ENABLED.
- That the handlers keep the disciplines of Typing, Calling and Nesting for every tree, and everything about
  Semantics and Exec.  Handlers computes scripts by recursion over
  trees (`Elements` is RECURSIVE), Semantics evaluates trees by recursion, and what a recursive
  definition computes for every tree needs induction over data, which the
  installed provers cannot do.

## Not modelled

- MoarVM and pvip, which are not in the repository, beyond what kiji's use of them
  shows.  What the parser gives as a method's parameters and for an empty list of
  statements is therefore open; the hazards say so.
- NODE_METHOD and NODE_CLASS in Frames: to the frames they are a sub and a
  declaration.  NODE_USE in Codegen is a block; its imports are in Frames.
- Array.Str, Str's lc, uc and length, the methods of a file, and pairs: each is one
  call to MoarVM.
- The encoding of operands in bytes, the dumps, the REPL (disabled in the code), and the
  contents of the string pool.
- lib/*.p6, which are programs kiji compiles.

## Plan

1. ThrowsReachTheirLoop as a theorem: ThrowsStay settles the throw's own frame; for the frames
   around it, a discipline that keeps a loop from starting at the return address of a
   block that throws.
2. A closure that outlives its frame, and `return` out of a block, in Exec, once a test
   or a document of the repository says what they should do.
