------------------------------- MODULE Frames -------------------------------
(***************************************************************************)
(* The frames of a kiji compilation (src/src/frame.c, the frame half of     *)
(* src/src/compiler/core.c) driven by the node handlers that open and close *)
(* frames, declare names and refer to them (nd_control.c, nd_func.c,        *)
(* nd_ops.c, nd_literal.c).                                                 *)
(*                                                                         *)
(* A handler that compiles its children is split at that recursive call:    *)
(* the head is an Open action, which suspends the handler on `open' (the C  *)
(* call stack), and the tail is a Close action.  The loops that walk        *)
(* `->outer' pointers are one step per iteration, with the C locals in      *)
(* `walk'.  C counts frames and lexicals from 0, this module from 1; outer  *)
(* 0 is the NULL pointer.                                                   *)
(***************************************************************************)
EXTENDS Naturals, Sequences

CONSTANTS
  Ids,        \* the identifiers a program uses
  NodeKinds,  \* the kinds of node a program is made of
  MaxNodes,   \* bound: nodes in a program
  MaxParams   \* bound: parameters of one sub or lambda

VARIABLES
  frame,   \* self->cu->frames: every KijiFrame ever pushed
  frames,  \* self->frames: the stack of frames being compiled
  open,    \* the suspended handlers, innermost last
  walk,    \* the locals of the lookup loop in progress, or Idle
  nodes,   \* how many nodes of the program have been visited
  status   \* how the compilation stands

vars == <<frame, frames, open, walk, nodes, status>>

ASSUME BoundsAssumption ==
  /\ MaxNodes \in Nat
  /\ MaxParams \in Nat
-----------------------------------------------------------------------------
(* A name is a sigil and an identifier: `$x', `&f' (a sub) or a bare class. *)
Var(id)   == <<"$", id>>
Amp(id)   == <<"&", id>>
Bare(id)  == <<"", id>>
Name      == {"$", "&", ""} \X Ids
Package   == <<"$?", "PACKAGE">>
LexName   == Name \cup {Package}

FrameNodes == {"func", "lambda", "block", "use"}
Nodes      == FrameNodes \cup {"my", "our"}
Statuses   == {"compiling", "done", "exit", "panic", "crash"}

KijiFrame == [node       : FrameNodes \cup {"main"},  \* frame.name
              outer      : Nat,
              frame_type : {"normal", "use"},
              lexicals   : Seq(LexName),
              package_variables : SUBSET Name,
              exportables : Seq([name : LexName, frame_no : Nat]),
              refs  : SUBSET [lex : Nat, outer : Nat, name : LexName],
              codes : Seq(Nat)]                        \* GETCODE operands

(* frame_no is the frame the handler pushed (for `my' and `our', which push   *)
(* none, the top frame they started in); pos is func_pos, as an index of     *)
(* codes; todo the parameters still to expand; lex the C local lex_no.       *)
Handler == [node : Nodes, frame_no : Nat, pos : Nat, todo : Nat, lex : Nat]

Walk == [mode : {"variable", "lexical", "ident", "export"},
         want : LexName, at : Nat, outer : Nat, item : Nat]
Idle == [mode |-> "idle"]

TypeOK ==
  /\ frame  \in Seq(KijiFrame)
  /\ frames \in Seq(Nat)
  /\ open   \in Seq(Handler)
  /\ walk   \in Walk \cup {Idle}
  /\ nodes  \in 0..MaxNodes
  /\ status \in Statuses
-----------------------------------------------------------------------------
Top     == frames[Len(frames)]        \* Kiji_compiler_top_frame
Current == open[Len(open)]            \* the handler waiting for its child
Pop(s)  == SubSeq(s, 1, Len(s) - 1)

Declares(f, n) == \E i \in DOMAIN frame[f].lexicals : frame[f].lexicals[i] = n

(* The hash maps a name to the entry bound last.                            *)
LexNo(f, n) == CHOOSE i \in DOMAIN frame[f].lexicals :
                 /\ frame[f].lexicals[i] = n
                 /\ \A j \in DOMAIN frame[f].lexicals :
                      frame[f].lexicals[j] = n => j <= i

Ref(lex, outer, n) == [lex |-> lex, outer |-> outer, name |-> n]

(* Mutant: every frame hangs from the root.                                 *)
NewFrameFromRoot(node, outer) ==
  [node |-> node, outer |-> IF outer = 0 THEN 0 ELSE 1, frame_type |-> "normal",
   lexicals |-> <<>>, package_variables |-> {}, exportables |-> <<>>, refs |-> {}, codes |-> <<>>]

NewFrame(node, outer) ==
  [node |-> node, outer |-> outer, frame_type |-> "normal", lexicals |-> <<>>,
   package_variables |-> {}, exportables |-> <<>>, refs |-> {}, codes |-> <<>>]

(* Mutant: the index of the entry before the new one.                       *)
BindOffByOne(r, n) == [r EXCEPT !.lexicals = Append(@, n),
                                !.refs = @ \cup {Ref(Len(r.lexicals), 0, n)}]

(* Frame record r with n declared and bound on the spot: push_lexical, then *)
(* BINDLEX(lex, 0, reg).                                                    *)
Bind(r, n) == [r EXCEPT !.lexicals = Append(@, n),
                        !.refs = @ \cup {Ref(Len(r.lexicals) + 1, 0, n)}]

EmitRef(f, r)  == [frame EXCEPT ![f].refs = @ \cup {r}]
GetCode(r, f)  == [r EXCEPT !.codes = Append(@, f)]

Suspend(node, f, pos, todo, lex) ==
  open' = Append(open, [node |-> node, frame_no |-> f, pos |-> pos,
                        todo |-> todo, lex |-> lex])

StartWalk(mode, n, item) ==
  walk' = [mode |-> mode, want |-> n, at |-> Top, outer |-> 0, item |-> item]

Running == status = "compiling" /\ walk = Idle

(* A child may be compiled in a body, or as the default of a sub's parameter *)
(* that has just been pushed.                                               *)
CanCompileChild ==
  /\ Running
  /\ open # <<>> =>
       Current.todo = 0 \/ (Current.node = "func" /\ frame[Top].lexicals # <<>>)

(* The next node of the program is of the given kind.                        *)
Visit(kind) ==
  /\ CanCompileChild
  /\ kind \in NodeKinds /\ nodes < MaxNodes
  /\ nodes' = nodes + 1

Init ==
  /\ frame  = <<Bind(NewFrame("main", 0), Package)>>
  /\ frames = <<1>>
  /\ open   = <<>>
  /\ walk   = Idle
  /\ nodes  = 0
  /\ status = "compiling"
-----------------------------------------------------------------------------
(* Handlers that declare a name in the top frame.                           *)

(* `our $x': NODE_OUR.                                                      *)
Our(id) ==
  /\ Visit("our")
  /\ frame' = [frame EXCEPT ![Top].package_variables = @ \cup {Var(id)}]
  /\ UNCHANGED <<frames, open, walk, status>>

(* `my $x' without an initialiser: NODE_MY.                                 *)
My(id) ==
  /\ Visit("my")
  /\ frame' = [frame EXCEPT ![Top].lexicals = Append(@, Var(id))]
  /\ UNCHANGED <<frames, open, walk, status>>

(* The `$_' of a for without a lambda, or the name of a class after its body.*)
DeclareBound(n) ==
  /\ Visit("bound")
  /\ frame' = [frame EXCEPT ![Top] = Bind(@, n)]
  /\ UNCHANGED <<frames, open, walk, status>>

(* `my $x := rhs' declares, compiles rhs, then emits BINDLEX(lex_no, 0).    *)
OpenBindMy(id) ==
  /\ Visit("my :=")
  /\ frame' = [frame EXCEPT ![Top].lexicals = Append(@, Var(id))]
  /\ Suspend("my", Top, 0, 0, Len(frame[Top].lexicals) + 1)
  /\ UNCHANGED <<frames, walk, status>>

CloseBindMy ==
  /\ Running /\ open # <<>> /\ Current.node = "my"
  /\ frame' = EmitRef(Top, Ref(Current.lex, 0, frame[Top].lexicals[Current.lex]))
  /\ open'  = Pop(open)
  /\ UNCHANGED <<frames, walk, status, nodes>>

(* `our $x := rhs' declares, compiles rhs, then looks up $?PACKAGE.         *)
OpenBindOur(id) ==
  /\ Visit("our :=")
  /\ frame' = [frame EXCEPT ![Top].package_variables = @ \cup {Var(id)}]
  /\ Suspend("our", Top, 0, 0, 0)
  /\ UNCHANGED <<frames, walk, status>>

CloseBindOur ==
  /\ Running /\ open # <<>> /\ Current.node = "our"
  /\ open' = Pop(open)
  /\ StartWalk("lexical", Package, 0)
  /\ UNCHANGED <<frame, frames, status, nodes>>
-----------------------------------------------------------------------------
(* Handlers that open a frame.                                              *)

PushFrame(fs, node) ==
  /\ frame'  = Append(fs, NewFrame(node, Top))
  /\ frames' = Append(frames, Len(frame) + 1)

(* NODE_FUNC: bind &name in the enclosing frame to GETCODE 0, to be patched  *)
(* when the body is done, and push the frame of the body.                   *)
OpenFunc(id, exportable, params) ==
  /\ Visit("func")
  /\ PushFrame([frame EXCEPT ![Top] = GetCode(Bind(@, Amp(id)), 1)], "func")
  /\ Suspend("func", Len(frame) + 1, Len(frame[Top].codes) + 1, params, 0)
  /\ walk' = IF exportable
             THEN [mode |-> "export", want |-> Amp(id), at |-> Len(frame) + 1,
                   outer |-> 0, item |-> Len(frame) + 1]
             ELSE Idle
  /\ UNCHANGED status

(* NODE_LAMBDA and NODE_BLOCK.                                              *)
OpenScope(node, params) ==
  /\ Visit(node)
  /\ PushFrame(frame, node)
  /\ Suspend(node, Len(frame) + 1, 0, params, 0)
  /\ UNCHANGED <<walk, status>>

(* Mutant: the parameter counter advances twice (nd_func.c:54).             *)
ParameterTwice(id) ==
  /\ Running /\ open # <<>> /\ Current.todo > 0
  /\ frame' = [frame EXCEPT ![Top] = Bind(@, Var(id))]
  /\ open'  = [open EXCEPT ![Len(open)].todo = @ - 2]
  /\ UNCHANGED <<frames, walk, status, nodes>>

(* One parameter of a sub or lambda: push_lexical and BINDLEX.              *)
Parameter(id) ==
  /\ Running /\ open # <<>> /\ Current.todo > 0
  /\ frame' = [frame EXCEPT ![Top] = Bind(@, Var(id))]
  /\ open'  = [open EXCEPT ![Len(open)].todo = @ - 1]
  /\ UNCHANGED <<frames, walk, status, nodes>>

(* Mutant: the frame below the library's is marked.                         *)
OpenUseMarksBelow ==
  /\ Visit("use")
  /\ frame'  = [Append(frame, NewFrame("use", Top)) EXCEPT ![Top].frame_type = "use"]
  /\ frames' = Append(frames, Len(frame) + 1)
  /\ Suspend("use", Len(frame) + 1, 0, 0, 0)
  /\ UNCHANGED <<walk, status>>

(* NODE_USE marks self->frames[frame_no], an index of cu->frames used in the *)
(* stack: when they differ it writes past the end of the stack, which may    *)
(* crash, hit no frame at all, or hit a frame a stale pointer leads to.      *)
OpenUse ==
  /\ Visit("use")
  /\ LET no  == Len(frame) + 1
         fs  == Append(frame, NewFrame("use", Top))
         stk == Append(frames, no)
         Mark(f) == [fs EXCEPT ![f].frame_type = "use"]
     IN /\ frames' = stk
        /\ IF no \in DOMAIN stk
           THEN frame' = Mark(stk[no]) /\ UNCHANGED status
           ELSE \/ frame' = fs /\ UNCHANGED status
                \/ \E stale \in DOMAIN frame : frame' = Mark(stale) /\ UNCHANGED status
                \/ frame' = fs /\ status' = "crash"
  /\ Suspend("use", Len(frame) + 1, 0, 0, 0)
  /\ UNCHANGED walk
-----------------------------------------------------------------------------
(* The tails of those handlers, after Kiji_compiler_pop_frame.              *)

(* Mutant: no Kiji_compiler_pop_frame.                                      *)
ClosingWithoutPop(node) ==
  /\ Running /\ open # <<>> /\ Current.node = node /\ Current.todo = 0
  /\ open' = Pop(open)
  /\ UNCHANGED <<frames, walk, status, nodes>>

Closing(node) ==
  /\ Running /\ open # <<>> /\ Current.node = node /\ Current.todo = 0
  /\ frames' = Pop(frames)
  /\ open'   = Pop(open)
  /\ UNCHANGED <<walk, status, nodes>>

(* Mutant: the placeholder is never patched.                                *)
CloseFuncUnpatched == Closing("func") /\ UNCHANGED frame

(* ASM_WRITE_UINT16_T(frame_no, func_pos) writes in the new top frame.      *)
CloseFunc ==
  /\ Closing("func")
  /\ frame' = [frame EXCEPT ![Pop(frames)[Len(frames) - 1]].codes[Current.pos]
                 = Current.frame_no]

CloseScope(node) ==
  /\ Closing(node)
  /\ frame' = [frame EXCEPT ![Pop(frames)[Len(frames) - 1]] = GetCode(@, Current.frame_no)]

(* Mutants: lexicals numbered from the first import; no code for the library.*)
ImportFromZero(r, exports, lib) ==
  LET n == Len(exports)
  IN [r EXCEPT
       !.lexicals = @ \o [i \in 1..n |-> exports[i].name],
       !.refs     = @ \cup {Ref(i, 0, exports[i].name) : i \in 1..n},
       !.codes    = Append(@ \o [i \in 1..n |-> exports[i].frame_no], lib)]
ImportUncalled(r, exports, lib) ==
  LET n == Len(exports)
      m == Len(r.lexicals)
  IN [r EXCEPT
       !.lexicals = @ \o [i \in 1..n |-> exports[i].name],
       !.refs     = @ \cup {Ref(m + i, 0, exports[i].name) : i \in 1..n},
       !.codes    = @ \o [i \in 1..n |-> exports[i].frame_no]]

(* What NODE_USE leaves in the using frame r: one GETCODE and one lexical    *)
(* for each export of the library, then the GETCODE of the library itself.   *)
Import(r, exports, lib) ==
  LET n == Len(exports)
      m == Len(r.lexicals)
  IN [r EXCEPT
       !.lexicals = @ \o [i \in 1..n |-> exports[i].name],
       !.refs     = @ \cup {Ref(m + i, 0, exports[i].name) : i \in 1..n},
       !.codes    = Append(@ \o [i \in 1..n |-> exports[i].frame_no], lib)]

CloseUse ==
  /\ Closing("use")
  /\ frame' = [frame EXCEPT ![Pop(frames)[Len(frames) - 1]] =
                 Import(@, frame[Top].exportables, Current.frame_no)]
-----------------------------------------------------------------------------
(* Names looked up along the outer chain.                                   *)

(* NODE_VARIABLE, a `:=' or an increment of $x: find_variable_by_name.      *)
UseVariable(id) ==
  /\ Visit("variable") /\ StartWalk("variable", Var(id), 0)
  /\ UNCHANGED <<frame, frames, open, status>>

(* f(...): find_lexical_by_name of &f.                                      *)
CallSub(id) ==
  /\ Visit("call") /\ StartWalk("lexical", Amp(id), 0)
  /\ UNCHANGED <<frame, frames, open, status>>

(* A bare word: a lexical of that name, else the sub of that name.          *)
UseIdent(id) ==
  /\ Visit("ident") /\ StartWalk("ident", Bare(id), 0)
  /\ UNCHANGED <<frame, frames, open, status>>

Looking == status = "compiling" /\ walk # Idle /\ walk.mode # "export"
IsPackageVariable(f) ==
  walk.mode = "variable" /\ walk.want \in frame[f].package_variables

(* Mutant: the outer count of the lookup is dropped.                        *)
FoundLexicalHere ==
  /\ Looking /\ walk.at # 0 /\ Declares(walk.at, walk.want)
  /\ frame' = EmitRef(Top, Ref(LexNo(walk.at, walk.want), 0, walk.want))
  /\ walk'  = Idle
  /\ UNCHANGED <<frames, open, status, nodes>>

FoundLexical ==
  /\ Looking /\ walk.at # 0 /\ Declares(walk.at, walk.want)
  /\ frame' = EmitRef(Top, Ref(LexNo(walk.at, walk.want), walk.outer, walk.want))
  /\ walk'  = Idle
  /\ UNCHANGED <<frames, open, status, nodes>>

(* Mutant: a package variable hides the lexical of its name in its own frame. *)
FoundPackageVariableFirst ==
  /\ Looking /\ walk.at # 0
  /\ IsPackageVariable(walk.at)
  /\ StartWalk("lexical", Package, 0)
  /\ UNCHANGED <<frame, frames, open, status, nodes>>

(* A package variable is an entry of $?PACKAGE, which is looked up in turn. *)
FoundPackageVariable ==
  /\ Looking /\ walk.at # 0
  /\ ~ Declares(walk.at, walk.want) /\ IsPackageVariable(walk.at)
  /\ StartWalk("lexical", Package, 0)
  /\ UNCHANGED <<frame, frames, open, status, nodes>>

(* Mutant: the frames climbed are not counted.                              *)
WalkOuterUncounted ==
  /\ Looking /\ walk.at # 0
  /\ ~ Declares(walk.at, walk.want) /\ ~ IsPackageVariable(walk.at)
  /\ walk' = [walk EXCEPT !.at = frame[walk.at].outer]
  /\ UNCHANGED <<frame, frames, open, status, nodes>>

WalkOuter ==
  /\ Looking /\ walk.at # 0
  /\ ~ Declares(walk.at, walk.want) /\ ~ IsPackageVariable(walk.at)
  /\ walk' = [walk EXCEPT !.at = frame[walk.at].outer, !.outer = @ + 1]
  /\ UNCHANGED <<frame, frames, open, status, nodes>>

(* Mutant: a bare word is looked up again, without the ampersand.           *)
NotFoundRetries ==
  /\ Looking /\ walk.at = 0
  /\ IF walk.mode = "ident"
     THEN StartWalk("ident", walk.want, 0) /\ UNCHANGED status
     ELSE /\ walk'   = Idle
          /\ status' = IF walk.mode = "variable" THEN "exit" ELSE "panic"
  /\ UNCHANGED <<frame, frames, open, nodes>>

NotFound ==
  /\ Looking /\ walk.at = 0
  /\ IF walk.mode = "ident"
     THEN StartWalk("lexical", Amp(walk.want[2]), 0) /\ UNCHANGED status
     ELSE /\ walk'   = Idle
          /\ status' = IF walk.mode = "variable" THEN "exit" ELSE "panic"
  /\ UNCHANGED <<frame, frames, open, nodes>>

(* Kiji_frame_add_exportable: climb to the USE frame, or to the root.       *)
Exporting == status = "compiling" /\ walk # Idle /\ walk.mode = "export"
(* Mutant: only the root collects exports.                                  *)
StopsAtRoot(f) == frame[f].outer = 0
StopsAt(f) == frame[f].outer = 0 \/ frame[f].frame_type = "use"

WalkToLibrary ==
  /\ Exporting /\ ~ StopsAt(walk.at)
  /\ walk' = [walk EXCEPT !.at = frame[walk.at].outer, !.outer = @ + 1]
  /\ UNCHANGED <<frame, frames, open, status, nodes>>

AddExportable ==
  /\ Exporting /\ StopsAt(walk.at)
  /\ frame' = [frame EXCEPT ![walk.at].exportables =
                 Append(@, [name |-> walk.want, frame_no |-> walk.item])]
  /\ walk'  = Idle
  /\ UNCHANGED <<frames, open, status, nodes>>

(* Kiji_compiler_compile returns.                                           *)
Finish ==
  /\ Running /\ open = <<>>
  /\ status' = "done"
  /\ UNCHANGED <<frame, frames, open, walk, nodes>>

Terminated == status # "compiling" /\ UNCHANGED vars
-----------------------------------------------------------------------------
Declare ==
  \E id \in Ids : \/ Our(id) \/ My(id) \/ OpenBindMy(id) \/ OpenBindOur(id)
                  \/ DeclareBound(Var(id)) \/ DeclareBound(Bare(id))

Open ==
  \/ \E id \in Ids, e \in BOOLEAN, n \in 0..MaxParams : OpenFunc(id, e, n)
  \/ \E n \in 0..MaxParams : OpenScope("lambda", n)
  \/ OpenScope("block", 0)
  \/ OpenUse

Close ==
  \/ CloseBindMy \/ CloseBindOur \/ CloseFunc \/ CloseUse
  \/ CloseScope("lambda") \/ CloseScope("block")

Refer == \E id \in Ids : UseVariable(id) \/ CallSub(id) \/ UseIdent(id)

WalkStep == \/ FoundLexical \/ FoundPackageVariable \/ WalkOuter \/ NotFound
            \/ WalkToLibrary \/ AddExportable

Next == \/ Declare \/ Open \/ Close \/ Refer \/ WalkStep
        \/ \E id \in Ids : Parameter(id)
        \/ Finish \/ Terminated

Spec == Init /\ [][Next]_vars

(* The compiler is sequential code that keeps running.                      *)
FairSpec == Spec /\ WF_vars(WalkStep)
-----------------------------------------------------------------------------
(* Properties.                                                              *)

Parent(i) == IF i = 1 THEN 1 ELSE open[i - 1].frame_no

(* The stack is the static scope: it starts at the main frame, it grows in   *)
(* compunit order and each frame's outer pointer is the frame below it, so   *)
(* the `outer' count a lookup emits is a distance on the stack.              *)
ScopesNest ==
  /\ frames # <<>> /\ frames[1] = 1
  /\ \A i \in DOMAIN frames :
       /\ frames[i] \in DOMAIN frame
       /\ frame[frames[i]].outer = IF i = 1 THEN 0 ELSE frames[i - 1]
       /\ i > 1 => frames[i - 1] < frames[i]

(* Whatever its children pushed and popped, a resumed handler finds on top   *)
(* the frame it left there, below which is the frame of its caller; a sub's  *)
(* placeholder is still GETCODE 0 at func_pos of that caller's frame.        *)
HandlersFindTheirFrame ==
  /\ Top = IF open = <<>> THEN 1 ELSE Current.frame_no
  /\ \A i \in DOMAIN open :
       IF open[i].node \in FrameNodes
       THEN /\ open[i].frame_no \in DOMAIN frame
            /\ frame[open[i].frame_no].outer = Parent(i)
            /\ open[i].node = "func" =>
                 /\ open[i].pos \in DOMAIN frame[Parent(i)].codes
                 /\ frame[Parent(i)].codes[open[i].pos] = 1
       ELSE open[i].frame_no = Parent(i)

(* A lookup in progress has climbed exactly `outer' frames of the stack and  *)
(* passed no frame that declares the name.                                   *)
WalkFollowsStack ==
  walk # Idle =>
    /\ walk.outer <= Len(frames)
    /\ walk.at = IF walk.outer = Len(frames) THEN 0
                 ELSE frames[Len(frames) - walk.outer]
    /\ walk.mode # "export" =>
         \A i \in (Len(frames) - walk.outer + 1)..Len(frames) :
           /\ ~ Declares(frames[i], walk.want)
           /\ ~ IsPackageVariable(frames[i])

(* What lexical scoping prescribes for n, read off the stack: the innermost  *)
(* enclosing declaration, the latest one of its frame.                       *)
IsScopeRule(r, n) ==
  \E i \in DOMAIN frames :
    /\ Declares(frames[i], n)
    /\ \A j \in DOMAIN frames : j > i => ~ Declares(frames[j], n)
    /\ r = Ref(LexNo(frames[i], n), Len(frames) - i, n)

(* n names an `our' variable: no lexical of its name is as near.             *)
IsPackageRule(n) ==
  \E i \in DOMAIN frames :
    /\ n \in frame[frames[i]].package_variables
    /\ \A j \in DOMAIN frames : j >= i => ~ Declares(frames[j], n)

(* A lookup that succeeds emits the (lex, outer) pair lexical scoping        *)
(* prescribes, and no frame nearer than that declares the name with `our';   *)
(* it goes on to $?PACKAGE only for a name whose nearest declaration is one   *)
(* with `our', which a lexical of the same frame hides.                      *)
LookupObeysScoping ==
  [][ /\ Looking /\ walk' = Idle /\ status' = status =>
           \E r \in frame'[Top].refs :
             /\ IsScopeRule(r, walk.want)
             /\ \A j \in DOMAIN frames :
                  j > Len(frames) - r.outer => ~ IsPackageVariable(frames[j])
      /\ Looking /\ walk.mode = "variable" /\ walk'.mode = "lexical" =>
           IsPackageRule(walk.want) ]_vars

(* The frame reached from f by k outer pointers, as GETLEX does at run time. *)
Up(f, k) ==
  LET up[i \in 0..k] ==
        IF i = 0 THEN f ELSE IF up[i - 1] = 0 THEN 0 ELSE frame[up[i - 1]].outer
  IN up[k]

(* Every (lex, outer) operand ever emitted leads, along the outer pointers   *)
(* of the finished frames, to a lexical of the name it was emitted for.      *)
RefsResolve ==
  \A f \in DOMAIN frame : \A r \in frame[f].refs :
    LET target == Up(f, r.outer) IN
      /\ target \in DOMAIN frame
      /\ r.lex \in DOMAIN frame[target].lexicals
      /\ frame[target].lexicals[r.lex] = r.name

Placeholder(g, i) ==
  \E h \in DOMAIN open : open[h].node = "func" /\ Parent(h) = g /\ open[h].pos = i

OnStack(f) == \E i \in DOMAIN frames : frames[i] = f

ImportedInto(g, f) ==
  \E u \in DOMAIN frame :
    /\ frame[u].node = "use" /\ frame[u].outer = g
    /\ \E i \in DOMAIN frame[u].exportables : frame[u].exportables[i].frame_no = f

(* GETCODE operands are patched in the right frame: each names a frame       *)
(* nested directly in the frame that holds it or imported into it, unless    *)
(* its sub is still being compiled; and no finished frame is left unnamed.   *)
CodesNameFrames ==
  /\ \A g \in DOMAIN frame : \A i \in DOMAIN frame[g].codes :
       LET f == frame[g].codes[i] IN
         Placeholder(g, i) \/ frame[f].outer = g \/ ImportedInto(g, f)
  /\ \A f \in DOMAIN frame :
       ~ OnStack(f) =>
         \E i \in DOMAIN frame[frame[f].outer].codes :
           frame[frame[f].outer].codes[i] = f

(* No frame had been closed when frame u was pushed: cu->frames and the       *)
(* stack had the same length.                                                *)
NothingClosedBefore(u) == \A g \in 1..(u - 1) : frame[g + 1].outer = g

(* NODE_USE marks its own frame when nothing was closed before it.            *)
UseMarksItsFrame ==
  \A u \in DOMAIN frame :
    frame[u].node = "use" /\ NothingClosedBefore(u) => frame[u].frame_type = "use"

(* The library whose text the sub of frame f is part of.                    *)
IsLibraryOf(u, f) ==
  \E k \in 0..f : /\ Up(f, k) = u
                  /\ \A j \in 0..(k - 1) : frame[Up(f, j)].node # "use"

(* Once `use' has returned, every exportable sub of library u is a lexical   *)
(* of the using frame, and a GETCODE there names its frame.                  *)
Imported(u) ==
  \A g \in DOMAIN frame : \A i \in DOMAIN frame[g].exportables :
    LET e == frame[g].exportables[i] IN
      IsLibraryOf(u, e.frame_no) =>
        /\ Declares(frame[u].outer, e.name)
        /\ \E c \in DOMAIN frame[frame[u].outer].codes :
             frame[frame[u].outer].codes[c] = e.frame_no

FinishedLibrary(u) == frame[u].node = "use" /\ ~ OnStack(u)

(* `use' imports what a library exports, as t/14_test.t relies on, in a      *)
(* program whose every `use' comes before the first frame is closed.         *)
FirstUsesImport ==
  (\A u \in DOMAIN frame : frame[u].node = "use" => NothingClosedBefore(u)) =>
    \A u \in DOMAIN frame : FinishedLibrary(u) => Imported(u)

(* The same wherever the `use' stands.                                       *)
UsesImport == \A u \in DOMAIN frame : FinishedLibrary(u) => Imported(u)

(* Every lookup ends: it finds the name, reaches the root, or stops the      *)
(* compiler.                                                                *)
LookupEnds == walk # Idle ~> walk = Idle
=============================================================================
