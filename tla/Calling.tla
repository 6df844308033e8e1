------------------------------- MODULE Calling -------------------------------
(***************************************************************************)
(* The discipline the node handlers keep with the argument buffer of a frame *)
(* (nd_func.c): between the arguments a handler passes and its invoke,       *)
(* nothing else it does or calls may write the buffer.                      *)
(*                                                                         *)
(* A buffer b says, of one activation: how many frames it has pushed (depth), *)
(* which slots of the frame on top it has passed the value of which of its   *)
(* locals (passed), the arguments of the prepargs that waits for an invoke   *)
(* (ready: at most one), and whether a caller has arguments in the frame the  *)
(* activation was called in (quiet).                                        *)
(***************************************************************************)
EXTENDS Scripts

CONSTANT Buffers  \* for a node, pairs of what its handler has left to do and its buffer then

Buffer(quiet, depth, passed, ready) ==
  [quiet |-> quiet, depth |-> depth, passed |-> passed, ready |-> ready]
Clear(quiet) == Buffer(quiet, 0, {}, {})
Silent(b)    == b.quiet /\ b.depth = 0
Holding(b)   == b.passed # {} \/ b.ready # {}

Forgets(b, vs) ==
  Buffer(b.quiet, b.depth, {p \in b.passed : p[2] \notin vs},
         {args \in b.ready : \A i \in DOMAIN args : args[i] \notin vs})
Empties(b, depth)  == Buffer(b.quiet, depth, {}, {})
Prepares(b, args)  == Buffer(b.quiet, b.depth, b.passed, {args})
Passes(b, slot, v) ==
  Buffer(b.quiet, b.depth, {p \in b.passed : p[1] # slot} \cup {<<slot, v>>}, b.ready)

Served(b) == \E args \in b.ready : \A i \in DOMAIN args : <<i - 1, args[i]>> \in b.passed

Permitted(op, b) ==
  /\ op.op = "emit" =>
       /\ op.name # "prepargs"
       /\ IsInvoke(op.name) => Served(b)
       /\ IsArgument(op.name) \/ IsInvoke(op.name) => ~ Silent(b)
  /\ op.op = "prepargs" => ~ Silent(b)
  /\ op.op = "popframe" => b.depth > 0
  /\ op.op = "return" => b.depth = 0

(* The buffer after the operation.                                           *)
Told(op, b) ==
  CASE op.op = "emit" /\ IsInvoke(op.name)   -> Empties(b, b.depth)
    [] op.op = "emit" /\ IsArgument(op.name) -> Passes(b, op.val, op.args[1])
    [] op.op = "prepargs"  -> Prepares(b, op.args)
    [] op.op = "pushframe" -> Empties(b, b.depth + 1)
    [] op.op = "popframe"  -> Empties(b, b.depth - 1)
    [] OTHER -> Forgets(b, Assigned(op))

(* Whoever has arguments in the buffer calls quiet handlers only, and these    *)
(* do so in their turn.                                                     *)
BuffersNode(T, n, quiet) == n \in DOMAIN T /\ <<Script(n), Clear(quiet)>> \in T[n]
Orderly(T) ==
  \A n \in DOMAIN T : \A t \in T[n] : t[1] # <<>> =>
    LET op == t[1][1] IN
      /\ Permitted(op, t[2])
      /\ \A todo \in Ways(t[1]) : <<todo, Told(op, t[2])>> \in T[n]
      /\ op.op = "child" => BuffersNode(T, op.node, Silent(t[2]) \/ Holding(t[2]))

Buffering(T) ==
  /\ Orderly(T)
  /\ \A p \in Programs : p \in DOMAIN T /\ <<MainScript(p), Clear(FALSE)>> \in T[p]

ASSUME CallingAssumption == Buffering(Buffers)
=============================================================================
