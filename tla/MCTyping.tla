------------------------------ MODULE MCTyping ------------------------------
(* The handlers of kiji keep the discipline of module Typing.               *)
EXTENDS MCCodegen, Typing, Calling, Nesting, TLC, FiniteSets

(* The kinds of value of a node; of a sum, by that of its first operand, whose  *)
(* type is asserted if it is not known.                                     *)
Sums(t) == CASE t = "int64" -> {"int64"}
             [] t \in {"num64", "str", "obj"} -> {"num64"}
             [] OTHER -> {"int64", "num64"}
RECURSIVE Value(_)
Value(n) ==
  CASE n.kind \in {"int", "band", "+&=", "+^", "+>", "not", "abs", "say", "print"} -> {"int64"}
    [] n.kind \in {"num", "+=", "+"} -> {"num64"}
    [] n.kind \in {"str", "~=", "x=", "~", "concat", "x", "slurp"} -> {"str"}
    [] n.kind \in {"add", "-"} -> UNION {Sums(t) : t \in Value(n.kids[1])}
    [] n.kind = "chain"  -> IF Len(n.kids) = 1 THEN Value(n.kids[1]) ELSE {"int64"}
    [] n.kind = "unless" -> Value(n.kids[2])
    [] n.kind = "statements" -> IF n.kids = <<>> THEN {"integer"} ELSE Value(n.kids[Len(n.kids)])
    [] n.kind \in {"my", "push"} -> {"integer"}
    [] n.kind \in {"our", "nop", "module", "return", "die", "while", "for", "block"} -> {"unknown"}
    [] OTHER -> {"obj"}
ValueKinds(n) == {IF t \in RegTypes THEN Register(t, 0) ELSE Kind(t, "none", 0) : t \in Value(n)}

(* What can be reached from the typings ts, of which the last found are new. *)
RECURSIVE Reached(_, _), Subtrees(_)
Reached(ts, new) ==
  IF new = {} THEN ts
  ELSE UNION {Reached(ts \cup next, next) :
                next \in {UNION {Onward(t[1], t[2]) : t \in new} \ ts}}
Subtrees(n) == {n} \cup UNION {Subtrees(n.kids[i]) : i \in DOMAIN n.kids}
Parts == {"params", "param", "name", "elsif", "else", "eq", "streq"}
TypingsOf(programs) ==
  [n \in {m \in UNION {Subtrees(p) : p \in programs} : m.kind \notin Parts} |->
     LET first == {<<Script(n), Start(Results(n))>>}
                  \cup (IF n.kind = "statements" THEN {<<MainScript(n), MainStart>>} ELSE {})
     IN Reached(first, first)]

(* Every kind of node, each expression in one other.                        *)
Shallow == {WithAll(p) : p \in UNION {Bodies(e) : e \in Any0} \cup Expr1}

(* Programs an assertion or abort() stops the compiler at: a string compared, a *)
(* declaration or nothing at all where a value is wanted.                    *)
Nothing == N("for", <<list, int>>)
Stopped ==
  {WithAll(p) : p \in
     {N("chain", <<str, N("eq", <<int>>)>>), Sub(NoParams, <<Leaf("my")>>),
      Sub(NoParams, <<N("return", <<Nothing>>)>>), N("call", <<name, Leaf("my")>>)}
     \cup UNION {{N("while", <<v, Stmts(<<int>>)>>), N("if", <<v, int>>), Say1(v),
                 N("cond", <<v, int, int>>), N("add", <<v, int>>), N("bind", <<var, v>>)} :
                  v \in {Leaf("my"), Nothing}}}
Certified   == LoopPrograms \cup Shallow \cup Stopped
Certificate == TypingsOf(Certified)

(* The same for module Calling, calls of calls included.  A node that has no    *)
(* call in it may be called with arguments in the buffer.                     *)
RECURSIVE Following(_, _)
Following(ts, new) ==
  IF new = {} THEN ts
  ELSE UNION {Following(ts \cup next, next) :
                next \in {UNION {{<<todo, Told(t[1][1], t[2])>> : todo \in Ways(t[1])} :
                                   t \in {u \in new : u[1] # <<>>}} \ ts}}
CallsNothing(n) ==
  \A m \in Subtrees(n) : m.kind \notin {"call", "method", "itmethod", "ident", "block", "for"}
CallsOfCalls == {WithAll(p) : p \in OfAny(Calls1, {int})}
BufferCertificate ==
  [n \in {m \in UNION {Subtrees(p) : p \in Certified \cup CallsOfCalls} :
            m.kind \notin Parts} |->
     LET first == {<<Script(n), Clear(FALSE)>>}
                  \cup (IF n.kind = "statements" THEN {<<MainScript(n), Clear(FALSE)>>} ELSE {})
                  \cup (IF CallsNothing(n) THEN {<<Script(n), Clear(TRUE)>>} ELSE {})
     IN Following(first, first)]

(* The same for module Nesting.                                             *)
RECURSIVE Turning(_, _)
Turning(ts, new) ==
  IF new = {} THEN ts
  ELSE UNION {Turning(ts \cup next, next) :
                next \in {UNION {{<<todo, Turned(t[1][1], t[2])>> : todo \in Ways(t[1])} :
                                   t \in {u \in new : u[1] # <<>>}} \ ts}}
TurnCertificate ==
  [n \in {m \in UNION {Subtrees(p) : p \in Certified \cup CallsOfCalls} :
            m.kind \notin Parts} |->
     LET first == {<<Script(n), Turn(0, "none")>>}
                  \cup (IF n.kind = "statements" THEN {<<MainScript(n), Turn(0, "never")>>} ELSE {})
     IN Turning(first, first)]
=============================================================================
