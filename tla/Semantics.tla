------------------------------ MODULE Semantics ------------------------------
(***************************************************************************)
(* What a kiji program means: an evaluator of syntax trees, which knows      *)
(* nothing of registers, frames, jumps, handlers or callsites.              *)
(*                                                                         *)
(* The state s of an evaluation has the scopes opened so far and the current *)
(* one, the lists, the texts written, the value of the last expression and   *)
(* how it ended: "go", "next", "last", "return" or "died".                   *)
(***************************************************************************)
EXTENDS Values, FiniteSets, TLC
LOCAL INSTANCE SequencesExt
-----------------------------------------------------------------------------
Fresh == [scopes |-> <<[vars |-> <<>>, parent |-> 0]>>, cur |-> 1, lists |-> <<>>,
          out |-> <<>>, val |-> Null, how |-> "go"]

Gives(s, x) == [s EXCEPT !.val = x]
Died(s)     == [s EXCEPT !.how = "died"]
Going(s)    == s.how = "go"
Writes(s)   == [s EXCEPT !.out = Append(@, Text(s.val)), !.val = IntVal(1)]

NewList(s, items) == [s EXCEPT !.lists = Append(@, items),
                               !.val = Value("list", Len(s.lists) + 1)]

(* The nearest scope that declares a name, 0 if none does.                   *)
Home(s, name) ==
  LET climb[i \in 0..Len(s.scopes)] ==
        IF i = 0 \/ name \in DOMAIN s.scopes[i].vars THEN i ELSE climb[s.scopes[i].parent]
  IN climb[s.cur]
Declare(s, name, x) == [s EXCEPT !.scopes[s.cur].vars = (name :> x) @@ @]
Store(s, name, x) == LET home == Home(s, name) IN
  IF home = 0 THEN Died(s) ELSE [s EXCEPT !.scopes[home].vars[name] = x]
Load(s, name) == LET home == Home(s, name) IN
  IF home = 0 THEN Died(s) ELSE Gives(s, s.scopes[home].vars[name])

Enter(s, parent) == [s EXCEPT !.scopes = Append(@, [vars |-> <<>>, parent |-> parent]),
                              !.cur = Len(s.scopes) + 1]
Leave(s, before) == [s EXCEPT !.cur = before.cur]

Closure(s, params, body) ==
  Value("code", [params |-> params, body |-> body, scope |-> s.cur])

Scalar(name) == <<"$", name>>
Sub(name)    == <<"&", name>>
Class(name)  == <<"", name>>
It           == Scalar("_")

RECURSIVE Eval(_, _), EvalAll(_, _), EvalArgs(_, _, _), Flatten(_, _, _), EvalPairs(_, _, _), While(_, _),
          For(_, _, _, _), Chain(_, _, _), Clauses(_, _, _), BindParams(_, _, _, _)

(* F(x), with x evaluated once: TLC would evaluate it at each use.           *)
Once(x, F(_)) == CHOOSE y \in {F(v) : v \in {x}} : TRUE

(* F applied to the state after n, if n comes to its end.                    *)
After(n, s, F(_)) == Once(Eval(n, s), LAMBDA t : IF Going(t) THEN F(t) ELSE t)

(* The value of a list of statements is that of the last one.                *)
EvalAll(kids, s) ==
  IF kids = <<>> THEN s
  ELSE After(kids[1], s, LAMBDA t : EvalAll(Tail(kids), t))

(* The values of the arguments, from left to right, in `args'.               *)
EvalArgs(kids, s, args) ==
  IF kids = <<>> THEN [state |-> s, args |-> args]
  ELSE Once(Eval(kids[1], s), LAMBDA t :
         IF Going(t) THEN EvalArgs(Tail(kids), t, Append(args, t.val))
         ELSE [state |-> t, args |-> args])

Flatten(kids, s, items) ==
  IF kids = <<>> THEN [state |-> s, items |-> items]
  ELSE IF kids[1].kind = "list" THEN Flatten(kids[1].kids \o Tail(kids), s, items)
  ELSE Once(Eval(kids[1], s), LAMBDA t :
         IF Going(t) THEN Flatten(Tail(kids), t, Append(items, t.val))
         ELSE [state |-> t, items |-> items])

(* A hash of the given pairs; a later one replaces an earlier one.            *)
EvalPairs(pairs, hash, s) ==
  IF pairs = <<>> THEN Gives(s, Value("hash", hash))
  ELSE After(pairs[1].kids[1], s, LAMBDA k : After(pairs[1].kids[2], k, LAMBDA x :
         EvalPairs(Tail(pairs), (Text(k.val) :> x.val) @@ hash, x)))
Entry(f, i) == IF i \in DOMAIN f THEN f[i] ELSE Null

(* Parameter i gets its argument, or its default, or the call dies.          *)
BindParams(params, args, i, s) ==
  IF i > Len(params) THEN IF Len(args) > Len(params) THEN Died(s) ELSE s
  ELSE LET Bound(t) == BindParams(params, args, i + 1, Declare(t, Scalar(params[i].name), t.val))
           default  == params[i].kids
       IN IF i <= Len(args) THEN Bound(Gives(s, args[i]))
          ELSE IF default = <<>> \/ default[1].kind = "nop" THEN Died(s)
          ELSE After(default[1], s, Bound)

Apply(code, args, s) ==
  LET Run(bound) == IF Going(bound) THEN EvalAll(code.body, Gives(bound, Null)) ELSE bound
      Back(done) == Leave(IF done.how = "return" THEN [done EXCEPT !.how = "go"] ELSE done, s)
  IN Once(BindParams(code.params, args, 1, Enter(s, code.scope)),
          LAMBDA bound : Once(Run(bound), Back))

CallCode(f, args, s) == IF f.k = "code" THEN Apply(f.v, args, s) ELSE Died(s)

(* A turn of a loop ended by `next' or `last'.                               *)
Resumed(t) == IF t.how = "next" THEN [t EXCEPT !.how = "go"] ELSE t
Stopped(t) == Gives(IF t.how = "last" THEN [t EXCEPT !.how = "go"] ELSE t, Null)

While(n, s) ==
  After(n.kids[1], s, LAMBDA c :
    IF ~ True(c.val) THEN Gives(c, Null)
    ELSE Once(Resumed(Eval(n.kids[2], c)), LAMBDA turn :
           IF Going(turn) THEN While(n, turn) ELSE Stopped(turn)))

(* The i-th turn of a for over list l.  The variable of the loop, $_ or the   *)
(* parameter, is known in the body only.                                     *)
For(body, l, i, s) ==
  IF i > Len(s.lists[l]) THEN Gives(s, Null)
  ELSE LET item == s.lists[l][i]
           Turn == IF body.kind = "lambda"
                   THEN Apply(Closure(s, body.kids[1].kids, <<body.kids[2]>>).v, <<item>>, s)
                   ELSE Leave(Eval(body, Declare(Enter(s, s.cur), It, item)), s)
       IN Once(Resumed(Turn), LAMBDA turn :
            IF Going(turn) THEN For(body, l, i + 1, turn) ELSE Stopped(turn))

(* a op b op c holds when each neighbours' comparison does; it stops at the   *)
(* first that does not.                                                     *)
Holds(op, x, y) == CASE op = "eq" -> Number(x) = Number(y)
                     [] op = "lt" -> Number(x) < Number(y)
                     [] op = "streq" -> Text(x) = Text(y)
Chain(left, rest, s) ==
  IF rest = <<>> THEN Gives(s, IntVal(1))
  ELSE After(rest[1].kids[1], s, LAMBDA t :
         IF Holds(rest[1].kind, left, t.val) THEN Chain(t.val, Tail(rest), t)
         ELSE Gives(t, IntVal(0)))

Block(n, s) == EvalAll(IF n.kind \in {"statements", "else"} THEN n.kids ELSE <<n>>, Gives(s, Null))

(* if, elsif ..., else: the first clause whose condition holds.               *)
Clauses(n, i, s) ==
  LET clauses == <<[n EXCEPT !.kids = SubSeq(@, 1, 2)]>> \o SubSeq(n.kids, 3, Len(n.kids)) IN
  IF i > Len(clauses) THEN Gives(s, Null)
  ELSE IF clauses[i].kind = "else" THEN Block(clauses[i], s)
  ELSE After(clauses[i].kids[1], s, LAMBDA c :
         IF True(c.val) THEN Block(clauses[i].kids[2], c) ELSE Clauses(n, i + 1, c))

(* The methods of classes, lists and scalars.                               *)
Joined(items, joiner) ==
  LET texts == SelectSeq(items, LAMBDA x : ~ Undefined(x))
  IN FlattenSeq([i \in DOMAIN texts |-> (IF i > 1 THEN joiner ELSE <<>>) \o Text(texts[i])])

OfList(l, name, args, s) ==
  LET items == s.lists[l.v]
      Becomes(new, x) == [s EXCEPT !.lists[l.v] = new, !.val = x]
  IN CASE name = "elems" -> Gives(s, IntVal(Len(items)))
       [] name = "join"  -> Gives(s, StrVal(Joined(items, IF args = <<>> THEN <<>> ELSE Text(args[1]))))
       [] name = "say"   -> Writes(Gives(s, StrVal(Joined(items, <<>>))))
       [] name = "push"  -> Becomes(Append(items, args[1]), l)
       [] name = "unshift" -> Becomes(<<args[1]>> \o items, l)
       [] name = "shift" /\ items # <<>> -> Becomes(Tail(items), Head(items))
       [] name = "pop" /\ items # <<>> -> Becomes(Front(items), Last(items))
       [] OTHER -> Died(s)

CallMethod(obj, name, args, s) ==
  CASE obj.k = "list" -> OfList(obj, name, args, s)
    [] obj.k = "hash" /\ name = "elems" -> Gives(s, IntVal(Cardinality(DOMAIN obj.v)))
    [] obj.k = "class" /\ name = "new" -> Gives(s, obj)
    [] obj.k = "class" /\ name \in DOMAIN obj.v -> CallCode(obj.v[name], args, s)
    [] obj.k \in {"int", "num", "str"} /\ name = "say" -> Writes(Gives(s, obj))
    [] OTHER -> Died(s)

MethodCall(obj, n, args, s) ==
  Once(EvalArgs(args, s, <<>>), LAMBDA a :
    IF Going(a.state) THEN CallMethod(obj, n.name, a.args, a.state) ELSE a.state)

Methods(n, s) ==
  LET methods == {i \in DOMAIN n.kids : n.kids[i].kind = "methoddef"}
      names   == {n.kids[i].name : i \in methods}
      Body(name) == n.kids[CHOOSE i \in methods : n.kids[i].name = name]
  IN [name \in names |-> Closure(s, Body(name).kids[1].kids, Body(name).kids[2].kids)]

Arith(n, s, F(_, _)) ==
  After(n.kids[1], s, LAMBDA a :
    After(n.kids[2], a, LAMBDA b : Gives(b, F(a.val, b.val))))

Assigned(n, s, F(_, _)) ==                                    \* $x op= e
  LET name == Scalar(n.kids[1].name) IN
  After(n.kids[1], s, LAMBDA a :
    After(n.kids[2], a, LAMBDA b :
      Store(Gives(b, F(a.val, b.val)), name, F(a.val, b.val))))

Sum(x, y) == NumVal(Number(x) + Number(y))
Cat(x, y) == StrVal(Text(x) \o Text(y))

Eval(n, s) ==
  LET kid(i) == n.kids[i] IN
  CASE n.kind = "int" -> Gives(s, IntVal(n.val))
    [] n.kind = "num" -> Gives(s, NumVal(n.val))
    [] n.kind = "str" -> Gives(s, StrVal(<<n.val>>))
    [] n.kind \in {"nop", "methoddef"} -> Gives(s, Null)
    [] n.kind = "var" -> Load(s, Scalar(n.name))
    [] n.kind = "my"  -> Declare(s, Scalar(n.name), Null)
    [] n.kind = "bind" ->
         After(kid(2), s, LAMBDA t :
           IF kid(1).kind = "my" THEN Declare(t, Scalar(kid(1).name), t.val)
           ELSE Store(t, Scalar(kid(1).name), t.val))
    [] n.kind \in {"list", "array"} ->
         Once(Flatten(n.kids, s, <<>>), LAMBDA f :
           IF Going(f.state) THEN NewList(f.state, f.items) ELSE f.state)
    [] n.kind = "hash" -> EvalPairs(n.kids, <<>>, s)
    [] n.kind = "atpos" ->
         After(kid(1), s, LAMBDA l : After(kid(2), l, LAMBDA i :
           Gives(i, Entry(i.lists[l.val.v], Number(i.val) + 1))))
    [] n.kind = "atkey" -> Arith(n, s, LAMBDA h, x : Entry(h.v, Text(x)))
    [] n.kind = "statements" -> EvalAll(n.kids, s)
    [] n.kind = "say" -> After(kid(1), s, Writes)
    [] n.kind = "die" -> After(kid(1), s, Died)
    [] n.kind \in {"next", "last"} -> [s EXCEPT !.how = n.kind]
    [] n.kind = "return" -> After(kid(1), s, LAMBDA t : [t EXCEPT !.how = "return"])
    [] n.kind = "while" -> While(n, s)
    [] n.kind = "for" ->
         After(kid(1), s, LAMBDA t : For(kid(2), t.val.v, 1, t))
    [] n.kind = "if" -> Clauses(n, 1, s)
    [] n.kind = "unless" ->
         After(kid(1), s, LAMBDA c : IF True(c.val) THEN Gives(c, Null) ELSE Block(kid(2), c))
    [] n.kind = "cond" ->
         After(kid(1), s, LAMBDA c : Eval(IF True(c.val) THEN kid(2) ELSE kid(3), c))
    [] n.kind = "||" -> After(kid(1), s, LAMBDA a : IF True(a.val) THEN a ELSE Eval(kid(2), a))
    [] n.kind = "&&" -> After(kid(1), s, LAMBDA a : IF True(a.val) THEN Eval(kid(2), a) ELSE a)
    [] n.kind = "^^" ->
         Arith(n, s, LAMBDA x, y : IF True(x) /\ True(y) THEN Null ELSE IF True(y) THEN y ELSE x)
    [] n.kind = "not" -> After(kid(1), s, LAMBDA a : Gives(a, Bool(Number(a.val) = 0)))
    [] n.kind = "chain" -> After(kid(1), s, LAMBDA a : Chain(a.val, Tail(n.kids), a))
    [] n.kind = "add" -> Arith(n, s, Sum)
    [] n.kind = "concat" -> Arith(n, s, Cat)
    [] n.kind = "+=" -> Assigned(n, s, Sum)
    [] n.kind = "~=" -> Assigned(n, s, Cat)
    [] n.kind \in {"post++", "++pre"} ->
         After(kid(1), s, LAMBDA a :
           LET more == IntVal(Number(a.val) + 1) IN
           Store(Gives(a, IF n.kind = "++pre" THEN more ELSE a.val), Scalar(kid(1).name), more))
    [] n.kind = "block" -> Gives(Leave(EvalAll(n.kids, Enter(s, s.cur)), s), Null)
    [] n.kind = "lambda" -> Gives(s, Closure(s, kid(1).kids, <<kid(2)>>))
    [] n.kind = "func" ->
         LET code == Closure(s, kid(1).kids, kid(2).kids)
         IN Gives(Declare(s, Sub(n.name), code), code)
    [] n.kind = "class" ->
         LET class == Value("class", Methods(n, s)) IN
         IF n.name = "" THEN Gives(s, class) ELSE Gives(Declare(s, Class(n.name), class), class)
    [] n.kind = "ident" ->
         IF Home(s, Class(n.name)) # 0 THEN Load(s, Class(n.name))
         ELSE LET f == Load(s, Sub(n.name)) IN IF Going(f) THEN CallCode(f.val, <<>>, f) ELSE f
    [] n.kind = "call" ->
         LET callee == IF kid(1).kind = "name" THEN Load(s, Sub(kid(1).name)) ELSE Eval(kid(1), s)
         IN Once(callee, LAMBDA c :
              IF ~ Going(c) THEN c
              ELSE Once(EvalArgs(Tail(n.kids), c, <<>>), LAMBDA a :
                     IF Going(a.state) THEN CallCode(c.val, a.args, a.state) ELSE a.state))
    [] n.kind = "method" -> After(kid(1), s, LAMBDA o : MethodCall(o.val, n, Tail(n.kids), o))
    [] n.kind = "itmethod" ->
         LET it == Load(s, It) IN
         IF Going(it) THEN MethodCall(it.val, n, n.kids, it) ELSE it
-----------------------------------------------------------------------------
(* What a program writes, and how it ends.                                  *)
Meaning(p) == LET s == Eval(p, Fresh)
              IN [out |-> s.out, result |-> IF s.how = "go" THEN "ok" ELSE "died"]
=============================================================================
