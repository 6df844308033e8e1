----------------------------- MODULE MCSession -----------------------------
(* A session: programs compiled and run one after the other, each by a kiji  *)
(* process of its own, as the scripts of t/ do.  These are the programs      *)
(* found to end otherwise than they mean.                                   *)
EXTENDS MCExec

VARIABLE ran  \* how the processes that have ended did

Num(i) == [N("num", <<>>) EXCEPT !.val = i]

Session == <<
  \* for 1, 2, 3 { for 7 { 0 }; say $_ }
  Loop("it", <<N("for", <<Listed(<<I(7)>>), Stmts(<<I(0)>>)>>), Say1(V("_"))>>),
  \* class Foo { method bar { ... } }; Foo.new.bar; Foo.new.bar
  Stmts(<<ClassOf("Foo", <<Bar("bar", 5)>>), Meth(NewOf("Foo"), "bar", <<>>),
          Meth(NewOf("Foo"), "bar", <<>>)>>),
  \* say [4, 5, 6].join([1, 2].join(0))
  Say1(Meth(Flat, "join", <<Meth(N("array", <<I(1), I(2)>>), "join", <<I(0)>>)>>)),
  \* class Foo { class Baz { method bar { ... } }; method baz { ... } }; Foo.new.baz
  Stmts(<<ClassOf("Foo", <<ClassOf("Baz", <<Bar("bar", 5)>>), Bar("baz", 6)>>),
          Meth(NewOf("Foo"), "baz", <<>>)>>),
  \* for 1, 2, 3 -> $e { say $e; next }
  Loop("lambda", <<Say1(V("e")), N("next", <<>>)>>),
  \* say 1 + 1.5, of which 5 stands for the second
  Say1(N("add", <<I(1), Num(5)>>)),
  \* sub f { my $x }
  Func("f", <<>>, <<Named("my", "x", <<>>)>>),
  \* sub f { return while 1 { 0 } }
  Func("f", <<>>, <<N("return", <<N("while", <<I(1), Stmts(<<I(0)>>)>>)>>)>>),
  \* my $i = 0; while $i < 1 { $i++; { next }; while 0 { 0 }; say 3 }
  Stmts(<<My("i", I(0)),
          N("while", <<Lt(V("i"), I(1)),
                       Stmts(<<N("post++", <<V("i")>>), N("block", <<N("next", <<>>)>>),
                               N("while", <<I(0), Stmts(<<I(0)>>)>>), Say1(I(3))>>)>>)>>) >>

Shown == {Session[i] : i \in DOMAIN Session}

(* Programs the compiler means to refuse: a return of what has no value.      *)
Refused == {Session[8]}

Outcome == [status |-> status, out |-> out, result |-> result]
Meant(p) ==
  IF p \in Refused THEN [status |-> "panic", out |-> <<>>, result |-> "died"]
  ELSE [status |-> "done", out |-> Meaning(p).out, result |-> Meaning(p).result]

SessionInit == ran = <<>> /\ ExecInit /\ program = Session[1]

(* A process starts on a program with nothing left from the one before.      *)
StartOn(p) ==
  /\ program' = p /\ status' = "compiling"
  /\ frame' = <<NewFrame(0)>> /\ frames' = <<1>> /\ cu' = EmptyUnit
  /\ acts' = <<Activation(MainScript(p), "void", 0)>> /\ calls' = 0
  /\ stack' = <<>> /\ heap' = <<>> /\ composed' = {} /\ out' = <<>> /\ result' = "none"

NextProgram ==
  /\ result \in {"ok", "died"} /\ Len(ran) < Len(Session)
  /\ ran' = Append(ran, Outcome)
  /\ IF Len(ran') < Len(Session) THEN StartOn(Session[Len(ran') + 1]) ELSE UNCHANGED allvars

SessionNext == (ExecNext /\ UNCHANGED ran) \/ NextProgram
SessionSpec == SessionInit /\ [][SessionNext]_<<allvars, ran>>

(* Every process of a finished session has compiled its program, written what *)
(* it means and ended as it does; none has failed an assertion.              *)
EachEndsAsMeant ==
  Len(ran) = Len(Session) => \A i \in DOMAIN ran : ran[i] = Meant(Session[i])
=============================================================================
