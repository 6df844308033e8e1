------------------------------- MODULE MCExec -------------------------------
(* Compiling and running small programs, against what they mean.            *)
EXTENDS Exec
H == INSTANCE Handlers

HandlerScript(n) == H!NodeHandler(n)
CompileScript(n) == H!Compile(n)
StaleValues == {1000}

Language == INSTANCE Semantics
Meanings == [p \in Programs |-> Language!Meaning(p)]
Meaning(p) == Meanings[p]

Promised == INSTANCE Promise WITH result <- IF result = "none" THEN "running" ELSE result
Implements == Promised!Spec
-----------------------------------------------------------------------------
N(kind, kids) == [kind |-> kind, kids |-> kids, name |-> "", val |-> 0]
Named(kind, name, kids) == [N(kind, kids) EXCEPT !.name = name]
I(i) == [N("int", <<>>) EXCEPT !.val = i]
S(i) == [N("str", <<>>) EXCEPT !.val = i]
V(name)   == Named("var", name, <<>>)
My(name, e) == N("bind", <<Named("my", name, <<>>), e>>)
Assign1(name, e) == N("bind", <<V(name), e>>)
Stmts(kids) == N("statements", kids)
Say1(e)   == N("say", <<e>>)
Listed(kids) == N("list", kids)
Call1(f, args) == N("call", <<Named("name", f, <<>>)>> \o args)
Meth(obj, name, args) == Named("method", name, <<obj>> \o args)
ParamOf(name, default) == Named("param", name, <<default>>)
Req(name)  == ParamOf(name, N("nop", <<>>))
Params(ps) == N("params", ps)
Func(name, ps, kids) == Named("func", name, <<Params(ps), Stmts(kids)>>)
Lambda(ps, b) == N("lambda", <<Params(ps), b>>)
Lt(a, b)  == N("chain", <<a, N("lt", <<b>>)>>)
Else(kids) == N("else", kids)

Eq(a, b)  == N("chain", <<a, N("eq", <<b>>)>>)
If1(c, kids) == N("if", <<c, Stmts(kids)>>)
-----------------------------------------------------------------------------
(* Conditions and the operators that choose between their operands.          *)

Scalars == {I(1), I(0), S(2), S(0), V("x")}

Conditions ==
  {Stmts(<<My("x", I(0)), Say1(e)>>) :
     e \in {N(k, <<a, b>>) : k \in {"||", "&&", "^^"}, a \in Scalars, b \in {I(3), I(0)}}
           \cup {N("cond", <<a, I(4), S(5)>>) : a \in Scalars}
           \cup {N("not", <<a>>) : a \in Scalars}
           \cup {N("chain", <<V("x"), N("lt", <<a>>), N("lt", <<b>>)>>) :
                    a \in {I(1), I(3)}, b \in {I(2), I(0)}}}

(* if, elsif, else and unless as statements and as the value of a sub.        *)
Sides(a) ==
  {N("if", <<Eq(a, I(1)), Stmts(<<I(5)>>), N("elsif", <<Eq(a, I(2)), Stmts(<<S(3)>>)>>),
             Else(<<I(8), a>>)>>),
   N("if", <<a, Stmts(<<I(5)>>), N("elsif", <<Eq(a, I(0)), Stmts(<<>>)>>)>>)}
Branching ==
  {Stmts(<<Func("f", <<Req("n")>>, <<e>>), Say1(Call1("f", <<I(i)>>))>>) :
     e \in Sides(V("n")), i \in 0..3}
  \cup {Stmts(<<N("unless", <<I(i), Stmts(<<Say1(I(7))>>)>>), If1(I(i), <<Say1(I(8))>>)>>) : i \in 0..1}
-----------------------------------------------------------------------------
(* Loops over 1, 2, 3, left or cut short, in each other.  `next' leaves no    *)
(* last element of a for: see MCSession.                                   *)

Three == Listed(<<I(1), Listed(<<I(2), I(3)>>)>>)
Turn  == [it |-> V("_"), lambda |-> V("e"), while |-> V("i")]
Loop(kind, kids) ==
  CASE kind = "it"     -> N("for", <<Three, Stmts(kids)>>)
    [] kind = "lambda" -> N("for", <<Three, Lambda(<<Req("e")>>, Stmts(kids))>>)
    [] kind = "while"  -> Stmts(<<Assign1("i", I(0)),
                             N("while", <<Lt(V("i"), I(3)),
                                          Stmts(<<N("post++", <<V("i")>>)>> \o kids)>>)>>)

Cut(kind, t, place) ==
  LET cut == If1(Eq(Turn[kind], I(2)), <<N(t, <<>>)>>)
  IN CASE place = "here" -> cut [] place = "block" -> N("block", <<cut>>)

Looping ==
  LET Single(k, t, p) == Loop(k, <<Cut(k, t, p), Say1(Turn[k])>>)
      Double(k1, t1, k2, t2) ==
        Loop(k1, <<Single(k2, t2, "here"), Cut(k1, t1, "block"), Say1(I(9))>>)
      Kinds == DOMAIN Turn
  IN {Stmts(<<My("i", I(0)), l, Say1(I(6))>>) :
        l \in {Single(k, t, p) : k \in Kinds, t \in {"next", "last"}, p \in {"here", "block"}}
              \cup {Double(q[1], t, q[2], u) : t, u \in {"next", "last"},
                     q \in {<<"it", "lambda">>, <<"it", "while">>, <<"lambda", "while">>, 
                             <<"while", "lambda">>, <<"while", "it">>}}}
-----------------------------------------------------------------------------
(* Subs, lambdas, blocks: parameters, defaults, recursion, scopes, errors.    *)

Abc == Func("f", <<Req("a"), ParamOf("b", I(2)), ParamOf("c", N("add", <<V("a"), V("b")>>))>>,
            <<Say1(V("a")), Say1(V("b")), V("c")>>)
Down == Func("f", <<Req("n")>>,
             <<If1(Lt(V("n"), I(1)), <<N("return", <<I(0)>>)>>),
               Say1(N("add", <<V("n"), Call1("f", <<N("add", <<V("n"), I(-1)>>)>>)>>)),
               V("n")>>)
Ints(n) == [i \in 1..n |-> I(i + 3)]
Calling ==
  {Stmts(<<Abc, Say1(Call1("f", Ints(n)))>>) : n \in 0..4}
  \cup {Stmts(<<Abc, Say1(Call1("f", <<Call1("f", Ints(1)), Call1("f", Ints(2))>>))>>),
        Stmts(<<Down, Call1("f", <<I(2)>>)>>),
        Stmts(<<Call1("g", <<>>)>>),
        Stmts(<<Say1(I(1)), N("die", <<S(2)>>), Say1(I(3))>>),
        Stmts(<<Func("f", <<>>, <<>>), Say1(Named("ident", "f", <<>>)), Say1(N("call", <<I(1)>>))>>),
        Stmts(<<My("x", I(1)), My("g", Lambda(<<Req("y")>>, N("+=", <<V("x"), V("y")>>))),
                N("call", <<V("g"), I(2)>>), N("block", <<My("x", I(9)), Say1(V("x"))>>),
                N("~=", <<V("x"), S(7)>>), Say1(V("x"))>>)}
-----------------------------------------------------------------------------
(* Lists, classes and methods.                                              *)

List1 == N("array", <<I(4), N("array", <<I(5)>>), I(6)>>)
Flat  == N("array", <<I(4), I(5), I(6)>>)
Bar(name, i) == Named("methoddef", name, <<Params(<<>>), Stmts(<<Say1(I(i)), I(i)>>)>>)
ClassOf(name, kids) == Named("class", name, kids)
NewOf(name) == Meth(Named("ident", name, <<>>), "new", <<>>)

Methods ==
  {Stmts(<<My("l", Flat), Say1(Meth(V("l"), name, <<>>)), Say1(Meth(V("l"), "elems", <<>>)),
           Say1(Meth(V("l"), "join", args))>>) :
     name \in {"shift", "pop", "elems"}, args \in {<<>>, <<S(0)>>}}
  \cup {Stmts(<<My("l", Flat), Meth(V("l"), name, <<I(1)>>), Meth(V("l"), "say", <<>>)>>) :
        name \in {"push", "unshift", "nosuch"}}
  \cup {Stmts(<<My("l", N("array", <<>>)), Meth(V("l"), "shift", <<>>)>>),
        Stmts(<<N("for", <<Listed(<<I(1), S(2)>>), Named("itmethod", "say", <<>>)>>)>>),
        Stmts(<<My("h", N("hash", <<N("pair", <<S(1), I(7)>>), N("pair", <<S(2), I(8)>>),
                                      N("pair", <<I(1), I(9)>>)>>)),
                Say1(N("atkey", <<V("h"), I(1)>>)), Say1(N("atkey", <<V("h"), S(2)>>)),
                Say1(N("atkey", <<V("h"), S(3)>>)), Say1(Meth(V("h"), "elems", <<>>))>>),
        Stmts(<<My("l", List1), Say1(Meth(N("atpos", <<V("l"), I(1)>>), "elems", <<>>))>>),
        Stmts(<<ClassOf("Foo", <<Bar("bar", 5), Bar("baz", 6)>>), My("o", NewOf("Foo")),
                Meth(V("o"), "baz", <<>>), Meth(V("o"), "bar", <<>>),
                ClassOf("Baz", <<Bar("bar", 7)>>), Say1(Meth(NewOf("Baz"), "bar", <<>>)),
                Meth(V("o"), "bar", <<>>)>>),
        Stmts(<<My("o", ClassOf("", <<Bar("bar", 5)>>)),
                Meth(Meth(V("o"), "new", <<>>), "bar", <<>>), Meth(V("o"), "nosuch", <<>>)>>),
        Stmts(<<ClassOf("Foo", <<Bar("bar", 5)>>),
                Meth(Named("ident", "Foo", <<>>), "bar", <<>>)>>)}

-----------------------------------------------------------------------------
Everything == Conditions \cup Branching \cup Looping \cup Calling \cup Methods
=============================================================================
