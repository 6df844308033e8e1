----------------------------- MODULE MCCommander -----------------------------
(* Every command line of up to three of the tokens below, or of four of a few.*)
EXTENDS Commander

Long(flag) == [kind |-> "long", letters |-> <<flag>>]
Word(w)    == [kind |-> "word", letters |-> <<w>>]
Tokens == {Group(<<>>), Group(<<"h">>), Group(<<"p">>), Group(<<"e">>), Group(<<"p", "e">>),
           Group(<<"e", "q">>), Group(<<"q", "?", "e">>), Long("e"), Long("?"),
           [kind |-> "dashes", letters |-> <<>>], Word("a"), Word("b")}

Few    == {Group(<<"e">>), Group(<<"e", "q">>), Long("e"), Word("a"), Word("b")}

Lines(S, n) == {<<Word("kiji")>> \o s : s \in [1..n -> S]}
CommandLines == UNION {Lines(Tokens, n) : n \in 0..3} \cup Lines(Few, 4)
EvalLines == {<<Word("kiji"), Long("e"), Word("a"), Word("b")>>}
=============================================================================
