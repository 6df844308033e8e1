------------------------------- MODULE MCJoin -------------------------------
(* Lists of up to four elements with texts of up to two graphemes.           *)
EXTENDS Join

Texts(n) == UNION {[1..m -> Graphemes] : m \in 0..n}
Elements == [concrete : {TRUE}, text : Texts(2)] \cup [concrete : {FALSE}, text : {<<>>}]
SmallLists == UNION {[1..n -> Elements] : n \in 0..3}
               \cup [1..4 -> [concrete : BOOLEAN, text : Texts(1)]]
SmallSeparators == {<<>>, <<"x">>, <<"z", "x">>}
=============================================================================
