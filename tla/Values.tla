------------------------------- MODULE Values -------------------------------
(***************************************************************************)
(* The values of a running kiji program.  A value is a record [k, v] of a    *)
(* kind and a content; a string is the sequence of the numerals and names    *)
(* it was put together from, which is all a program's output shows of it.    *)
(* Lists, hashes and iterators live in a heap and are known by their index.  *)
(***************************************************************************)
EXTENDS Integers, Sequences

Value(k, v) == [k |-> k, v |-> v]
Null    == Value("null", 0)
IntVal(i) == Value("int", i)
NumVal(i) == Value("num", i)
StrVal(s) == Value("str", s)
Bool(b) == IntVal(IF b THEN 1 ELSE 0)

Undefined(x) == x.k \in {"null", "type"}

(* smrt_strify, coerce_is, coerce_ns                                        *)
Text(x) == CASE x.k = "str" -> x.v
             [] x.k \in {"int", "num"} -> <<x.v>>
             [] Undefined(x) -> <<>>
(* smrt_numify, coerce_sn, coerce_si: of a single numeral.                   *)
Number(x) == CASE x.k \in {"int", "num"} -> x.v
               [] x.k = "str" -> IF Len(x.v) = 1 THEN x.v[1] ELSE 0
               [] Undefined(x) -> 0
(* if_i, if_n, if_s, if_o of anything but an iterator.                       *)
True(x) == CASE x.k \in {"int", "num"} -> x.v # 0
             [] x.k = "str" -> x.v \notin {<<>>, <<0>>}
             [] OTHER -> ~ Undefined(x)
=============================================================================
