------------------------------ MODULE Commander ------------------------------
(***************************************************************************)
(* The command line of kiji: command_parse of src/src/commander.c with the   *)
(* options main defines (src/src/kiji.c), and what main does with them.      *)
(*                                                                         *)
(* A token of the command line is a record [kind, letters]: a "group" of     *)
(* small flags is a dash and its letters (none for a lone dash), a "long"    *)
(* flag is named after the small one it stands for ("?" if kiji has none),    *)
(* "dashes" is --, and a "word" starts with no dash.                        *)
(***************************************************************************)
EXTENDS Integers, Sequences

CONSTANTS
  Argvs,   \* the command lines: the name of the program, then its arguments
  MaxArgs  \* COMMANDER_MAX_ARGS

Flags == {"V", "h", "q", "p", "e"}
Letters == Flags \cup {"?"}
Token == [kind : {"group"}, letters : Seq(Letters)]
         \cup [kind : {"long"}, letters : {<<flag>> : flag \in Letters}]
         \cup [kind : {"dashes", "word"}, letters : Seq(STRING)]

ASSUME ArgvsAssumption ==
  \A a \in Argvs : a \in Seq(Token) /\ Len(a) >= 1 /\ a[1].kind = "word"
ASSUME MaxArgsAssumption == MaxArgs \in Nat

VARIABLES
  phase,   \* "normalize", "parse", "main", or how the process ended
  argv,    \* the command line
  nargv,   \* self->nargv[0 .. size - 1] in normalize_args
  alloc,   \* how many pointers nargv has room for
  i,       \* the index of the loop that runs
  arg,     \* self->arg
  literal, \* -- has been seen
  args,    \* self->argv[0 .. self->argc - 1]
  state,   \* CmdLineState
  clargs   \* vm->num_clargs and vm->raw_clargs

vars == <<phase, argv, nargv, alloc, i, arg, literal, args, state, clargs>>
-----------------------------------------------------------------------------
Group(letters) == [kind |-> "group", letters |-> letters]
Null == [kind |-> "null", letters |-> <<>>]

HasDash(t) == t.kind # "word"
(* len > 2, a dash, and no other one.                                       *)
IsGroup(t) == t.kind = "group" /\ Len(t.letters) > 1

(* Mutant: the letters are taken from the second one on.                    *)
ExplodedWithoutFirst(t) ==
  IF IsGroup(t)
  THEN [j \in 1..(Len(t.letters) - 1) |-> Group(<<t.letters[j + 1]>>)]
  ELSE <<t>>
Exploded(t) ==
  IF IsGroup(t) THEN [j \in 1..Len(t.letters) |-> Group(<<t.letters[j]>>)] ELSE <<t>>

(* Mutant: alloc counts the letter that replaces the group twice.            *)
GrowthShort(t) == IF IsGroup(t) THEN Len(t.letters) - 2 ELSE 0
(* len - 2 for a group, whose own pointer is counted in argc.                *)
Growth(t) == IF IsGroup(t) THEN Len(t.letters) - 1 ELSE 0

Init ==
  /\ argv \in Argvs
  /\ phase = "normalize" /\ nargv = <<>> /\ alloc = Len(argv) + 1 /\ i = 1
  /\ arg = Null /\ literal = FALSE /\ args = <<>>
  /\ state = [dump_ast |-> FALSE, dump_bytecode |-> FALSE, eval |-> Null]
  /\ clargs = [num |-> 0, raw |-> <<>>]
-----------------------------------------------------------------------------
(* normalize_args: one turn of its loop, and its end.                        *)
Normalize ==
  /\ phase = "normalize" /\ i <= Len(argv)
  /\ nargv' = nargv \o Exploded(argv[i])
  /\ alloc' = alloc + Growth(argv[i])
  /\ i' = i + 1
  /\ UNCHANGED <<phase, argv, arg, literal, args, state, clargs>>

Normalized ==
  /\ phase = "normalize" /\ i > Len(argv)
  /\ phase' = "parse" /\ i' = 2
  /\ UNCHANGED <<argv, nargv, alloc, arg, literal, args, state, clargs>>
-----------------------------------------------------------------------------
(* command_parse_args: one action for what a turn of its loop finds.         *)

Parsing == phase = "parse" /\ i <= Len(nargv)
Cur == nargv[i]
Is(flag) == Cur.kind \in {"group", "long"} /\ Cur.letters = <<flag>>
IsFlag == \E flag \in Flags : Is(flag)
Ends(how) == phase' = how /\ UNCHANGED <<argv, nargv, alloc, i, arg, literal, args, state, clargs>>

(* -V and -h exit in their callbacks.                                       *)
Help == Parsing /\ (Is("V") \/ Is("h")) /\ Ends("help")

Dump(flag, set) ==
  /\ Parsing /\ Is(flag)
  /\ arg' = Null /\ state' = set /\ i' = i + 1
  /\ UNCHANGED <<phase, argv, nargv, alloc, literal, args, clargs>>
DumpFlag ==
  \/ Dump("q", [state EXCEPT !.dump_bytecode = TRUE])
  \/ Dump("p", [state EXCEPT !.dump_ast = TRUE])

HasWordNext == i < Len(nargv) /\ ~ HasDash(nargv[i + 1])
(* Mutant: self->arg keeps the word of an earlier option.                    *)
EvalKeepsArg ==
  /\ Parsing /\ Is("e")
  /\ arg' = IF HasWordNext THEN nargv[i + 1] ELSE arg
  /\ state' = [state EXCEPT !.eval = arg']
  /\ i' = IF HasWordNext THEN i + 2 ELSE i + 1
  /\ UNCHANGED <<phase, argv, nargv, alloc, literal, args, clargs>>
(* Mutant: the word is looked at but not skipped.                           *)
EvalPeeks ==
  /\ Parsing /\ Is("e")
  /\ arg' = IF HasWordNext THEN nargv[i + 1] ELSE Null
  /\ state' = [state EXCEPT !.eval = arg']
  /\ i' = i + 1
  /\ UNCHANGED <<phase, argv, nargv, alloc, literal, args, clargs>>
(* The argument of -e is optional.                                          *)
Eval ==
  /\ Parsing /\ Is("e")
  /\ arg' = IF HasWordNext THEN nargv[i + 1] ELSE Null
  /\ state' = [state EXCEPT !.eval = arg']
  /\ i' = IF HasWordNext THEN i + 2 ELSE i + 1
  /\ UNCHANGED <<phase, argv, nargv, alloc, literal, args, clargs>>

(* Mutant: the loop goes on with the same token.                            *)
DashesAgain ==
  /\ Parsing /\ Cur.kind = "dashes"
  /\ literal' = TRUE
  /\ UNCHANGED <<phase, argv, nargv, alloc, i, arg, args, state, clargs>>
Dashes ==
  /\ Parsing /\ Cur.kind = "dashes"
  /\ literal' = TRUE /\ i' = i + 1
  /\ UNCHANGED <<phase, argv, nargv, alloc, arg, args, state, clargs>>

IsArgument == ~ IsFlag /\ Cur.kind # "dashes" /\ (HasDash(Cur) => literal)

Unrecognized == /\ Parsing /\ ~ IsFlag /\ Cur.kind # "dashes" /\ ~ IsArgument
                /\ Ends("error")
TooMany == Parsing /\ IsArgument /\ Len(args) = MaxArgs /\ Ends("error")

(* Mutant: the limit is tested one argument late.                           *)
ArgumentTooLate ==
  /\ Parsing /\ IsArgument /\ Len(args) <= MaxArgs
  /\ args' = Append(args, Cur) /\ i' = i + 1
  /\ UNCHANGED <<phase, argv, nargv, alloc, arg, literal, state, clargs>>
Argument ==
  /\ Parsing /\ IsArgument /\ Len(args) < MaxArgs
  /\ args' = Append(args, Cur) /\ i' = i + 1
  /\ UNCHANGED <<phase, argv, nargv, alloc, arg, literal, state, clargs>>

Parsed == phase = "parse" /\ i > Len(nargv) /\ Ends("main")
-----------------------------------------------------------------------------
(* main.                                                                    *)

Source == IF state.eval # Null THEN "eval" ELSE IF args = <<>> THEN "stdin" ELSE "file"

(* A terminal on stdin, a file that cannot be opened, a syntax error.        *)
Repl       == phase = "main" /\ Source = "stdin" /\ Ends("repl")
CannotOpen == phase = "main" /\ Source = "file" /\ Ends("error")
SyntaxError == phase = "main" /\ Ends("error")
DumpAst    == phase = "main" /\ state.dump_ast /\ Ends("ast")

(* The program gets the arguments from the second one on.                    *)
Run ==
  /\ phase = "main" /\ ~ state.dump_ast
  /\ clargs' = [num |-> Len(args) - 1, raw |-> IF args = <<>> THEN <<>> ELSE Tail(args)]
  /\ phase' = IF state.dump_bytecode THEN "bytecode" ELSE "run"
  /\ UNCHANGED <<argv, nargv, alloc, i, arg, literal, args, state>>

Ended == phase \notin {"normalize", "parse", "main"} /\ UNCHANGED vars

Next ==
  \/ Normalize \/ Normalized
  \/ Help \/ DumpFlag \/ Eval \/ Dashes \/ Unrecognized \/ TooMany \/ Argument \/ Parsed
  \/ Repl \/ CannotOpen \/ SyntaxError \/ DumpAst \/ Run
  \/ Ended

(* A single thread that nothing preempts for good goes on.                   *)
Spec == Init /\ [][Next]_vars /\ WF_vars(Next)
-----------------------------------------------------------------------------
(* Properties.                                                              *)

Phases == {"normalize", "parse", "main", "help", "error", "repl", "ast", "bytecode", "run"}
TypeOK ==
  /\ phase \in Phases
  /\ argv \in Seq(Token) /\ nargv \in Seq(Token) /\ alloc \in Int /\ i \in Nat
  /\ arg \in Token \cup {Null} /\ literal \in BOOLEAN
  /\ args \in Seq(Token) /\ Len(args) <= MaxArgs
  /\ state \in [dump_ast : BOOLEAN, dump_bytecode : BOOLEAN, eval : Token \cup {Null}]
  /\ clargs.num \in -1..MaxArgs /\ clargs.raw \in Seq(Token)

(* However many flags are exploded, nargv has room for all its pointers and  *)
(* for the NULL that ends it.                                               *)
NargvFits == Len(nargv) + 1 <= alloc

Mentions(t, flag) ==
  t.kind \in {"group", "long"} /\ \E j \in DOMAIN t.letters : t.letters[j] = flag
Mentioning(flag) == {k \in 2..Len(argv) : Mentions(argv[k], flag)}

(* When the command line has been parsed, a dump is asked for if and only if *)
(* some token of it has the letter of that flag or is its long form, alone   *)
(* or in a group, wherever it stands.                                       *)
FlagsTakeEffect ==
  phase = "main" => /\ state.dump_ast <=> Mentioning("p") # {}
                    /\ state.dump_bytecode <=> Mentioning("q") # {}

LastIsEval(t) == t.kind \in {"group", "long"} /\ t.letters # <<>> /\ t.letters[Len(t.letters)] = "e"

(* The code to run is the word right after the last flag -e, and there is    *)
(* none if that -e has no word after it, whatever an earlier one had.        *)
EvalTakesTheNextWord ==
  phase = "main" =>
    state.eval =
      IF Mentioning("e") = {} THEN Null
      ELSE LET k == CHOOSE k \in Mentioning("e") : \A l \in Mentioning("e") : l <= k
           IN IF LastIsEval(argv[k]) /\ k < Len(argv) /\ ~ HasDash(argv[k + 1])
              THEN argv[k + 1] ELSE Null

(* Every word that is not the code of an -e is an argument, in order.        *)
Kept(k) == k > 1 /\ ~ HasDash(argv[k]) /\ ~ LastIsEval(argv[k - 1])
KeptWords[k \in 0..Len(argv)] ==
  IF k = 0 THEN <<>>
  ELSE IF Kept(k) THEN Append(KeptWords[k - 1], argv[k]) ELSE KeptWords[k - 1]
ArgumentWords[k \in 0..Len(args)] ==
  IF k = 0 THEN <<>>
  ELSE IF HasDash(args[k]) THEN ArgumentWords[k - 1]
  ELSE Append(ArgumentWords[k - 1], args[k])
WordsKept == phase = "main" => ArgumentWords[Len(args)] = KeptWords[Len(argv)]

(* Every command line is dealt with.                                        *)
CommandEnds == <>(phase \notin {"normalize", "parse", "main"})

(* A program gets all the arguments that are not the name of its file.       *)
ArgsReachTheProgram ==
  phase = "run" => clargs.raw = IF Source = "file" THEN Tail(args) ELSE args
=============================================================================
