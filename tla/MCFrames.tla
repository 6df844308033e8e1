------------------------------ MODULE MCFrames ------------------------------
(* Frames with the node kinds of its runs as named definitions.             *)
EXTENDS Frames

(* Every handler but `use'.                                                 *)
ScopingKinds == {"my", "my :=", "our", "our :=", "bound", "func", "lambda",
                 "block", "variable", "call", "ident"}

(* Libraries, the subs they export and the calls that need them.            *)
LibraryKinds == {"use", "func", "block", "call"}
=============================================================================
