SPECIFICATION Spec
CONSTANTS
  Argvs <- EvalLines
  MaxArgs = 3
INVARIANT ArgsReachTheProgram
