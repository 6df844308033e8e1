SPECIFICATION Spec
CONSTANTS
  Argvs <- CommandLines
  MaxArgs = 3
INVARIANTS
  TypeOK
  NargvFits
  FlagsTakeEffect
  EvalTakesTheNextWord
  WordsKept
PROPERTIES
  CommandEnds
