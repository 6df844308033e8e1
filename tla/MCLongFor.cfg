SPECIFICATION Spec
CONSTANTS
  Programs <- LongFor
  Script <- HandlerScript
  MainScript <- CompileScript
  Garbage <- StaleValues
  Word = 64
INVARIANTS
  JumpsLand
