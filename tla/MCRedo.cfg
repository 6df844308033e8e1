SPECIFICATION Spec
CONSTANTS
  Programs <- RedoPrograms
  Script <- HandlerScript
  MainScript <- CompileScript
  Garbage <- StaleValues
  Word = 65536
INVARIANTS
  RedoLands
