SPECIFICATION ExecSpec
CONSTANTS
  Programs <- Everything
  Script <- HandlerScript
  MainScript <- CompileScript
  Garbage <- StaleValues
  Word = 65536
INVARIANTS
  ArgumentsFit
PROPERTIES
  Implements
