SPECIFICATION SessionSpec
CONSTANTS
  Programs <- Shown
  Script <- HandlerScript
  MainScript <- CompileScript
  Garbage <- StaleValues
  Word = 65536
INVARIANT EachEndsAsMeant
