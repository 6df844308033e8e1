SPECIFICATION Spec
CONSTANTS
  Programs <- AllPrograms
  Script <- HandlerScript
  MainScript <- CompileScript
  Garbage <- StaleValues
  Word = 128
INVARIANTS
  TypeOK
  JumpsLand
  RegistersTyped
  NoAssertFails
  CallsGetTheirArguments
