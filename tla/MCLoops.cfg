SPECIFICATION Spec
CONSTANTS
  Programs <- LoopPrograms
  Script <- HandlerScript
  MainScript <- CompileScript
  Typings <- Certificate
  Results <- ValueKinds
  Buffers <- BufferCertificate
  Turns <- TurnCertificate
  Garbage <- StaleValues
  Word = 65536
INVARIANTS
  JumpsLand
  LoopsLand
  ThrowsReachTheirLoop
  ThrowsStayInTheirLoop
