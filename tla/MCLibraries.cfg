SPECIFICATION Spec
CONSTANTS
  Ids = {f}
  NodeKinds <- LibraryKinds
  MaxNodes = 5
  MaxParams = 0
INVARIANTS
  RefsResolve
  CodesNameFrames
  UseMarksItsFrame
  FirstUsesImport
