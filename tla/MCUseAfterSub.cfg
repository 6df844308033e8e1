SPECIFICATION Spec
CONSTANTS
  Ids = {f}
  NodeKinds <- LibraryKinds
  MaxNodes = 3
  MaxParams = 0
INVARIANT UsesImport
