SPECIFICATION FairSpec
CONSTANTS
  Ids = {a}
  NodeKinds <- ScopingKinds
  MaxNodes = 4
  MaxParams = 1
INVARIANTS
  TypeOK
  ScopesNest
  HandlersFindTheirFrame
  WalkFollowsStack
  RefsResolve
  CodesNameFrames
PROPERTIES
  LookupObeysScoping
  LookupEnds
