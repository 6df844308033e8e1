SPECIFICATION Spec
CONSTANTS
  Graphemes = {"x", "z"}
  Lists <- SmallLists
  Separators <- SmallSeparators
  MaxStrands = 5
INVARIANTS
  TypeOK
  StrandsFit
  PassesAgree
  StrandsTile
  JoinsTheTexts
