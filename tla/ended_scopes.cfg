SPECIFICATION Spec
CONSTANTS
  x = x
  Names = {x}
  Types = {"Undefined", "Bool"}
  Kinds = {"lit", "seq", "blk", "assign", "borrow"}
  ParamLists <- MCParamLists
  None = None
  Poison = Poison
  MaxNodes = 7
INVARIANTS
  EndedScopesHoldNoBorrow
