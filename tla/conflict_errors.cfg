SPECIFICATION Spec
CONSTANTS
  x = x
  Names = {x}
  Types = {"Undefined", "Bool"}
  Kinds = {"lit", "seq", "blk", "assign", "nam", "borrow", "borrow_mut"}
  ParamLists <- MCParamLists
  None = None
  Poison = Poison
  MaxNodes = 6
PROPERTIES
  ConflictsAreNamed
