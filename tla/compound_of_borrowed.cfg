SPECIFICATION Spec
CONSTANTS
  x = x
  Names = {x}
  Types = {"Undefined", "Bool", "i32"}
  Kinds = {"lit", "seq", "blk", "assign", "borrow", "compound_assign"}
  ParamLists <- MCParamLists
  None = None
  Poison = Poison
  MaxNodes = 7
PROPERTIES
  CompoundTargetIsNotBorrowed
