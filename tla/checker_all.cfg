SPECIFICATION FairSpec
CONSTANTS
  x = x
  Names = {x}
  Types = {"Undefined", "Bool", "i32", "f64"}
  Kinds = {"lit", "nam", "unimplemented", "borrow", "borrow_mut", "logic", "comp",
           "arith", "blk", "reassign", "compound_assign", "app", "cond",
           "seq", "assign", "fun"}
  ParamLists <- MCParamLists
  None = None
  Poison = Poison
  MaxNodes = 5
INVARIANTS
  TypeOK
  ScopesMatchActivations
PROPERTIES
  Terminates
