SPECIFICATION Spec
CONSTANTS
  x = x
  Names = {x}
  Types = {"Undefined", "Bool"}
  Kinds = {"lit", "seq", "blk", "assign", "reassign", "borrow", "borrow_mut", "fun", "app"}
  ParamLists <- MCCallParamLists
  None = None
  Poison = Poison
  MaxNodes = 8
INVARIANTS
  TargetBindingIsKept
  CallSignatureStaysValid
  MutXorShared
  LifetimeIsFrame
  BorrowersAreOpenScopes
PROPERTIES
  EnvSpec
  BorrowsLastAsLongAsTheirScope
