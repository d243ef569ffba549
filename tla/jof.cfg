SPECIFICATION Spec
CONSTANTS
  Kinds = {"lit", "logic", "cond", "blk", "seq", "assign", "fun"}
  MaxArgs = 1
  MaxNodes = 7
INVARIANTS
  JofMeansOneThing
