SPECIFICATION Spec
CONSTANTS
  Kinds = {"lit", "nam", "app", "comp", "arith", "logic", "borrow", "borrow_mut",
           "deref", "neg", "question", "blk", "reassign", "compound_assign", "cond",
           "type_cast", "while_loop", "return_statement", "continue_statement",
           "break_statement", "seq", "assign", "fun"}
  MaxArgs = 2
  MaxNodes = 5
INVARIANTS
  TypeOK
  JumpsLand
  FunctionsAreClosed
  ScopesBalance
  NodesLeaveOneValue
