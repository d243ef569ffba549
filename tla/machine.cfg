SPECIFICATION Spec
CONSTANTS
  HeapSize = 19
  WordBytes = 2
  Half32 = 16
  Half64 = 32
  Filler = 7
  NoConstant = 50
  Garbage = {0, 40}
  Operands = 4
  Literals <- MCLiterals
  Programs <- MCPrograms
INVARIANTS
  TypeOK
  NodesReadBack
  HeapOperandsAreNodes
  OnlyJumpsToDoneOvershoot
