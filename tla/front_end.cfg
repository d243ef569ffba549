SPECIFICATION Spec
CONSTANTS
  Profiles <- MCProfiles
  CostOf <- MCCostOf
INVARIANTS
  TypeOK
  ContextsCoverTheSource
  PrecedenceHolds
  TreesHoldEveryWord
  TreesSayWhatSourcesSay
  WrittenTreesDecode
PROPERTY ReaderSpec
