CONSTANTS
  ByteBits = 2
  FamilyBytes <- MCFamilyBytes
  MaxRules = 2
  RuleSpace <- MCRules
  Endpoints <- MCEndpoints
  Semantics <- MCSemantics
SPECIFICATION SelectSpec
CHECK_DEADLOCK FALSE
INVARIANTS SelectedIsBest CidrByBits
