CONSTANTS
  RuleIds   <- MCRuleIds
  Names     <- MCNames
  Libraries <- MCLibraries
  NoRule    = NoRule
SPECIFICATION Spec
INVARIANTS ReadsBack WholeLibrary
CHECK_DEADLOCK FALSE
