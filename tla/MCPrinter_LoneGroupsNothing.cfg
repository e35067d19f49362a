CONSTANTS
  RuleIds   <- MCRuleIds
  Names     <- MCNames
  Libraries <- MCLibraries
  NoRule    = NoRule
SPECIFICATION Spec
INVARIANTS LoneGroupsNothing
CHECK_DEADLOCK FALSE
