CONSTANTS
  RuleIds   <- MCRuleIds
  Names     <- MCNames
  Libraries <- MCLibraries
  Texts     <- MCTexts
  NoRule    = NoRule
  Meant     <- Meaning
  Run       <- RunOf
SPECIFICATION Spec
INVARIANT NotPastMaximum
