CONSTANTS
  RuleIds   <- MCRuleIds
  Names     <- MCNames
  Libraries <- MCLibraries
  Texts     <- MCTexts
  NoRule    = NoRule
  Meant     <- Meaning
  Run       <- RunOf
  MaxLength = 4
SPECIFICATION FairSessionSpec
INVARIANTS SessionTypeOK EveryNameResolves NothingForEver UseHasSemicolon
PROPERTIES ImplementsTokenizer PromptReturns
