CONSTANTS
  RuleIds   <- MCRuleIds
  Names     <- MCNames
  Libraries <- MCLibraries
  Texts     <- MCTexts
  NoRule    = NoRule
  Meant     <- Meaning
  Run       <- RunOf
  Rank      <- MCRank
  MaxLength = 2
SPECIFICATION Spec
INVARIANTS MemoFaithful LongestFirst
