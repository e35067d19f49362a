CONSTANTS
  RuleIds   <- MCRuleIds
  Names     <- MCNames
  Libraries <- MCLibraries
  Texts     <- MCTexts
  NoRule    = NoRule
  MaxLength = 2
  Derivation <- MCDerivation
SPECIFICATION FairTreeSpec
INVARIANTS TypeOK StackMatchesHistory WithinFetched NodesInOrder MatchDerivable
INVARIANTS Represents Trees
PROPERTIES CompletedStable NodesStay Terminates
