CONSTANTS
  RuleIds   <- MCRuleIds
  Names     <- MCNames
  Bases     <- MCBases
  Terms     <- MCTerms
  Libraries <- MCLibraries
  NoRule    = NoRule
  MaxRules  = 10
  MaxMade   = 2
  MaxKids   = 2
  MaxNames  = 3
SPECIFICATION Spec
INVARIANTS OlderKids TypeOK BuildsLibrary
PROPERTIES NamesKeepTheirRule DerivedResolve
CHECK_DEADLOCK FALSE
