CONSTANTS
  Inputs   <- MCInputs
  MaxLines = 4
  MaxGiven = 15
SPECIFICATION FairSpec
INVARIANTS TypeOK
PROPERTIES ImplementsSource ClearDropsLine InputEnds
