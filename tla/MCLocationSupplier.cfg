CONSTANTS
  Texts      <- MCTexts
  Calls      <- MCCalls
  NoLocation = NoLocation
  MaxLength  = 3
SPECIFICATION FairSpec
INVARIANTS TypeOK StoreIsText AnswersAsWindow
PROPERTIES ImplementsWindow CallsReturn
