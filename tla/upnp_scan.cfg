SPECIFICATION Spec
CONSTANTS
  l1 = l1
  l2 = l2
  other = other
  OtherLocations <- OneOther
  Nothing = Nothing
  Locations <- TwoLocations
  MaxScans = 3
  MaxHeard = 4
INVARIANT TypeOK
PROPERTIES AnswerIsFresh ScanEnds
CHECK_DEADLOCK FALSE
