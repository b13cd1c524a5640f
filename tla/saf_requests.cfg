SPECIFICATION FairSpec
CONSTANTS
  c1 = c1
  c2 = c2
  Calls <- TwoCalls
  Requests <- AllRequests
  None = None
  MaxLater = 1
  PdmWaits = TRUE
INVARIANTS TypeOK NoLostWakeup NothingDuplicated AnsweredInOrder ListIsComplete
PROPERTIES ServesInOrder EveryCallAnswered
CHECK_DEADLOCK FALSE
