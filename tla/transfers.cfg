SPECIFICATION FairSpec
CONSTANTS
  w1 = w1
  w2 = w2
  n1 = n1
  n2 = n2
  x = x
  y = y
  BadName = BadName
  Dir = Dir
  Absent = Absent
  Partial = Partial
  Depth = 3
  MaxRequests = 2
  Workers <- TwoWorkers
  Names <- TwoNames
  Contents <- TwoContents
  Trees <- SomeTrees
  Jobs <- SomeJobs
INVARIANTS TypeOK QuietRefusalsRight QuietSuccessesExact
PROPERTIES NothingClobbered TransfersEnd
