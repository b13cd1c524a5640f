SPECIFICATION Spec
CONSTANTS
  c1 = c1
  docs = docs
  a = a
  x = x
  y = y
  NoId = NoId
  NoMove = NoMove
  Words <- TwoWords
  Titles <- ThreeTitles
  NewTitles <- TwoTitles
  Asked <- ThreeTitles
  LocalBefore <- LocalFile
  Clients <- OneClient
  CloudBefore <- FolderAndFile
  Extends <- FolderExtendsFile
  MaxFiles = 2
  MaxChanges = 1
INVARIANTS TypeOK CacheTruthful CredentialBehindToken
PROPERTIES MovesKeepContent ListShowsFolder
