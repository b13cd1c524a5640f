SPECIFICATION Spec
CONSTANTS
  s1 = s1
  s2 = s2
  a = a
  b = b
  ab = ab
  host = host
  Empty = Empty
  NoUrl = NoUrl
  NoTitle = NoTitle
  Servers <- TwoServers
  Ids = {1, 2, 3}
  Number <- MixedNumbers
  Unreadable <- MixedUnreadable
  Titles <- TwoTitles
  Words <- FourWords
  Shortened <- FirstCharacterLost
  Paths <- SomePaths
  FirstTrees <- SomeTrees
  MaxChanges = 1
INVARIANTS TypeOK FailedListSaysSo
PROPERTIES WholePathOrNothing SettledAnswerIsTrue
