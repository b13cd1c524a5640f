SPECIFICATION WatchSpec
CONSTANTS
  w1 = w1
  w2 = w2
  Watches <- TwoWatches
INVARIANTS OneNotificationPending NoLateNotification
