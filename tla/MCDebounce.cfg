CONSTANTS
  Watcher = {w1, w2}
  Notifier = {n1, n2}
  NoWatcher = NoWatcher
  MinWait = 1
  MaxWait = 3
SPECIFICATION FairSpec
INVARIANTS
  CalledIsAlive
PROPERTIES
  OwedIsDelivered
  ThreadEnds
