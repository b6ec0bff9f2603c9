CONSTANTS
  Watcher = {w1}
  Thread = {t1, t2}
  Unreserved = {}
  MaxSubs = 3
  MaxFaults = 2
  RebuildsEarly = FALSE
  FaultsWhilePending = FALSE
  NoWatcher = NoWatcher
  NoSub = NoSub
SPECIFICATION WindowsSpec

  
  
PROPERTIES
  
  OverflowIsTold
CHECK_DEADLOCK FALSE
