CONSTANTS
  Watcher = {w1}
  Thread = {t1, t2}
  MaxSubs = 2
  MaxChanges = 2
  MaxFaults = 1
  StartsInRetire = FALSE
  ErrorsInStart = FALSE
  NoWatcher = NoWatcher
  NoThread = NoThread
  NoSub = NoSub
  NoBlock = NoBlock
SPECIFICATION FSEventsSpec
INVARIANTS
  CleanedIsQuiet
  
  EventsInOrder

  
CHECK_DEADLOCK FALSE
