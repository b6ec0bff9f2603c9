CONSTANTS
  Backend = {b1, b2}
  Name = {default, unset}
  Known = {default}
  Default = default
  Subject = {s1}
  Thread = {t1, t2, t3}
  NoBackend = NoBackend
  NoSubject = NoSubject
  NoThread = NoThread
SPECIFICATION BackendSpec
INVARIANTS
  InUseIsKept
  UnusedIsStopped
  PendingIsExclusive
  NoLostWakeup
SYMMETRY Symmetry
