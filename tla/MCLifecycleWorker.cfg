CONSTANTS
  main = main
  worker = worker
  c1 = c1
  c2 = c2
  c3 = c3
  w1 = w1
  w2 = w2
  src = src
  default = default
  unset = unset
  t1 = t1
  t2 = t2
  t3 = t3
  t4 = t4
  Watcher = {w1, w2}
  Key = {src}
  Env = {main, worker}
  Callback = {c1, c2, c3}
  EnvOf <- MCEnvOf
  NoWatcher = NoWatcher
  NoKey = NoKey
  Backend = {b1, b2}
  Name = {default, unset}
  Known = {default}
  Default = default
  Subject <- MCSubject
  Thread <- MCThread
  NoBackend = NoBackend
  NoSubject = NoWatcher
  NoThread = NoThread
  Call = {t1, t2, t3}
  NoCall = NoCall
  Plan <- WorkerPlan
  Mortal = {worker}
  Faults = {"scan", "loss"}
SPECIFICATION FairSpec
INVARIANTS
  ResolvedIsSubscribed
PROPERTIES
  CallsSettle
  EnvironmentsLeave
CHECK_DEADLOCK FALSE
