SPECIFICATION LogSpec
CONSTANTS
  SendTasks = {s, u}
  NotifyTasks = {n, m}
  SmsTasks = {s, n}
  EmailTasks = {n, m}
  Workers = {w1, w2}
  MaxRetries = 1
  MaxDispatched = 1
  MaxCrashes = 1
  NoTask = NoTask
  s = s
  u = u
  n = n
  m = m
  w1 = w1
  w2 = w2
INVARIANTS
  LogIsTrue
PROPERTIES
  DispatchedIsResolved
CHECK_DEADLOCK FALSE
