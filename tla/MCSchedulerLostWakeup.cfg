\* No-loss with parks that never time out, as spec.md 4.6 step 5 describes them:
\* a wake-up sent before the worker parks is lost and both workers sleep.
CONSTANTS
  w1 = w1  w2 = w2  t1 = t1  t2 = t2  t3 = t3
  Workers <- MCWorkers
  Tasks <- MCTasks2
  Worker0 = w1
  Root = t1
  LocalCapacity = 2
  check_io_interval_ = 2
  check_global_interval_ = 2
  MaxIO = 1
  ParkTimeout = FALSE
  None = None
SPECIFICATION Spec
PROPERTY NoLoss
\* Both workers may park for good: that is the behaviour under test.
CHECK_DEADLOCK FALSE
