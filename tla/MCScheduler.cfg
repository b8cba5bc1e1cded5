\* Safety of the core with three tasks, so that a local queue overflows.
CONSTANTS
  w1 = w1  w2 = w2  t1 = t1  t2 = t2  t3 = t3
  Workers <- MCWorkers
  Tasks <- MCTasks
  Worker0 = w1
  Root = t1
  LocalCapacity = 2
  check_io_interval_ = 1
  check_global_interval_ = 1
  MaxIO = 1
  ParkTimeout = TRUE
  None = None
SPECIFICATION Spec
INVARIANT TypeOK
INVARIANT TaskInOnePlace
PROPERTY LifecycleRefined
