\* No-loss: two tasks, completions drained every other tick and the global
\* queue popped every tick, parks that time out.
CONSTANTS
  w1 = w1  w2 = w2  t1 = t1  t2 = t2  t3 = t3
  Workers <- MCWorkers
  Tasks <- MCTasks2
  Worker0 = w1
  Root = t1
  LocalCapacity = 2
  check_io_interval_ = 2
  check_global_interval_ = 1
  MaxIO = 1
  ParkTimeout = TRUE
  None = None
SPECIFICATION Spec
PROPERTY NoLoss
