CONSTANTS
  m1 = m1
  m2 = m2
  single = single
  pool = pool
  single_worker = single_worker
  pool_worker = pool_worker
  comm = comm
  t1 = t1
  t2 = t2
  t3 = t3
  none = none
  Modules = {m1, m2}
  Executors = {single, pool}
  Workers = {single_worker, pool_worker}
  ExecutorOf <- MCExecutorOf
  Comms = {comm}
  Tasks = {t1, t2, t3}
  None <- none
  Liberties = {"executors_share"}
SYMMETRY Alike
SPECIFICATION Spec
CHECK_DEADLOCK FALSE
INVARIANT
  OwnExecutorByDefault
