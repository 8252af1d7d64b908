SPECIFICATION QueueSpec
CONSTANTS
  cpu0 = cpu0
  cpu1 = cpu1
  cpu2 = cpu2
  t0 = t0
  t1 = t1
  t2 = t2
  NULL = NULL
  Procs <- MCProcs
  Tasks <- MCTasks
INVARIANTS ListAgrees
PROPERTIES ImplementsContract
