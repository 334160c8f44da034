CONSTANTS
  r1 = r1
  r2 = r2
  r3 = r3
  t1 = t1
  t2 = t2
  g1 = g1
  g2 = g2
  Runtimes <- MCRuntimes
  Tasks <- MCTasks
  Guards <- MCGuards
  None = None
SPECIFICATION Spec
SYMMETRY Symmetric
INVARIANTS
  ContextFollowsGuards
  CodeRunsInItsRuntime
  WaitingTasksHaveARuntime
  IndInv
