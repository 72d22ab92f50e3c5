SPECIFICATION FairSpec
CONSTANTS
  Conns = {c1, c2}
  Callers = {k1}
  Ports = {p1, p2}
  PoolSize = 1
  MaxLosses = 1
  c1 = c1
  c2 = c2
  k1 = k1
  p1 = p1
  p2 = p2
INVARIANTS
  ActiveCountsExecutions
  NoLostWakeup
  SuspendSevers
  DropSevers
  NothingOutlivesDrop
PROPERTIES
  ImplementsQuiescence
  DropCompletes
  SuspensionDrains
  DispatchedIsAnswered
CHECK_DEADLOCK FALSE
