CONSTANTS
  c1 = c1
  c2 = c2
  p1 = p1
  p2 = p2
  p3 = p3
  CPUs <- MCCPUs
  Procs <- MCProcs
  Priority <- MCPriority
  IDLE = idle
  NONE = none
  CpuNum = 2
  IdlePriority = 0
  UserStack <- MCUserStack
SPECIFICATION TSpec
INVARIANT
  LiveStacksMapped
