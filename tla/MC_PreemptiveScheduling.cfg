CONSTANTS
  c1 = c1
  p1 = p1
  p2 = p2
  p3 = p3
  CPUs <- MCCPUs
  Cpu = c1
  Procs <- MCProcs
  Priority <- MCPriority
  IDLE = idle
  NONE = none
  CpuNum = 1
  IdlePriority = 0
SPECIFICATION CSpec
INVARIANTS
  CTypeOK
  OldEmptyOnScheduleEntry
  DispatchedThreadPreemptible
PROPERTIES
  TopPriorityNotStarved
  ExitedProcessReclaimed
