\* The priority build, with two levels and the invalid ones beside them.  Descriptors and
\* stacks are reused; two stacks for three threads, so the arena runs out.
CONSTANTS
  ThreadCap = 3
  StackCap = 2
  UsePriority = TRUE
  PriorityMin = 2
  PriorityMax = 3
  PriorityDefault = 3
  Calls = {"create", "yield", "join", "exit", "setpriority"}
  ClientRecycles = TRUE
  ClientAsserts = TRUE
SPECIFICATION Spec
INVARIANTS
  TypeOK
  RingOK
  StackPartition
  SwitchTargetValid
  AbortOnlyWhenFull
  JoinAwaitsFinish
  FindTerminates
PROPERTIES
  ExitStackNotReused
  PriorityElection
