\* Joins of every shape among four threads, none recycled.
CONSTANTS
  ThreadCap = 4
  StackCap = 3
  UsePriority = FALSE
  PriorityMin = 3
  PriorityMax = 3
  PriorityDefault = 3
  Calls = {"create", "yield", "join", "exit", "return"}
  ClientRecycles = FALSE
  ClientAsserts = TRUE
SPECIFICATION FairSpec
INVARIANTS
  CycleRefused
  OnlyCycleRefused
  LastExitLosesNoThread
  StackPartition
PROPERTIES
  EveryJoinReturns
