\* Finding: a join that closes a cycle is accepted.
CONSTANTS
  ThreadCap = 3
  StackCap = 2
  UsePriority = FALSE
  PriorityMin = 3
  PriorityMax = 3
  PriorityDefault = 3
  Calls = {"create", "yield", "join", "exit", "return"}
  ClientRecycles = TRUE
  ClientAsserts = TRUE
SPECIFICATION Spec
INVARIANTS
  CycleRefused
