\* Two signals, three threads.
CONSTANTS
  ThreadCap = 3
  StackCap = 3
  UsePriority = FALSE
  PriorityMin = 3
  PriorityMax = 3
  PriorityDefault = 3
  Calls = {"create", "yield", "exit"}
  ClientRecycles = FALSE
  ClientAsserts = TRUE
  SyncCalls = {"kill", "sigwait"}
  SemInit = 0
  SemMax = 2
  Sig = {1, 2}
SPECIFICATION SyncSpec
INVARIANTS
  NoLostSignal
