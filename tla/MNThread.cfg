\* Two workers, three descriptors recycled without end, two stacks.
CONSTANTS
  Thread = {1, 2, 3}
  NWorkers = 2
  Stack = {1, 2}
  Slack = 0
  Calls = {"create", "yield", "join", "exit", "return"}
  ClientRecycles = TRUE
SPECIFICATION FairSpec
INVARIANTS
  WokenAfterLeaving
  StacksOwned
  CreationReachable
  AliveExact
PROPERTIES
  SchedulerSpec
  ProcessEnds
