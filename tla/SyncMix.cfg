\* Three threads, a mutex and a semaphore, with joins and inline runs.
CONSTANTS
  ThreadCap = 3
  StackCap = 3
  UsePriority = FALSE
  PriorityMin = 3
  PriorityMax = 3
  PriorityDefault = 3
  Calls = {"create", "yield", "join", "exit", "return"}
  ClientRecycles = FALSE
  ClientAsserts = TRUE
  SyncCalls = {"lock", "unlock", "sem_wait", "sem_post"}
  SemInit = 0
  SemMax = 2
  Sig = {}
SPECIFICATION FairSyncSpec
INVARIANTS
  RingOK
  OneOwner
  QueuesOK
PROPERTIES
  CrashOnlyInLock
  EveryLockReturns
