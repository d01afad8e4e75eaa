\* Two workers, three threads, a mutex, a semaphore and a signal; no descriptor recycled.
CONSTANTS
  Thread = {1, 2, 3}
  NWorkers = 2
  Stack = {1, 2}
  Slack = 0
  Calls = {"create", "join", "exit"}
  ClientRecycles = FALSE
  SyncCalls = {"lock", "unlock", "sem_wait", "sem_post", "kill", "sigwait"}
  SemInit = 0
  SemMax = 0
  Sig = {1}
SPECIFICATION SyncSpec
INVARIANTS
  MutexOwned
  NobodyForgotten
PROPERTIES
  SchedulerSpec
