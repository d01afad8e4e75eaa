\* Two workers, three threads.
CONSTANTS
  Thread = {1, 2, 3}
  NWorkers = 2
SPECIFICATION FairSpec
INVARIANTS
  OnePlace
  NoLostInjection
PROPERTIES
  SchedulerSpec
  NothingLeftBehind
  ShutdownWakesAll
