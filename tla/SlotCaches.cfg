\* Two workers whose caches can hold four of five slots.
CONSTANTS
  Slot = {1, 2, 3, 4, 5}
  Worker = {0, 1}
  CacheMax = 2
  Refill = 2
SPECIFICATION Spec
INVARIANTS
  SlotPartition
  RefusedOnlyWhenScarce
PROPERTIES
  PoolSpec
