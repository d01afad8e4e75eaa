\* Two thieves, three threads and a ring of two cells that is written over.
CONSTANTS
  Thread = {1, 2, 3}
  Thief = {1, 2}
  Cap = 2
  IndexBound = 4
SPECIFICATION Spec
PROPERTIES
  DequeSpec
