\* Finding: a stack is given away while its last owner is still on it.
CONSTANTS
  Thread = {1, 2, 3}
  NWorkers = 2
  Stack = {1, 2}
  Slack = 0
  Calls = {"create", "yield", "join", "exit", "return"}
  ClientRecycles = TRUE
SPECIFICATION Spec
INVARIANTS
  StackNotInUse
