SPECIFICATION Spec
CONSTANTS
  Commands = {start, query}
  Idempotent = {query}
  Query = wakeQuery
  None = none
  MaxDrops = 1
  MaxBursts = 1
INVARIANT WakeAnswersAreDrained
CHECK_DEADLOCK FALSE
