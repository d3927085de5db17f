SPECIFICATION FairSpec
CONSTANTS
  Commands = {start, query}
  Idempotent = {query}
  Query = wakeQuery
  None = none
  MaxDrops = 1
  MaxBursts = 1
INVARIANTS TypeOK AtMostOnce RefusedNeverRuns WrongAnswerIsStale
CHECK_DEADLOCK FALSE
PROPERTIES KeepsContract CallsComeBack
