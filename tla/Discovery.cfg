SPECIFICATION Spec
CONSTANTS
  NumKeys = 12
  RobotKeys = {1, 3, 11}
  Models = {0, 1, 3}
  BatchSize = 5
  Deadline = 15
  Silence = 2
  MaxFlows = 2
  MaxRejects = 1
  MaxWaiting = 6
CHECK_DEADLOCK FALSE
INVARIANTS
  EntryNamesTheRobot
  HeardIsAnswered
PROPERTIES
  FlowEnds
