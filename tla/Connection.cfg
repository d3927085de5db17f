SPECIFICATION FairSpec
CONSTANTS
  Sockets = {s1, s2, s3}
  NoSocket = noSocket
  InitialDelay = 1
  Factor = 2
  MaxDelay = 4
  WakeThreshold = 2
  MaxFaults = 1
INVARIANTS FlagsNeedReader OneConnection ShutdownIsFinal
PROPERTIES ListensAgain SilentConnectionReplaced
CHECK_DEADLOCK FALSE
