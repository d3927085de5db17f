SPECIFICATION Spec
CONSTANTS
  Sockets = {s1, s2, s3}
  NoSocket = noSocket
  InitialDelay = 1
  Factor = 2
  MaxDelay = 4
  WakeThreshold = 2
  MaxFaults = 1
INVARIANT TrueMeansBroadcasting
CHECK_DEADLOCK FALSE
