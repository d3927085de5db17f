SPECIFICATION FairSpec
CONSTANTS
  MaxFailures = 5
  FastPollMax = 6
  Fast = 1
  Normal = 6
  MaxPolls = 6
PROPERTIES UnavailableNeedsFailures MapArrives DockIsRefreshed
