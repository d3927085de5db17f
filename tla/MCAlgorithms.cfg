SPECIFICATION Spec
CONSTANTS
  Radix = 32
  MaxGroups = 2
  MaxUint = 255
  Fixed32 = 1
  Fixed64 = 2
  MaxDepth = 5
  Alphabet = {0, 2, 8, 10, 16, 18, 32, 33}
  MaxLength = 3
  MaxTrail = 2
  MinDist = 2
  MaxQuads = 3
INVARIANTS
  DecoderLosesNothing
  FramesSurvive
  AllRoomsArrive
  RepairsAreDue
  OutlinesHold
  TapsFindTheRoom
  FallbacksAskTheSame
  ZonesAreWalked
  WallsAreWhereSeen
  TrailKeepsUp
CHECK_DEADLOCK FALSE
