SPECIFICATION Spec
CONSTANTS
  base = base
  other = other
  third = third
  map = map
  working = working
  dock = dock
  Topics <- MCTopics
  Exempt <- MCExempt
  Base = base
  Fields <- MCFields
  Values <- MCValues
  Default = 0
  Payloads <- MCPayloads
  Undecodable <- MCUndecodable
  Raising <- MCRaising
  CacheMax = 2
INVARIANTS DropsAreInvisible KnownIsSeen
