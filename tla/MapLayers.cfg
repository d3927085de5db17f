SPECIFICATION Spec
CONSTANTS
  q1 = q1
  q2 = q2
  c1 = c1
  c2 = c2
  Quads <- MCQuads
  Cells <- MCCells
  Frames <- MCFrames
  Maps = {1, 2}
  None = none
  SwathMax = 2
  LidarMax = 2
INVARIANTS LayersFollow SeenIsListed
