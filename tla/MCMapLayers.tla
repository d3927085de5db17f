---------------------------- MODULE MCMapLayers ----------------------------
(***************************************************************************)
(* MapLayers for TLC: three frames whose windows overlap, and two lidar    *)
(* cells, one of which is seen as carpet or as an obstacle.                *)
(***************************************************************************)
EXTENDS MapLayers

CONSTANTS q1, q2, c1, c2

MCQuads == {q1, q2}
MCCells == {c1, c2}

MCFrames ==
  {[quads |-> <<q1>>, cells |-> <<<<c1, TRUE>>>>],
   [quads |-> <<q1, q2>>, cells |-> <<<<c2, FALSE>>, <<c1, FALSE>>>>],
   [quads |-> <<q2>>, cells |-> <<>>]}
=============================================================================
