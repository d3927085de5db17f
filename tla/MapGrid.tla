------------------------------- MODULE MapGrid -------------------------------
(***************************************************************************)
(* The outline of a room on the map grid (map_renderer.py).  The order in  *)
(* which Python goes through a set of cells is open, so where a walk along *)
(* the edges starts, and which of two edges of a corner it takes first,    *)
(* are choices.                                                            *)
(***************************************************************************)
EXTENDS Grid

CellsOf(pixels, w, h, rid) ==
  {<<(i - 1) % w, (i - 1) \div w>> :
     i \in {j \in 1 .. Min({w * h, Len(pixels)}) :
              pixels[j] \notin NoRoom /\ RoomOf(pixels[j]) = rid /\ rid \in 1 .. 63}}
-----------------------------------------------------------------------------
\* _trace_cell_outline: the edges between a cell and what is no cell, with the
\* region on the left.
Edges(cells) ==
     {<<<<c[1], c[2]>>, <<c[1] + 1, c[2]>>>> : c \in {d \in cells : <<d[1], d[2] - 1>> \notin cells}}
  \cup {<<<<c[1] + 1, c[2]>>, <<c[1] + 1, c[2] + 1>>>> : c \in {d \in cells : <<d[1] + 1, d[2]>> \notin cells}}
  \cup {<<<<c[1] + 1, c[2] + 1>>, <<c[1], c[2] + 1>>>> : c \in {d \in cells : <<d[1], d[2] + 1>> \notin cells}}
  \cup {<<<<c[1], c[2] + 1>>, <<c[1], c[2]>>>> : c \in {d \in cells : <<d[1] - 1, d[2]>> \notin cells}}

\* The loops a walk from a corner may find, with the edges it leaves.
RECURSIVE Walks(_, _, _)
Walks(edges, cur, loop) ==
  LET outs == {e \in edges : e[1] = cur}
  IN IF outs = {} THEN {[loop |-> loop, left |-> edges]}
     ELSE UNION {IF e[2] = loop[1] THEN {[loop |-> loop, left |-> edges \ {e}]}
                 ELSE Walks(edges \ {e}, e[2], Append(loop, e[2])) : e \in outs}

\* Mutant: the last loop counts.
Better_Last(loop, best) == TRUE
Better(loop, best) == Len(loop) > Len(best)

RECURSIVE BestLoops(_, _)
BestLoops(edges, best) ==
  IF edges = {} THEN {best}
  ELSE UNION {BestLoops(walk.left, IF Better(walk.loop, best) THEN walk.loop ELSE best) :
                walk \in UNION {Walks(edges, v, <<v>>) : v \in {e[1] : e \in edges}}}

\* The corners where the direction changes.
Corners(loop) ==
  LET n == Len(loop)
      Turn(i) == LET p == loop[((i + n - 2) % n) + 1]  q == loop[i]  r == loop[(i % n) + 1]
                 IN  (q[1] - p[1]) * (r[2] - q[2]) # (q[2] - p[2]) * (r[1] - q[1])
      kept == SelectSeq([i \in 1 .. n |-> i], Turn)
  IN  IF Len(kept) >= 3 THEN [i \in DOMAIN kept |-> loop[kept[i]]] ELSE loop

\* compute_room_outlines leaves out fragments of fewer than 8 cells.
Outlines(pixels, w, h, rid) ==
  LET cells == CellsOf(pixels, w, h, rid)
  IN  IF Cardinality(cells) < 8 THEN {} ELSE {Corners(l) : l \in BestLoops(Edges(cells), <<>>)}

\* A polygon holds a cell: an odd number of its upright sides lie to the left.
Holds(outline, cell) ==
  LET After(i) == outline[(i % Len(outline)) + 1]
      left == {i \in DOMAIN outline :
                 /\ outline[i][1] = After(i)[1] /\ outline[i][1] <= cell[1]
                 /\ Min({outline[i][2], After(i)[2]}) <= cell[2]
                 /\ cell[2] < Max({outline[i][2], After(i)[2]})}
  IN  Cardinality(left) % 2 = 1

Beside(c) == {<<c[1] + 1, c[2]>>, <<c[1] - 1, c[2]>>, <<c[1], c[2] + 1>>, <<c[1], c[2] - 1>>}
RECURSIVE Flood(_, _)
Flood(from, within) ==
  LET more == {c \in within \ from : Beside(c) \cap from # {}}
  IN  IF more = {} THEN from ELSE Flood(from \cup more, within)

\* The outline of a room in one piece holds all of its cells and none that is
\* reached from outside the room, wherever the walk starts and whichever way it
\* turns.  (A hole with a longer edge than the room's own takes a larger grid.)
OutlineHolds(pixels, w, h, rid) ==
  LET cells == CellsOf(pixels, w, h, rid)
      frame == {<<x, y>> : x \in -1 .. w, y \in -1 .. h}
      outside == Flood({<<-1, -1>>}, frame \ cells)
  IN cells # {} /\ Flood({CHOOSE c \in cells : TRUE}, cells) = cells =>
       \A outline \in Outlines(pixels, w, h, rid) :
         /\ \A c \in cells : Holds(outline, c)
         /\ \A c \in outside : ~Holds(outline, c)
=============================================================================
