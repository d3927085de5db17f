-------------------------------- MODULE Grid --------------------------------
(***************************************************************************)
(* The map grid in bytes: the pixels of the map, the room at a point, the  *)
(* calibration a map card gets for the picture, and the observed wall      *)
(* cells.                                                                  *)
(***************************************************************************)
EXTENDS Varints

NoRoom == {0, 32, 40}   \* empty and the two unassigned values
RoomOf(val) == val \div 256

\* The robot: integers, packed; the map, without the compression.
Packed(vals) ==
  LET bytes[i \in 0 .. Len(vals)] ==
        IF i = 0 THEN <<>> ELSE bytes[i - 1] \o EncodeVarint(vals[i])
  IN  bytes[Len(vals)]
MapBytes(pixels) == EncodeBytesField(1, Packed(pixels))

\* The lenient reader: no width, no end.
EndOfVarint(data, pos) == Min({i \in pos .. Len(data) : data[i] < Radix} \cup {Len(data)})
Lenient(data, pos) ==
  [v |-> ValueOf(SubSeq(data, pos, EndOfVarint(data, pos))), next |-> EndOfVarint(data, pos) + 1]

\* The loop of _decode_packed_varints and of _unpack.
NextVarint(data, read) ==
  IF read.pos > Len(data) THEN read
  ELSE LET varint == Lenient(data, read.pos)
       IN  [pos |-> varint.next, vals |-> Append(read.vals, varint.v)]
VarintsFrom(data, pos) ==
  LET read[k \in 0 .. Len(data)] ==
        IF k = 0 THEN [pos |-> pos, vals |-> <<>>] ELSE NextVarint(data, read[k - 1])
  IN  read[Len(data)].vals

\* _decode_packed_varints: behind the header, if there is one.
DecodePackedVarints(data) ==
  IF Len(data) < 4 THEN <<>>
  ELSE VarintsFrom(data, IF data[1] = 10 THEN EndOfVarint(data, 2) + 1 ELSE 1)

\* lookup_room_at_grid.
LookupRoom(data, w, h, x, y) ==
  LET pixels == DecodePackedVarints(data)
      idx == y * w + x
  IN CASE x \notin 0 .. w - 1 \/ y \notin 0 .. h - 1 \/ idx >= Len(pixels) -> -1
       [] OTHER -> IF pixels[idx + 1] \in NoRoom THEN 0 ELSE RoomOf(pixels[idx + 1])

-----------------------------------------------------------------------------
\* Mutant: the picture is not upside down.
CalibrationPoints_NoFlip(w, h, ox, oy, scale) ==
  <<[vacuum |-> <<ox, oy>>, map |-> <<0, 0>>],
    [vacuum |-> <<w - 1 + ox, oy>>, map |-> <<(w - 1) * scale, 0>>],
    [vacuum |-> <<ox, h - 1 + oy>>, map |-> <<0, (h - 1) * scale>>]>>

CalibrationPoints(w, h, ox, oy, scale) ==
  <<[vacuum |-> <<ox, h - 1 + oy>>, map |-> <<0, 0>>],
    [vacuum |-> <<w - 1 + ox, h - 1 + oy>>, map |-> <<(w - 1) * scale, 0>>],
    [vacuum |-> <<ox, oy>>, map |-> <<0, (h - 1) * scale>>]>>

\* The world point a card makes of a pixel with them: an affine map.
WorldOf(points, p) ==
  LET o == points[1]
      Axis(k, i) == ((points[i].vacuum[k] - o.vacuum[k]) * p[i - 1]) \div points[i].map[i - 1]
  IN  <<o.vacuum[1] + Axis(1, 2) + Axis(1, 3), o.vacuum[2] + Axis(2, 2) + Axis(2, 3)>>

\* Row y of the grid is drawn as row h - 1 - y of the picture.
PixelOf(cell, h, scale) == <<cell[1] * scale, (h - 1 - cell[2]) * scale>>

\* A tap on a cell in the picture, turned into the world by the calibration and
\* into the grid by the origin, finds the room the robot has there.
TapFindsTheRoom(pixels, w, h, ox, oy, scale) ==
  \A x \in 0 .. w - 1, y \in 0 .. h - 1 :
    LET world == WorldOf(CalibrationPoints(w, h, ox, oy, scale), PixelOf(<<x, y>>, h, scale))
        val == pixels[y * w + x + 1]
    IN  LookupRoom(MapBytes(pixels), w, h, world[1] - ox, world[2] - oy)
          = IF val \in NoRoom THEN 0 ELSE RoomOf(val)
-----------------------------------------------------------------------------
\* _decode_wall_cells, from the decompressed bytes: the packed fields 1 and 2 of
\* a lenient walk, paired; a cell without a value has 0.
NextField(data, read) ==
  IF read.pos > Len(data) \/ data[read.pos] % 8 # LEN THEN read
  ELSE LET length == Lenient(data, read.pos + 1)
           end == Min({length.next + length.v - 1, Len(data)})
           field == data[read.pos] \div 8
       IN  [pos |-> length.next + length.v,
            found |-> IF field \notin {1, 2} THEN read.found
                      ELSE [read.found EXCEPT ![field] = VarintsFrom(SubSeq(data, length.next, end), 1)]]
WalkCells(data) ==
  LET read[k \in 0 .. Len(data)] ==
        IF k = 0 THEN [pos |-> 1, found |-> <<<<>>, <<>>>>] ELSE NextField(data, read[k - 1])
  IN  read[Len(data)].found

\* Mutant: the last value is left out.
ValueAt_Short(vals, i) == IF i < Len(vals) THEN vals[i] ELSE 0
ValueAt(vals, i) == IF i <= Len(vals) THEN vals[i] ELSE 0

DecodeWallCells(data) ==
  LET found == WalkCells(data)
  IN  [i \in DOMAIN found[1] |-> <<found[1][i], ValueAt(found[2], i)>>]

\* Where _update_map_layers puts the cells of a grid of width w.
Observed(data, w) ==
  LET cells == DecodeWallCells(data)
  IN  [i \in DOMAIN cells |-> <<cells[i][1] % w, cells[i][1] \div w, cells[i][2]>>]

\* The robot packs the cells it sees, <<x, y, value>>: the indices and, of the
\* first few, the values, in either order and with other fields around them.
WallBytes(seen, valued, w, valuesFirst, other) ==
  LET idxs == EncodeBytesField(1, Packed([i \in DOMAIN seen |-> seen[i][2] * w + seen[i][1]]))
      vals == EncodeBytesField(2, Packed([i \in 1 .. valued |-> seen[i][3]]))
  IN  IF valuesFirst THEN vals \o other \o idxs ELSE other \o idxs \o vals

\* The cells the robot sees arrive where it sees them, those it has no value for
\* with the value 0.
WallsArrive(seen, valued, w, valuesFirst, other) ==
  Observed(WallBytes(seen, valued, w, valuesFirst, other), w)
    = [i \in DOMAIN seen |-> <<seen[i][1], seen[i][2], IF i <= valued THEN seen[i][3] ELSE 0>>]
=============================================================================
