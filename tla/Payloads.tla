------------------------------ MODULE Payloads ------------------------------
(***************************************************************************)
(* What the requests of a start say: the payload builders of the client,   *)
(* the chains in which a service tries them (module StartClean has their   *)
(* timing), and the coverage path of a zone.  A payload is a record of the *)
(* fields its schema has.                                                  *)
(***************************************************************************)
EXTENDS Integers, SequencesExt, FiniteSetsExt

CleanMode == {"SWEEP", "MOP", "SWEEP_MOP", "SWEEP_THEN_MOP"}
CleanModeValue == [m \in CleanMode |->
  CASE m = "SWEEP" -> 0 [] m = "MOP" -> 1 [] m = "SWEEP_MOP" -> 2 [] m = "SWEEP_THEN_MOP" -> 3]

CLEAN_MODE_TO_V2 == [m \in CleanMode |-> CleanModeValue[m] + 2]

\* Mutant: the task type is the mode plus one.
CLEAN_MODE_TO_TASK_TYPE_Next == [m \in CleanMode |-> CleanModeValue[m] + 1]

CLEAN_MODE_TO_TASK_TYPE == [m \in CleanMode |->
  CASE m = "SWEEP" -> 1 [] m = "MOP" -> 2 [] m = "SWEEP_MOP" -> 4 [] m = "SWEEP_THEN_MOP" -> 3]

\* clean/plan/start, v2: one item per room, the passes under the tag of the mode.
PassesTag(mode) == CASE mode = "SWEEP" -> 5 [] mode = "MOP" -> 6 [] OTHER -> 7
CleanPayloadV2(rooms, mode) ==
  [schema |-> "v2", taskType |-> CLEAN_MODE_TO_TASK_TYPE[mode],
   items |-> [i \in DOMAIN rooms |->
     [room |-> rooms[i], order |-> i, mode |-> CLEAN_MODE_TO_V2[mode], fan |-> 3, strength |-> 1,
      passesTag |-> PassesTag(mode), passes |-> 1]]]

\* clean/plan/start, legacy: the whole house in the one mode it has, or rooms.
DefaultCleanPayload == [schema |-> "default", suction |-> 3, humidity |-> 2, passes |-> 1]
RoomCleanPayload(rooms, mode) ==
  [schema |-> "flat",
   items |-> [i \in DOMAIN rooms |->
     [room |-> rooms[i], mode |-> CleanModeValue[mode], passes |-> 1, suction |-> 3, humidity |-> 2]]]

\* clean/start_clean: zones, the whole map, or rooms, in one envelope; the passes
\* are under the same tag in every mode.
Param(mode) ==
  [mode |-> CLEAN_MODE_TO_V2[mode], fan |-> 2, strength |-> 1, water |-> 2,
   passesTag |-> 7, passes |-> 1]
Task(options, mode) ==
  [schema |-> "task", taskType |-> CLEAN_MODE_TO_TASK_TYPE[mode],
   items |-> [i \in DOMAIN options |-> [option |-> options[i], param |-> Param(mode), order |-> i]]]
WholeCleanPayload(mode) == Task(<<[type |-> 3, ref |-> 1]>>, mode)
RoomStartCleanPayload(rooms, mode) ==
  Task([i \in DOMAIN rooms |-> [type |-> 1, ref |-> rooms[i]]], mode)
-----------------------------------------------------------------------------
\* The rooms of a map that a start may name: those with an id.
KeepNamed(list, room) == IF room # 0 THEN Append(list, room) ELSE list
Named(rooms) ==
  LET named[n \in 0 .. Len(rooms)] ==
        IF n = 0 THEN <<>> ELSE KeepNamed(named[n - 1], rooms[n])
  IN  named[Len(rooms)]

\* start_rooms with rooms: the v2 schema, then the flat one of older firmware.
RoomRequests(rooms, mode) == <<CleanPayloadV2(rooms, mode), RoomCleanPayload(rooms, mode)>>

\* A whole-house clean in a mode the default payload does not have; without rooms
\* it raises before anything is sent.
StartAllRoomsWithMode(mode, map) ==
  IF Named(map) = <<>> THEN <<>> ELSE RoomRequests(Named(map), mode)

\* start(): there is no flat request after the v2 one of the default mode.
Start(mode, map) ==
  IF mode # "SWEEP_MOP" THEN StartAllRoomsWithMode(mode, map)
  ELSE <<DefaultCleanPayload>>
         \o (IF Named(map) = <<>> THEN <<>> ELSE <<CleanPayloadV2(Named(map), "SWEEP_MOP")>>)

\* start_rooms: no room is the whole house.
StartRooms(rooms, mode, map) ==
  IF rooms = <<>> THEN Start(mode, map) ELSE RoomRequests(rooms, mode)

\* What a service tries, as long as it hears NOT_APPLICABLE (the map has an id;
\* start_clean_rooms refuses an empty list without sending it).
AsyncStart(mode, map) == <<WholeCleanPayload(mode)>> \o Start(mode, map)
CleanRoomsWithMode(rooms, mode, map) ==
  (IF rooms = <<>> THEN <<>> ELSE <<RoomStartCleanPayload(rooms, mode)>>)
    \o StartRooms(rooms, mode, map)

\* The payloads of a start, in the order in which they are tried.
Chain(rooms, mode, map) ==
  IF rooms = <<>> THEN AsyncStart(mode, map) ELSE CleanRoomsWithMode(rooms, mode, map)

\* The robot: the rooms, the mode and the passes a payload asks for, or an
\* unknown mode.
ModeOf(table, code) ==
  IF \E m \in CleanMode : table[m] = code THEN CHOOSE m \in CleanMode : table[m] = code ELSE "unknown"
V2Modes == [m \in CleanMode |->
  CASE m = "SWEEP" -> 2 [] m = "MOP" -> 3 [] m = "SWEEP_MOP" -> 4 [] m = "SWEEP_THEN_MOP" -> 5]
WorkModes == [m \in CleanMode |->
  CASE m = "SWEEP" -> 1 [] m = "MOP" -> 2 [] m = "SWEEP_THEN_MOP" -> 3 [] m = "SWEEP_MOP" -> 4]
LegacyModes == [m \in CleanMode |->
  CASE m = "SWEEP" -> 0 [] m = "MOP" -> 1 [] m = "SWEEP_MOP" -> 2 [] OTHER -> -1]

\* A CleanParam, of a v2 item or of a task, has its passes under the tag of its
\* mode; there are none under another.
PassesOf(param) ==
  IF param.passesTag = (CASE param.mode = 2 -> 5 [] param.mode = 3 -> 6 [] OTHER -> 7)
  THEN param.passes ELSE 0

\* The whole map is all of its rooms.
WholeMap(map) == Range(map) \ {0}

Meant(p, map) ==
  CASE p.schema = "default" ->
         [rooms |-> WholeMap(map), modes |-> {"SWEEP_MOP"}, passes |-> {p.passes}]
    [] p.schema = "flat" ->
         [rooms |-> {i.room : i \in Range(p.items)},
          modes |-> {ModeOf(LegacyModes, i.mode) : i \in Range(p.items)},
          passes |-> {i.passes : i \in Range(p.items)}]
    [] p.schema = "v2" ->
         [rooms |-> {i.room : i \in Range(p.items)},
          modes |-> {ModeOf(V2Modes, i.mode) : i \in Range(p.items)} \cup {ModeOf(WorkModes, p.taskType)},
          passes |-> {PassesOf(i) : i \in Range(p.items)}]
    [] p.schema = "task" ->
         [rooms |-> UNION {IF i.option.type = 3 THEN WholeMap(map) ELSE {i.option.ref} :
                             i \in Range(p.items)},
          modes |-> {ModeOf(V2Modes, i.param.mode) : i \in Range(p.items)}
                      \cup {ModeOf(WorkModes, p.taskType)},
          passes |-> {PassesOf(i.param) : i \in Range(p.items)}]

\* What a payload cannot say: the flat schema has no vacuum-then-mop, and a task
\* has its passes under tag 7 also where the mode has them under 5 or 6.
NoModeFor(p, mode) == p.schema = "flat" /\ mode = "SWEEP_THEN_MOP"
NoPassesFor(p, mode) == p.schema = "task" /\ mode \in {"SWEEP", "MOP"}

\* One pass over the rooms in the mode.
AsksFor(p, rooms, mode, map) ==
  /\ Meant(p, map).rooms = rooms
  /\ NoModeFor(p, mode) \/ Meant(p, map).modes = {mode}
  /\ NoPassesFor(p, mode) \/ Meant(p, map).passes = {1}

\* Whichever schema the robot turns out to understand, it is asked for the same
\* job, but for the mode and the passes that a payload cannot say.
SameJob(rooms, mode, map) ==
  \A p \in Range(Chain(rooms, mode, map)) :
    AsksFor(p, IF rooms = <<>> THEN WholeMap(map) ELSE Range(rooms), mode, map)
-----------------------------------------------------------------------------
\* _zone_coverage: the rows between the borders, every second one, there and back.
RowsOf(yMin, yMax, step) ==
  [k \in 1 .. Max({0, (yMax - yMin - 1 + step - 1) \div step}) |-> yMin + 1 + (k - 1) * step]

\* Mutant: every row from left to right.
RowPoints_OneWay(xMin, xMax, y, k) ==
  [i \in 1 .. Max({0, xMax - xMin - 1}) |-> <<xMin + i, y>>]

RowPoints(xMin, xMax, y, k) ==
  [i \in 1 .. Max({0, xMax - xMin - 1}) |-> <<IF k % 2 = 1 THEN xMin + i ELSE xMax - i, y>>]

ZoneCoverage(xMin, yMin, xMax, yMax) ==
  LET rows == RowsOf(yMin, yMax, 2)
      pts[k \in 0 .. Len(rows)] ==
        IF k = 0 THEN <<>> ELSE pts[k - 1] \o RowPoints(xMin, xMax, rows[k], k)
      path == pts[Len(rows)]
  IN  IF path = <<>> THEN <<<<(xMin + xMax) \div 2, (yMin + yMax) \div 2>>>> ELSE path

\* A zone as two opposite corners, <<x1, y1, x2, y2>>, in any order.
Left(z) == Min({z[1], z[3]})
Right(z) == Max({z[1], z[3]})
Bottom(z) == Min({z[2], z[4]})
Top(z) == Max({z[2], z[4]})

\* clean/start_clean for zones.
ZoneOption(z, idx) ==
  [type |-> 2, ref |-> idx,
   vertices |-> <<<<Left(z), Top(z)>>, <<Right(z), Top(z)>>, <<Right(z), Bottom(z)>>, <<Left(z), Bottom(z)>>>>,
   coverage |-> ZoneCoverage(Left(z), Bottom(z), Right(z), Top(z))]
ZoneCleanPayload(zones, mode) == Task([i \in DOMAIN zones |-> ZoneOption(zones[i], i)], mode)

\* start_zone: the zones the camera shows once the request is accepted.
ActiveZones(zones) == [i \in DOMAIN zones |-> <<Left(zones[i]), Bottom(zones[i]), Right(zones[i]), Top(zones[i])>>]

\* async_clean_zone: the rectangles of a card, or the single one of x1 to y2.
NoZone == <<>>
ZonesOf(zone, single) == IF zone # <<>> THEN zone ELSE IF single # NoZone THEN <<single>> ELSE <<>>

Gap(a, b) == Max({a - b, b - a})

\* Points next to each other in a path.
Adjacent(a, b) == Gap(a[1], b[1]) + Gap(a[2], b[2]) = 1

\* A path in a rectangle is not empty and never leaves it, each point is one step
\* from the one before in its row, and two above it where the next row begins; no
\* row inside is further than one from the path.
IsSerpentine(path, xs, ys) ==
  /\ path # <<>>
  /\ \A i \in DOMAIN path : path[i][1] \in xs /\ path[i][2] \in ys
  /\ \A i \in 1 .. Len(path) - 1 :
       \/ Gap(path[i][1], path[i + 1][1]) = 1 /\ path[i][2] = path[i + 1][2]
       \/ path[i][1] = path[i + 1][1] /\ path[i + 1][2] = path[i][2] + 2
  /\ Cardinality(xs) > 2 =>
       \A y \in ys \ {Min(ys), Max(ys)} : \E i \in DOMAIN path : Gap(path[i][2], y) <= 1

\* However the rectangles are drawn, the robot is asked for each of them in turn:
\* its border is the one that is shown, its path a serpentine inside.
ZonesAsDrawn(zone, single, mode) ==
  LET zones == ZonesOf(zone, single)
      items == ZoneCleanPayload(zones, mode).items
  IN /\ DOMAIN items = DOMAIN zones
     /\ \A i \in DOMAIN zones :
          LET o == items[i].option
              shown == ActiveZones(zones)[i]
          IN /\ {v[1] : v \in Range(o.vertices)} = {shown[1], shown[3]}
             /\ {v[2] : v \in Range(o.vertices)} = {shown[2], shown[4]}
             /\ IsSerpentine(o.coverage, shown[1] .. shown[3], shown[2] .. shown[4])
=============================================================================
