---------------------------- MODULE MCAlgorithms ----------------------------
(***************************************************************************)
(* The inputs on which the pure parts are checked, one per behaviour.      *)
(***************************************************************************)
EXTENDS Rooms, MapGrid, Frames, Capture, Algorithms

CONSTANTS
  Alphabet,    \* the bytes of arbitrary payloads
  MaxLength    \* and their length

\* A message of up to two parts: integers, texts, messages, broken pieces.
Parts == {<<>>, <<8, 1>>, <<8, 1, 8, 2>>, <<10, 0>>, <<10, 2, 8, 1>>, <<10, 0, 10, 0>>,
          <<10, 1, 3>>, <<18, 1, 3>>, <<10, 1, 63>>, <<3>>, <<10, 4, 8, 1, 8, 2>>, <<21, 7>>}
Pairs == {p \o q : p, q \in Parts}

Short == UNION {[1 .. n -> Alphabet] : n \in 0 .. MaxLength}

\* Names: none, plain ones, one that can be read as an integer field (8 = 1 * 8)
\* and one that can be read as a fixed32 field.
Names == {<<>>, <<3>>, <<7, 6>>, <<8, 5>>, <<13, 4>>}
OneRoom == [room_id : {0, 2}, sub_type : {0, 5, 16}, name : Names, category : {0, 2},
            instance_index : {0, 2}]
AnotherRoom == {r \in OneRoom : r.room_id = 2 /\ r.category = 2}

Idle == [kind |-> "idle"]
Init == job = Idle

DecodePayload ==
  \/ \E bytes \in Short : job' = [kind |-> "payload", bytes |-> bytes]
  \/ \E a, b \in Pairs :
       job' = [kind |-> "payload", bytes |-> EncodeBytesField(1, a) \o EncodeBytesField(1, b)]
  \/ \E a, b, c \in Parts :
       job' = [kind |-> "payload", bytes |-> EncodeBytesField(1, a) \o EncodeBytesField(1, b)
                                               \o EncodeBytesField(1, c)]

SendFrame ==
  \E key, id \in {<<>>, <<97>>, <<97, 98>>}, short \in {<<97>>, <<97, 47, 98>>, <<97, 47>>},
     payload \in {<<>>, <<47>>, <<1, 200, 34, 1>>}, more \in {0, 120, 244, 245, 246, 247, 248, 249, 250, 251, 252} :
    job' = [kind |-> "frame", prefix |-> <<47>> \o key, id |-> id \o [i \in 1 .. more |-> 99],
            short |-> short, payload |-> payload]

\* Two frames, after the request of the upgrade or not, in three pieces, of which
\* the last may be cut, in some order, one perhaps twice.
Upgrade == [opcode |-> -1, payload |-> <<>>, bytes |-> GET \o <<32, 47, 13>> \o BlankLine]
Sent(opcode, payload, form, mask) ==
  [opcode |-> opcode, payload |-> payload, bytes |-> WsFrame(opcode, payload, form, mask)]

CaptureTraffic ==
  \E mask \in {<<>>, <<7, 0, 255, 129>>}, form \in {7, 16, 64}, upgrade \in BOOLEAN,
     order \in {<<1, 2, 3>>, <<3, 2, 1>>, <<2, 3, 1>>, <<1, 2, 2, 3>>, <<2, 1, 3, 1>>} :
    LET sent == (IF upgrade THEN <<Upgrade>> ELSE <<>>)
                  \o <<Sent(2, <<1, 200, 34, 126, 9>>, form, mask), Sent(9, <<>>, 7, mask)>>
        length == Len(FlattenSeq([i \in DOMAIN sent |-> sent[i].bytes]))
    IN  \E a \in 1 .. length - 2, c \in {length - 1, length} : \E b \in {a + 1, length - 2} :
          /\ a < b /\ b < c
          /\ job' = [kind |-> "capture", sent |-> sent, ends |-> <<a, b, c>>, order |-> order]

\* The rooms when they were mapped to areas, and later.
Listable == [room_id : {2}, sub_type : {1, 5, 6}, name : {<<>>, <<7, 6>>}, category : {2}, instance_index : {0, 2}]
Second == [room_id |-> 3, sub_type |-> 6, name |-> <<>>, category |-> 1, instance_index |-> 0]
Houses == {<<>>, <<Second>>} \cup {<<r>> : r \in Listable} \cup {<<r, Second>> : r \in Listable}

MapRooms ==
  \E before, now \in Houses, model \in {Flow2, "other"}, identifiedThen, identifiedNow \in BOOLEAN :
    job' = [kind |-> "segments", before |-> before, now |-> now, model |-> model,
            identifiedThen |-> identifiedThen, identifiedNow |-> identifiedNow]

LearnRooms ==
  \E model \in {Flow2, "other"} :
    \/ \E r \in OneRoom : job' = [kind |-> "rooms", rooms |-> <<r>>, model |-> model]
    \/ \E r \in OneRoom, s \in AnotherRoom :
         job' = [kind |-> "rooms", rooms |-> <<r, s>>, model |-> model]

\* Rooms of at least 8 cells on a grid of 4 by 3, the other cells being of
\* another room; and a ring of 5 by 4 that is open at one corner.
GetGrid ==
  \/ \E cells \in SUBSET (1 .. 12) :
       /\ Cardinality(cells) >= 8
       /\ job' = [kind |-> "grid", w |-> 4, h |-> 3, ox |-> -2, oy |-> 3,
                  pixels |-> [i \in 1 .. 12 |-> IF i \in cells THEN 256 * 2 + 16 ELSE 32 * (i % 2)]]
  \/ \E hole \in SUBSET {6, 7, 8, 9, 12, 13, 14, 19} :
       job' = [kind |-> "grid", w |-> 5, h |-> 4, ox |-> -2, oy |-> 3,
               pixels |-> [i \in 1 .. 20 |-> IF i \in hole THEN 256 + 1 ELSE 256 * 2]]

StartJob ==
  \E rooms \in {<<>>, <<4>>, <<7, 4>>}, mode \in CleanMode, map \in {<<>>, <<0>>, <<4>>, <<4, 0, 7>>} :
    job' = [kind |-> "start", rooms |-> rooms, mode |-> mode, map |-> map]

DrawZone ==
  \/ \E x1, y1 \in -2 .. 1, x2, y2 \in -2 .. 4, mode \in {"MOP", "SWEEP_MOP"} :
       job' = [kind |-> "zone", zone |-> <<>>, single |-> <<x1, y1, x2, y2>>, mode |-> mode]
  \/ \E a, b \in {<<0, 0, 3, 3>>, <<4, 5, 1, 2>>, <<-3, 2, 0, -1>>} :
       job' = [kind |-> "zone", zone |-> <<a, b>>, single |-> NoZone, mode |-> "SWEEP"]

\* Up to four cells seen on a map 3 cells wide, the values of the first few.
SeeWalls ==
  \E n \in 0 .. 4, valued \in 0 .. 4, first \in BOOLEAN, other \in {<<>>, <<26, 2, 9, 40>>, <<26, 0>>} :
    /\ valued <= n
    /\ \E xy \in {<<0, 0>>, <<2, 0>>, <<1, 12>>, <<2, 40>>}, val \in {1, 4, 7, 37} :
         job' = [kind |-> "walls", w |-> 3, valued |-> valued, first |-> first, other |-> other,
                 seen |-> [i \in 1 .. n |-> <<(xy[1] + i) % 3, xy[2] + i, val + i>>]]

\* A robot that creeps by less than the distance of two points, stands, drives,
\* and is placed by either broadcast, one of them at times outside the map.
Floor == [x |-> -8, y |-> 0, w |-> 24, h |-> 16]
Moved == [Floor EXCEPT !.x = -12]
Rail(from, length, y) == [xs |-> [i \in 1 .. length |-> from + i], ys |-> [i \in 1 .. length |-> y]]
Rails(from, length) == <<Rail(from, length, 2), Rail(from, length, 6)>>
Display(p, rails) == [topic |-> "display_map", p |-> p, rails |-> rails]
Status(status) == [topic |-> "base_status", status |-> status]
GetMap(map) == [topic |-> "get_map", map |-> map]

Broadcasts ==
  {Display(p, <<>>) : p \in {<<0, 0>>, <<-4, 4>>, <<-3, 4>>, <<-2, 4>>, <<NotFinite, 6>>}}
    \cup {Display(<<-4, 4>>, Rails(-4, 2)), Display(<<-2, 4>>, Rails(-4, 4)),
          Display(<<-2, 4>>, <<Rail(-4, 2, 2), [xs |-> <<1>>, ys |-> <<1, 2>>]>>)}
    \cup {[topic |-> "plan_traj", points |-> points] :
            points \in {<<>>, <<<<-3, 4>>>>, <<<<-1, 4>>, <<4, 4>>>>, <<<<90, 4>>>>, <<<<NotFinite, 0>>, <<-1, 5>>>>}}
    \cup {Status(status) : status \in {"cleaning", "standby", "unknown"}}
    \cup {GetMap(map) : map \in {Floor, Moved}}

DriveAround ==
  \/ \E n \in 1 .. 3 : \E heard \in [1 .. n -> Broadcasts], first \in {GetMap(Floor), Status("cleaning")} :
       job' = [kind |-> "poses", heard |-> <<first>> \o heard]
  \/ \E heard \in [1 .. 4 -> {Display(<<-4, 4>>, Rails(-4, 2)), Display(<<-2, 4>>, Rails(-3, 3)),
                              Display(<<2, 4>>, <<>>), Status("cleaning"), Status("standby")}] :
       job' = [kind |-> "poses", heard |-> <<GetMap(Floor), Status("cleaning")>> \o heard]

DrawTrail ==
  \E n \in 0 .. 40, max \in 6 .. 9, tail \in 1 .. 4 : job' = [kind |-> "trail", n |-> n, max |-> max, tail |-> tail]

Next == /\ job = Idle
        /\ \/ DecodePayload \/ SendFrame \/ CaptureTraffic \/ LearnRooms \/ MapRooms
           \/ GetGrid \/ StartJob \/ DrawZone
           \/ SeeWalls \/ DriveAround \/ DrawTrail

Spec == Init /\ [][Next]_job
-----------------------------------------------------------------------------
\* Nothing a payload says is lost or read in two ways by the decoder: the
\* occurrences of a repeated message have fields of one type, a field that was a
\* list stays one, and the attempts to read texts as messages leave no traces.
DecoderLosesNothing ==
  Has("payload") => LosesNothing(job.bytes) /\ OccurrencesAgree(job.bytes) /\ NoTraces(job.bytes)

\* A frame cut anywhere is never read as another topic, and a captured frame is
\* shown as it was sent.
FramesSurvive ==
  /\ Has("frame") => FrameSurvives(job.prefix, job.id, job.short, job.payload)
  /\ Has("capture") => CaptureShows(job.sent, job.ends, job.order)

\* The rooms of the robot are those offered for cleaning.
AllRoomsArrive == Has("rooms") => RoomsArrive(job.rooms, job.model)

\* The repair issue about the rooms is raised when they have changed.
RepairsAreDue ==
  Has("segments") =>
    IssueMeansChange(job.before, job.identifiedThen, job.now, job.identifiedNow, job.model)

\* vacuum.py:320: room names match the app exactly.
RoomNamesMatchTheApp == Has("rooms") => NamesMatchTheApp(job.rooms, job.model)

\* The outline of a room is that of the room.
OutlinesHold == Has("grid") => \A rid \in {1, 2} : OutlineHolds(job.pixels, job.w, job.h, rid)
=============================================================================
