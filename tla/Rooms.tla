-------------------------------- MODULE Rooms --------------------------------
(***************************************************************************)
(* The rooms of the robot on their way to Home Assistant: the answer to    *)
(* get_map as bytes, decoded without a schema, MapData.from_response, and  *)
(* the segments NarwalVacuum offers for room cleaning.                     *)
(*                                                                         *)
(* A name is a sequence of bytes.  A default name is <<-2, base, number>>, *)
(* a value that is no text but was turned into one is Printed.             *)
(***************************************************************************)
EXTENDS Decoder

Printed == <<-1>>
Flow2 == "QxMSPG6VSO"

\* The robot: fields that are 0 or empty are not sent.
Field(n, v) == IF v = 0 THEN <<>> ELSE EncodeVarintField(n, v)
NameField(name) == IF name = <<>> THEN <<>> ELSE EncodeBytesField(3, name)
RoomMessage(r) ==
  Field(1, r.room_id) \o Field(2, r.sub_type) \o NameField(r.name)
    \o Field(4, r.category) \o Field(8, r.instance_index)
GetMapAnswer(mapId, rooms) ==
  EncodeBytesField(2, Field(1, mapId)
    \o FlattenSeq([i \in DOMAIN rooms |-> EncodeBytesField(12, RoomMessage(rooms[i]))]))

\* A field of a decoded message.
FieldOf(msg, key) ==
  LET at == SelectInSeq(msg, LAMBDA f : f.key = key)
  IN  IF at = 0 THEN [type |-> Untyped, vals |-> <<>>, list |-> FALSE] ELSE msg[at]
IntOf(msg, key) ==
  LET f == FieldOf(msg, key) IN IF f.type = VARINT THEN f.vals[1] ELSE 0

NameOf(room) ==
  LET f == FieldOf(room, 3)
  IN CASE f.type = Untyped -> <<>>
       [] f.type \in {TEXT, BYTES} /\ ~f.list -> f.vals[1]
       [] OTHER -> Printed

\* Mutant: a single room is not put into a list.
RoomList_ListsOnly(f) == IF f.list THEN f.vals ELSE <<>>

\* Field 12 is a message or a list of them; other things are skipped.
RoomList(f) == IF f.type = MESSAGE THEN f.vals ELSE <<>>

RoomInfo(room) ==
  [room_id |-> IntOf(room, 1), name |-> NameOf(room), sub_type |-> IntOf(room, 2),
   category |-> IntOf(room, 4), instance_index |-> IntOf(room, 8)]

FromResponse(decoded) ==
  LET answer == FieldOf(decoded, 2)
      payload == IF answer.type = MESSAGE THEN answer.vals[1] ELSE <<>>
      list == RoomList(FieldOf(payload, 12))
  IN [map_id |-> IntOf(payload, 1), rooms |-> [i \in DOMAIN list |-> RoomInfo(list[i])]]

\* The default names: those of the model, those of the type, "Room".
BaseName(subType, model) ==
  CASE model = Flow2 /\ subType = 1 -> 101   \* Master Bedroom
    [] model = Flow2 /\ subType = 5 -> 6     \* Bathroom
    [] model = Flow2 /\ subType = 10 -> 8    \* Corridor
    [] subType \in 0 .. 15 -> subType
    [] OTHER -> 0

DisplayName(r, model) ==
  IF r.name # <<>> THEN r.name
  ELSE <<-2, BaseName(r.sub_type, model), IF r.instance_index > 1 THEN r.instance_index ELSE 0>>

Group(r) == CASE r.category = 1 -> "Rooms" [] r.category = 2 -> "Utility" [] OTHER -> "none"

Segments(rooms, model) ==
  LET real == SelectSeq(rooms, LAMBDA r : r.room_id > 0)
  IN  [i \in DOMAIN real |-> [id |-> real[i].room_id, group |-> Group(real[i]),
                              name |-> DisplayName(real[i], model)]]

\* What Home Assistant is told when the robot has these rooms.
Offered(rooms, model) ==
  LET Read(d) == IF Ok(d) THEN Segments(FromResponse(d.out).rooms, model) ELSE <<>>
  IN  Read(Decode(GetMapAnswer(1, rooms)))

DecodesAlone(rooms) == Ok(Decode(GetMapAnswer(1, rooms)))
Readable(name) == name # <<>> /\ Ok(DecodeMessage(name, None, 0, TRUE))

\* Every room of the robot is offered once, under its own id, name and group,
\* whichever fields it lacks and however many rooms there are, as long as no name
\* is by chance a message.
RoomsArrive(rooms, model) ==
  (\A i \in DOMAIN rooms : ~Readable(rooms[i].name)) /\ DecodesAlone(rooms)
    => Offered(rooms, model) = Segments(rooms, model)

\* What async_get_segments says of the names: they match the app exactly.
NamesMatchTheApp(rooms, model) ==
  DecodesAlone(rooms) => Offered(rooms, model) = Segments(rooms, model)
-----------------------------------------------------------------------------
\* get_map knows the model only if get_device_info was answered, which is asked
\* once, when the integration is loaded.
ModelKey(model, identified) == IF identified THEN model ELSE ""

\* Mutant: only the ids are compared.
SegmentsChanged_Ids(last, current) == {s.id : s \in Range(last)} # {s.id : s \in Range(current)}

\* _check_segment_changes: a repair issue, if the rooms are not those that were
\* mapped to areas.
SegmentsChanged(last, current) ==
  {<<s.id, s.name>> : s \in Range(last)} # {<<s.id, s.name>> : s \in Range(current)}

\* The rooms are mapped to areas in one run of the integration and compared with
\* those of a later one, in each of which the robot was identified or not.
IssueRaised(before, identifiedThen, now, identifiedNow, model) ==
  SegmentsChanged(Offered(before, ModelKey(model, identifiedThen)),
                  Offered(now, ModelKey(model, identifiedNow)))

\* A room whose name depends on the model.
Renamed(r, model) == r.room_id > 0 /\ r.name = <<>> /\ BaseName(r.sub_type, model) # BaseName(r.sub_type, "")

InTheApp(rooms, model) == {<<r.room_id, DisplayName(r, model)>> : r \in {q \in Range(rooms) : q.room_id > 0}}

\* The user is told to map the rooms anew exactly when they have changed in the
\* app: added, removed or renamed; except that a robot that was asleep in one of
\* the two runs changes the default names of its model.
IssueMeansChange(before, identifiedThen, now, identifiedNow, model) ==
  LET rooms == Range(before) \cup Range(now)
  IN /\ DecodesAlone(before) /\ DecodesAlone(now)
     /\ \A r \in rooms : ~Readable(r.name)
     /\ (identifiedThen /\ identifiedNow) \/ \A r \in rooms : ~Renamed(r, model)
     => IssueRaised(before, identifiedThen, now, identifiedNow, model)
          = (InTheApp(before, model) # InTheApp(now, model))
=============================================================================
