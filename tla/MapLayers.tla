----------------------------- MODULE MapLayers -----------------------------
(***************************************************************************)
(* The layers drawn over the map: what NarwalCoordinator accumulates from  *)
(* display_map frames (the vacuumed strip and the lidar cells), and how    *)
(* NarwalMapCamera draws them, item by item, onto images it keeps between  *)
(* frames.                                                                 *)
(*                                                                         *)
(* The coordinator works in the event loop.  A render awaits the executor  *)
(* for the base map, for the outlines of the rooms and for the frame, and  *)
(* the coordinator goes on meanwhile.  Coordinates are left out: a quad is *)
(* its key.  The trail, which is cleared with the strip, is left out.      *)
(***************************************************************************)
EXTENDS Naturals, Sequences, FiniteSets, SequencesExt

CONSTANTS Frames,    \* display_map: [quads, cells], fields 12 and 7
          Quads,     \* keys of the quads between two rails
          Cells,     \* cells of the map
          Maps,      \* created_at of the saved maps
          None,
          SwathMax,  \* SWATH_QUADS_MAX
          LidarMax   \* LIDAR_CELLS_MAX

\* A lidar observation: a cell, and whether its value has LIDAR_CARPET_FLAG.
Observations == Cells \X BOOLEAN

\* New items and totals of a frame that is drawn.
Jobs == [quads : Seq(Quads), cells : Seq(Observations), totals : Nat \X Nat]

ASSUME LayersAssumption ==
  /\ \A f \in Frames : /\ f.quads \in Seq(Quads)
                       /\ f.cells \in Seq(Observations)
  /\ Maps \subseteq Nat
  /\ None \notin Nat \cup Frames /\ None \notin Jobs
  /\ {SwathMax, LidarMax} \subseteq Nat \ {0}

VARIABLES
  status,      \* "unknown", "session" (is_cleaning_session) or "idle"
  display,     \* map_display_data
  mapTs,       \* created_at of map_data, None without a map
  wasSession,  \* _was_cleaning_session
  quads,       \* swath_quads; _swath_seen has their keys
  cells,       \* lidar_cells
  seen,        \* _lidar_seen
  lidarTs,     \* _lidar_map_ts
  render,      \* the camera: "idle", "begun", and the awaits on the executor,
               \* "base", "rooms" and "frame"
  cached,      \* there is a _cached_image
  baseTs,      \* _base_map_ts, None without a _base_map_image
  renderTs,    \* created_at of the base map in the executor
  made,        \* _swath_layer and _lidar_layer exist
  strip,       \* keys of the quads on _swath_layer
  lidar,       \* what _lidar_layer shows of each cell drawn on it
  drawn,       \* <<_swath_drawn, _lidar_drawn>>
  job,         \* the frame in the executor
  cut          \* history: quads or cells lost items since they were last drawn
               \* from nothing

stateVars == <<status, display, mapTs>>
listVars  == <<wasSession, quads, cells, seen, lidarTs>>
layerVars == <<made, strip, lidar, drawn>>
renderVars == <<render, cached, baseTs, renderTs, job>>
vars == <<stateVars, listVars, layerVars, renderVars, cut>>

TypeOK ==
  /\ status \in {"unknown", "session", "idle"}
  /\ display \in Frames \cup {None}
  /\ mapTs \in Maps \cup {None}
  /\ {wasSession, cached, made, cut} \subseteq BOOLEAN
  /\ quads \in Seq(Quads)
  /\ cells \in Seq(Observations)
  /\ seen \subseteq Cells
  /\ lidarTs \in Maps \cup {0}
  /\ render \in {"idle", "begun", "base", "rooms", "frame"}
  /\ {baseTs, renderTs} \subseteq Maps \cup {None}
  /\ strip \subseteq Quads
  /\ lidar \in [DOMAIN lidar -> BOOLEAN] /\ DOMAIN lidar \subseteq Cells
  /\ drawn \in Nat \X Nat
  /\ job \in Jobs \cup {None}
  /\ (job # None) = (render = "frame")
  /\ (renderTs # None) = (render = "base")

Init ==
  /\ status = "unknown" /\ display = None
  /\ mapTs \in Maps \cup {None}
  /\ wasSession = FALSE
  /\ quads = <<>> /\ cells = <<>> /\ seen = {} /\ lidarTs = 0
  /\ render = "idle" /\ cached = FALSE
  /\ baseTs = None /\ renderTs = None /\ job = None
  /\ made = FALSE /\ strip = {} /\ lidar = <<>> /\ drawn = <<0, 0>>
  /\ cut = FALSE
-----------------------------------------------------------------------------
(***************************************************************************)
(* The coordinator: _update_trail, with _update_map_layers in it.          *)
(***************************************************************************)

CellsOf(observations) == {o[1] : o \in observations}

\* What an item of a list is known by.
QuadKey == [q \in Quads |-> q]
CellOf == [o \in Observations |-> o[1]]

\* One item and the set of what was seen.
Collect(l, item, key) ==
  IF key \in l.seen THEN l
  ELSE [list |-> Append(l.list, item), seen |-> l.seen \cup {key}]

\* The items of a frame one by one, without those already seen.
Collected(list, known, new, key) ==
  LET l[i \in 0 .. Len(new)] ==
        IF i = 0 THEN [list |-> list, seen |-> known]
                 ELSE Collect(l[i - 1], new[i], key[new[i]])
  IN  l[Len(new)]

\* A session has begun that the coordinator has not seen yet.
Begins == status' = "session" /\ ~wasSession

IsCarpet(observation) == observation[2]

KeepCarpet(list, o) == IF IsCarpet(o) THEN Append(list, o) ELSE list

\* The observations of carpet, in their order.
Carpets(list) ==
  LET l[i \in 0 .. Len(list)] ==
        IF i = 0 THEN <<>> ELSE KeepCarpet(l[i - 1], list[i])
  IN  l[Len(list)]

\* What the lists are when the frame is taken into account: after a session's
\* beginning, and after a change of the saved map.
QuadsKept == IF Begins THEN <<>> ELSE quads

CellsKept == IF Begins THEN Carpets(cells) ELSE cells

\* Mutant: the set keeps the cells that were dropped.
SeenKept_All == seen

SeenKept == IF Begins THEN CellsOf(Range(CellsKept)) ELSE seen

\* display_map frames count only with a map.
Layered == display' # None /\ mapTs' # None

MapChanged == Layered /\ mapTs' # lidarTs

\* Field 7.
Lidar ==
  LET before == IF MapChanged THEN <<>> ELSE CellsKept
      known  == IF MapChanged THEN {} ELSE SeenKept
      new    == IF Layered /\ Len(before) < LidarMax THEN display'.cells ELSE <<>>
      after  == Collected(before, known, new, CellOf)
  IN /\ lidarTs' = IF MapChanged THEN mapTs' ELSE lidarTs
     /\ cells' = after.list /\ seen' = after.seen

\* Field 12.
Strip ==
  LET new == IF Layered /\ Len(QuadsKept) < SwathMax THEN display'.quads ELSE <<>>
  IN quads' = Collected(QuadsKept, Range(QuadsKept), new, QuadKey).list

\* _update_trail for the state as it is after a broadcast.
UpdateTrail ==
  /\ wasSession' = IF status' = "unknown" THEN wasSession ELSE status' = "session"
  /\ Lidar /\ Strip
  /\ cut' = (cut \/ ~IsPrefix(quads, quads') \/ ~IsPrefix(cells, cells'))
-----------------------------------------------------------------------------
(***************************************************************************)
(* The camera.                                                             *)
(***************************************************************************)

\* _handle_coordinator_update: an update begins a render, unless it changes
\* nothing of the picture or comes too soon after the last one, which only a
\* cached image allows, or a render is going on.
Notify ==
  \/ /\ mapTs' # None /\ render = "idle" /\ render' = "begun"
     /\ UNCHANGED <<layerVars, cached, baseTs, renderTs, job>>
  \/ /\ mapTs' = None \/ render # "idle" \/ cached
     /\ UNCHANGED <<layerVars, renderVars>>

\* A display_map broadcast.
DisplayMap ==
  /\ display' \in Frames
  /\ UNCHANGED <<status, mapTs>>
  /\ UpdateTrail
  /\ Notify

\* Any other broadcast: robot_base_status may change the status.
OtherBroadcast ==
  /\ status' \in {"unknown", "session", "idle"}
  /\ UNCHANGED <<display, mapTs>>
  /\ UpdateTrail
  /\ Notify

\* The state changes without the callback: get_status and get_map, and what a
\* command that reads the socket itself applies.  Polls are published.
Unannounced ==
  /\ \/ mapTs' \in Maps /\ UNCHANGED <<status, display>>
     \/ status' \in {"unknown", "session", "idle"} /\ UNCHANGED <<display, mapTs>>
     \/ display' \in Frames /\ UNCHANGED <<status, mapTs>>
  /\ UNCHANGED <<listVars, cut>>
  /\ Notify \/ UNCHANGED <<layerVars, renderVars>>

Forgotten == made' = FALSE /\ strip' = {} /\ lidar' = <<>> /\ drawn' = <<0, 0>>

\* The items the frame adds to the layers; the layers start anew when a list
\* has become shorter than what is drawn of it.
Capture ==
  LET anew == Len(quads) < drawn[1] \/ Len(cells) < drawn[2]
      from == IF anew THEN <<0, 0>> ELSE drawn
  IN /\ job' = [quads |-> SubSeq(quads, from[1] + 1, Len(quads)),
                cells |-> SubSeq(cells, from[2] + 1, Len(cells)),
                totals |-> <<Len(quads), Len(cells)>>]
     /\ render' = "frame"
     /\ IF anew THEN Forgotten ELSE UNCHANGED layerVars
     /\ cut' = (cut /\ ~anew /\ made)

\* _render_impl up to its first await: the base map, if the saved map or the
\* choice of furniture has changed, else the outlines of the rooms, if their job
\* raised the last time, else the frame.
RenderBegins ==
  /\ render = "begun"
  /\ \/ /\ render' = "base" /\ renderTs' = mapTs
        /\ UNCHANGED <<layerVars, job, cut>>
     \/ /\ mapTs = baseTs /\ render' = "rooms"
        /\ UNCHANGED <<layerVars, job, cut, renderTs>>
     \/ mapTs = baseTs /\ Capture /\ UNCHANGED renderTs
  /\ UNCHANGED <<stateVars, listVars, cached, baseTs>>

\* The base map is there: the layers start anew.  If the outlines need no new
\* job, RoomsOutlined follows at once.
BaseRendered ==
  /\ render = "base" /\ render' = "rooms"
  /\ baseTs' = renderTs /\ renderTs' = None
  /\ Forgotten
  /\ UNCHANGED <<stateVars, listVars, cached, job, cut>>

\* So are the outlines of its rooms.
RoomsOutlined ==
  /\ render = "rooms"
  /\ Capture
  /\ UNCHANGED <<stateVars, listVars, cached, baseTs, renderTs>>

\* extend_swath_layer and extend_lidar_layer: later marks replace earlier ones.
DrawnOn(layer, observations) ==
  [c \in DOMAIN layer \cup CellsOf(observations) |->
     IF c \in CellsOf(observations) THEN <<c, TRUE>> \in observations ELSE layer[c]]

DrawStrip == strip' = strip \cup Range(job.quads)
DrawLidar == lidar' = DrawnOn(lidar, Range(job.cells))

\* Mutant: the trackers go to where the lists are now.
FrameRendered_Current ==
  /\ render = "frame" /\ render' = "idle"
  /\ DrawStrip /\ DrawLidar /\ made' = TRUE
  /\ drawn' = <<Len(quads), Len(cells)>>
  /\ cached' = TRUE /\ job' = None
  /\ UNCHANGED <<stateVars, listVars, baseTs, renderTs, cut>>

FrameRendered ==
  /\ render = "frame" /\ render' = "idle"
  /\ DrawStrip /\ DrawLidar /\ made' = TRUE
  /\ drawn' = job.totals
  /\ cached' = TRUE /\ job' = None
  /\ UNCHANGED <<stateVars, listVars, baseTs, renderTs, cut>>

\* An executor job raises, or there is no base image.  The frame's job may have
\* drawn on the layers before, if they existed.
RenderFails ==
  /\ render \in {"base", "rooms", "frame"} /\ render' = "idle"
  /\ \/ UNCHANGED <<strip, lidar>>
     \/ made /\ render = "frame" /\ DrawStrip /\ (DrawLidar \/ UNCHANGED lidar)
  /\ renderTs' = None /\ job' = None
  /\ UNCHANGED <<stateVars, listVars, made, drawn, cached, baseTs, cut>>

Broadcast == DisplayMap \/ OtherBroadcast

Rendering == RenderBegins \/ BaseRendered \/ RoomsOutlined \/ FrameRendered \/ RenderFails

Next == Broadcast \/ Unannounced \/ Rendering

Spec == Init /\ [][Next]_vars
-----------------------------------------------------------------------------
Prefix(list, n) == {list[i] : i \in 1 .. n}

\* As long as the lists have only grown since the layers were last empty, the
\* layers show what the trackers say is drawn, and nothing that is not in the
\* lists: no render in flight, failure or change of the map loses or adds a mark.
LayersFollow ==
  ~cut =>
    /\ drawn[1] <= Len(quads) /\ drawn[2] <= Len(cells)
    /\ Prefix(quads, drawn[1]) \subseteq strip /\ strip \subseteq Range(quads)
    /\ CellsOf(Prefix(cells, drawn[2])) \subseteq DOMAIN lidar
    /\ \A c \in DOMAIN lidar : <<c, lidar[c]>> \in Range(cells)

\* _lidar_seen and lidar_cells agree, through new sessions and changes of the
\* map: no cell is listed twice, and none that was dropped is refused later.
SeenIsListed == CellsOf(Range(cells)) = seen /\ Len(cells) = Cardinality(seen)

\* What the camera says of a new session: when the lists shrink below what is
\* drawn, the layers are dropped so they do not keep the last session's marks.
NoMarksOfLastSession ==
  [][render # "frame" /\ render' = "frame" => strip' \subseteq Range(quads)]_vars
=============================================================================
