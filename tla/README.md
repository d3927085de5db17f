# Narwal integration: a specification

The repository is a Home Assistant integration for Narwal robot vacuums. It
talks to the robot over one unencrypted WebSocket on the local network: it
listens to broadcasts, sends commands, keeps the robot awake, and shows the
robot's state as entities. This directory holds TLA+ modules of the parts whose
correctness depends on the order in which things happen, the TLC configurations
that check them on small instances, and proofs, checked by TLAPS, of the
properties that matter most. Line numbers refer to `src/narwal_client/client.py`
(written `client.py`) and `src/custom_components/narwal/` (`coordinator.py`,
`vacuum.py`, ...).

`narwal_client` exists twice: `src/narwal_client/` and the vendored copy
`src/custom_components/narwal/narwal_client/`, byte for byte the same and the one
the integration loads. The modules of the connection and its commands name the
lines of the first, those of the wire formats, the state, the map and the config
flow the lines of the second; the numbers are the same.

## 1. Inventory

Everything runs in one asyncio event loop. The map renderer runs in an executor,
on slices of the lists and on layers that belong to the one render in progress;
everywhere else the unit of interleaving is the code between two `await`s. What makes the code hard is how
many coroutines share the one socket and one state object:

    Home Assistant service calls ──> vacuum entity ──> start chains ──┐
    polls, map fetch, dock refresh <── coordinator ──────────────────>│
                                        ^   │ owns                   v
                     on_state_update ───┘   v                  send_command
       robot ══ WebSocket ══> start_listening ──> response queue ──> (lock)
         ^                     │   keep-alive, topic subscription      │
         └──── wake bursts <───┴───────────────────────────────────────┘

| Component | State it keeps | Operations | Talks to |
|---|---|---|---|
| Command channel (`client.py` 908-1122) | command lock, response queue, retries of each call | `send_command`, `_send_command_once`, `_wait_for_field5_response` | listener (queue), socket, robot |
| Connection and listener (`client.py` 199-457, 660-906) | `_ws`, `_connected`, `_listener_active`, `_robot_awake`, retry delay, wake failures | `connect`, `start_listening`, `_keepalive_loop`, `wake`, `ensure_awake`, `disconnect` | socket, all commands |
| Broadcast handling (`client.py` 442-539, `models.py` 868-1180) | `NarwalState`, `_last_payloads` | `_handle_message`, `_is_duplicate_broadcast`, `update_from_*`, `get_status` | coordinator (callback) |
| Start of a clean (`vacuum.py` 228-460, `client.py` 1150-1875) | `active_zones`, retries of a start | `async_start`, room and zone clean, `start_clean_whole`, `start_zone`, `_send_start_clean`, fallbacks | command channel, robot |
| Coordinator (`coordinator.py`) | failures, fast polls left, interval, pending map fetch, map layers | `async_setup`, `_on_state_update`, `_async_update_data`, `_fetch_missing_map`, `_refresh_dock_status`, `async_shutdown` | client, entities |
| Map layers (`coordinator.py` 249-368) | trail, strip, lidar cells, whether a session was on, map timestamp | `_update_trail`, `_update_map_layers` | camera |
| Robot state (`models.py` 677-1180, `vacuum.py` 156-196) | sticky dock fields, pause, working status | `update_from_base_status`, `is_docked`, `is_returning`, `is_cleaning_session`, `activity` | vacuum entity, coordinator |
| Payload builders (`client.py` 1150-1875) | `active_zones` | whole-house, room and zone payloads, `_zone_coverage`, the fallbacks | start of a clean |
| Frame protocol, protobuf decoder | none | `build_frame`, `parse_frame`, varints, schema-less decoding | listener |
| Map data (`models.py` 44-660) | rooms, pose, trajectory, wall cells | `from_response`, `from_broadcast`, `best_robot_position`, `display_name` | coordinator, camera, vacuum entity |
| Camera (`camera.py` 71-593), map renderer | cached images, layers and how much is drawn on them, a render in progress | `_handle_coordinator_update`, `_async_render`, `extend_*_layer`, `compute_room_outlines`, `compute_calibration_points` | coordinator |
| Config flow (`config_flow.py`), setup | device id, topic prefix, the entry | `async_step_user`, `discover_device_id`, `drain_ws_buffer`, `get_device_info` | client |
| Other entities | none worth the name | state to value, press to command | coordinator |
| Tools | none | `decode_ws_pcap` and scripts for reverse engineering | - |

What makes each of them correct, and what makes that hard:

* **Command channel.** A response carries no identity. It reaches the right
  caller only because one command at a time may wait (the lock) and stale
  responses are drained before each send. A command is retried after a loss
  that may have come before or after the robot executed it: one that starts a
  clean must not be executed twice, and a refusal must be true. No path may
  keep the lock. Hard: loss of the socket at every await, late answers,
  commands that read the socket themselves in the window where the connection
  is up and the listener is not, answers to the queries of wake bursts.
* **Connection.** The listener must always come back until `disconnect()`;
  then it must stay away. Flags other coroutines test (`_listener_active`,
  `_robot_awake`) must not outlive the loop that earned them. A half-open
  connection, on which the robot is silent for ever, must be noticed and
  replaced. There must be one connection at a time. Hard: five coroutines
  (listener, keep-alive, command, `ensure_awake`, shutdown) act on the same
  four variables.
* **Broadcast handling.** Repeated payloads are dropped before decoding;
  dropping them must not be observable, although commands and polls write the
  same state and know nothing of the cache, and an exception may leave a
  payload half applied.
* **Start of a clean.** A chain of up to seven requests, over two topics, each
  sent only after a rejection of the one before. One press must launch one job,
  what the user is told must be what the robot did, and the zone preview must
  be that of an accepted job. Hard: service calls interleave, and the lock is
  per request, not per chain.
* **Coordinator.** A robot that is heard must not be declared unavailable; a
  missing map must be fetched, once at a time; fast polling must end; after a
  return to the dock the fields broadcasts leave out must be refreshed. Hard:
  broadcasts arrive while polls and background tasks wait for their answers.
* **Map layers and camera.** The camera draws each item once, onto images it keeps:
  the result must be what drawing all items anew would give. Marks of one session
  must not show up in another; carpet must. Hard: the lists grow, are cleared and
  change maps while a frame is drawn in the executor, and a render may fail.
* **Robot state.** The robot leaves out what it has said before, so a state mixes
  the fields of several messages, and two generations of firmware use the same
  field for different things. A robot that has left must not look docked, a task
  that runs must not look paused, and the vacuum and the docked sensor must agree.
  Hard: broadcasts are lost, answers to polls come from the memory of a robot that
  sleeps, and the order of messages decides what remains.
* **Config flow.** Nobody knows which robot is at an address. An entry must name
  the robot that is there, the flow must come to an end. Hard: several probes are
  under way at a time, and answers to them, rejections and broadcasts arrive in
  place of the answer the flow waits for.
* **Rooms, map, pose.** What the robot reports must arrive: rooms, their outlines,
  walls, the place that is tapped on the picture, the trail. Hard: optional fields,
  repeated fields that come alone, shapes with holes and corners that touch, points
  that are not finite, two sources of the position, a flipped and scaled image.
* **Payload builders, frames, decoder.** Pure functions with edges: rectangles
  of one or two cells, fallbacks in three schemas with different numbers for the
  same mode, header bytes, varints of ten bytes, a field whose type changes while
  its occurrences are read.

`PROJECT.json` lists the places where each of these can go wrong, at their lines
("hazards"), with the properties that would show it.

## 2. Plan

In the order of what matters most to a user: that the robot does what it was
told exactly once, that the connection survives, that the state shown is the
robot's.

| # | Module | Of | Composes or refines | State |
|---|---|---|---|---|
| 1 | `CommandContract` | what `send_command` promises | abstract specification | done |
| 2 | `CommandChannel` | command channel | implements `CommandContract` (`Contract == INSTANCE ...`) | done |
| 3 | `CommandChannelProofs` | | types, at most once, true refusals | done |
| 4 | `Connection` | listener, keep-alive, wake, shutdown | detail of the `loop` of `CommandChannel` | done |
| 5 | `StartClean` | chains of start requests | abstracts `CommandChannel` to Send/Answer/timeout | done |
| 6 | `Coordinator` | setup, push, poll, tasks | | done |
| 7 | `BroadcastDedup`, `MCBroadcastDedup` | broadcasts, cache, polls | | done |
| 8 | `BroadcastDedupProofs` | | dropped frames are invisible | done |
| 9 | `MapLayers`, `MCMapLayers` | strip, lidar cells, renders of the camera | | done |
| 10 | `RobotState`, `RobotView` | sticky fields and the activity of the entity; the robot that sends them | the first is the second's operators | done |
| 11 | `RobotViewProofs` | | types, agreement, pause, one clearing per task | done |
| 12 | `Discovery` | config flow against a robot | | done |
| 13 | `Varints`, `Decoder`, `Frames`, `Rooms`, `Grid`, `MapGrid`, `Payloads`, `Pose`, `Capture`, `Algorithms`, `MCAlgorithms` | the pure parts | all that has bytes is written by `Varints`; `Rooms` reads what `Decoder` decodes; `MapGrid` adds the outlines to `Grid`; `Algorithms` has the claims about `Payloads`, `Pose` and `Grid`, `MCAlgorithms` those about the rest, and gives all of them their inputs | done |
| 14 | `ConnectionProofs`, `CoordinatorProofs` | | types, one connection, flags, shutdown; when entities go unavailable | done |
| 15 | more of `CommandChannelProofs`, `RobotViewProofs` | | the refinement of `CommandContract`, wrong answers; what is shown | done |
| 16 | `StartCleanProofs`, `DiscoveryProofs`, `MapLayersProofs` | | types and every invariant of their runs | done |
| 17 | lemmas about the pure parts | frames of every length, the trail that is drawn | in `BroadcastDedupProofs`, `CoordinatorProofs` | done |
| 18 | more of them | start requests for any rooms, zones of any size, the trail that is recorded, packed numbers of any size, and with them taps on any map and any observed wall cells | in `StartCleanProofs`, `CoordinatorProofs` | done |
| 19 | composition | `BroadcastDedup` with `Coordinator`: a robot that repeats itself is heard by the client and not by the coordinator | | if it pays |

The runs use two commands, two service calls, three sockets, four topics:
the least with which every interaction named above happens.

## 3. Modules and code

A step of every module is what the event loop runs between two suspension
points; a definition's place in the code is in `PROJECT.json` ("map"). Operators
named `X_Something` and marked `Mutant` are `X` with a plausible mistake in it:
they are not used by the specification, and serve to show that each property
notices such a mistake.

### CommandChannel, CommandContract

State: for each call of `send_command` where it is suspended, its attempt, its
`first_error` and how it came back; the lock with its waiters (`lockQ`, as
`asyncio.Lock` wakes them in order), `_response_queue`, the socket, `_connected`,
what the listener is doing, and the frames and responses on the wire.

* `Transmit` is the body of `_send_command_once` under the lock: drain, choose
  queue or direct read, send. `SendAtOnce` is the case of a free lock, where
  nothing is awaited between the pre-flight check and the send; `WaitForLock`
  and `SendAfterLock` are the other one, where `_ws` may change in between. Then
  `None.send` raises the `AttributeError` of the outcome `crashed`.
* `Raise` is the retry rule of `send_command`, `MayRepeat` its test.
* `ReconnectBurst`, `WakeBurst` and `KeepaliveBurst` send, outside the lock, the
  one burst frame the robot answers.
* `Abandon`: frames in flight when a connection is lost may still be acted upon
  (`orphans`), in any order. This is the environment's doing and external.

`CommandContract` says only how often the robot executes a call and what the way
it came back tells about that.

### Connection

State: the open TCP connections (`open`), `_ws`, the flags, the loop of
`start_listening`, its delay, the keep-alive task and its count, the age of the
last broadcast in the three classes the code distinguishes, `disconnect()` in
two steps (it awaits between them), one caller of `ensure_awake`.
`Finally` is the finally clause, which does not close the socket; `BeginIteration`
is the `async for`, with its failure on a closed socket in the same step.
`DisconnectEnds` contains the coordinator's cancellation of its listener task.
Left out: the renewal of the subscription, which only sends a message; the ping
of the WebSocket library, which is one of the causes of `SocketCloses`.

### StartClean

A service call goes through `ensure_awake`, possibly `get_map`, and requests;
one `send_command` is `Send` (drain, frame), a step of the robot, and `Answer`
or `SendRaises`. Which request comes next is `AfterTask` (`_send_start_clean`:
success, retry after 3 s while docked, fallback on `NOT_APPLICABLE`) and
`AfterPlan` (v1, v2 and flat payloads). Whether the robot reports itself docked
when the loop looks is left open, so both branches are taken. `zones` is
`active_zones`; `lastTold` and `launched` are the robot's side.

### Coordinator

State: the attributes of `NarwalCoordinator` and where its coroutines are.
`Broadcast` is the whole callback `_on_state_update`; the two tasks it may create
are `Fetch*` and `Refresh*`; `Poll*` is `_async_update_data`, cut where it
awaits. `available` is `last_update_success` of the base class. `missed` and
`dockStale` are history variables, of failures since the robot was last heard
and of a docking that `get_status` has not yet seen.

### BroadcastDedup, MCBroadcastDedup

`NarwalState` as a function of topic and field; a payload is the partial function
it sets. `Receive` is `_handle_message` with its four outcomes, `ReadDirectly`
what `_wait_for_field5_response` does with broadcasts, `Poll` what `get_status`
does to the fields of `robot_base_status`. `ideal` is the state of a client that
drops nothing, `polled` the fields whose last writer was a poll, `unseen` the
topics changed without a callback: three history variables.
`MCBroadcastDedup` gives the constants for TLC.

### MapLayers, MCMapLayers

The coordinator's side is `UpdateTrail`, run within a broadcast: a new session
(`Begins`) clears, another map clears the lidar cells, and the frame in
`map_display_data`, new or old, is accumulated. The camera's side is a render cut
at its awaits on the executor: `RenderBegins`, `BaseRendered`, `RoomsOutlined`,
`FrameRendered`, `RenderFails`; `job` is what the frame's executor job was given,
`made`, `strip` and `lidar` are the layers, `drawn` the two trackers. Quads and
cells are values; geometry is left out; the trail is in `Pose`. The cache key and
the pause between two renders only decide whether an update begins a render;
`Notify` leaves that open once an image is cached. `cut` is a history variable:
a list has lost items since the layers were last empty. The two loops over the
items of a frame are `Collect` and `Carpets`, recursive functions of the number of
items done.

### RobotState, RobotView

`RobotState` holds operators over a record of the fields of `NarwalState` that
`update_from_base_status` sets and the properties read; a message is field 3 of
`robot_base_status` with its optional sub-fields and the two indicators 11 and 47.
`Activity` is the property of the vacuum entity. `RobotView` is the state machine
around them: the robot (external) has a firmware, does something, and sends what
the comments of `models.py` and the tests record for that; `Broadcast`,
`OtherBroadcast`, `Poll` and `Restart` are the writers of the state,
`PollRemembered` the answer of a robot that sleeps on the dock
(`models.py:1139-1147`). `UpdateTrail` is the part of `_update_trail` that detects
a session. `said`, `off`, `heard`, `clears` and `misled` are history variables.

### Discovery

State: where `async_step_user` is suspended, what the client knows, and the
messages under way in the socket; one step per message that is heard, and one per
silence of two seconds (`Silent`), which is the only thing that lets time pass:
the 15 seconds of the timeout count the silences. `WakeFrames` is the list the
code makes of the known keys, `Drain` `drain_ws_buffer`, `Ask` and `Told`
`get_device_info` without a listener. The robot is external: it answers frames
under its own key, may ignore or reject others and may answer late.

### The pure parts

Each is a module of operators with the code on one side and a reference of its
own on the other; `MCAlgorithms` chooses one input per behaviour. The claims about
`Payloads`, `Pose` and `Grid` are in `Algorithms`, which has no recursive operator, so
that they can be proved: the loops of these three and of `Varints` are recursive
functions of the number of turns done.

* `Varints`: the encoder of the client, and the value of a varint. A byte is below
  twice `Radix`, a constant.

* `Decoder`: `protobuf_decoder.py` over bytes. The widths of the fixed
  types and the number of groups of a varint are constants like `Radix`, so that short payloads
  reach every edge (a varint that is too long, a number that does not fit, a
  negative one). `DecodeMessage` is pass 1 (`Walk`) and pass 2 (`DecodeField`); the
  state the code mutates while it tries to read a field as a message is passed
  along. The reference is the client's own encoder: what was decoded, written
  again, has the bytes of the payload.
* `Frames`: `build_frame`, `parse_frame`, the topics. `Capture`: `decode_ws_pcap`,
  against a sender that masks or not, in any of the three forms of a length.
* `Rooms`: a robot encodes its rooms (external), `Decoder` decodes the answer,
  `FromResponse`, `DisplayName`, `Segments` and `SegmentsChanged` take them to
  Home Assistant.
* `Grid`: the packed room cells, the lookup of a room, the calibration points, and the
  observed wall cells with their lenient walk. A map with an origin and the cells a
  robot sees are packed by the robot (external) and go through all of it.
* `MapGrid`: the outline of a room by the walk along its edges. What Python's iteration over a set leaves open, where a walk begins and
  which edge it takes first, is a choice; the reference is a flood fill.
* `Payloads`: the start payloads as records of what they ask for, the requests a
  service tries in order, and what the robot makes of each schema (external, from
  the protocol comments of `const.py` and `client.py`: a pass count stands under the tag
  of its mode); zones and their coverage.
* `Pose`: the two sources of the position, the trail, the rails and the decimation.
  `After` drives a whole sequence of broadcasts through `_update_trail`.

## 4. Runs

| Run | Bounds | What it shows |
|---|---|---|
| `command_channel` | one start, one query, one loss or listener crash, one burst | `TypeOK`; a start is executed at most once (`AtMostOnce`); a refusal is true (`RefusedNeverRuns`); a wrong answer can only be a stale one (`WrongAnswerIsStale`); the contract is implemented (`KeepsContract`); every call comes back (`CallsComeBack`) |
| `command_channel_wake_answer` | same | violation, see 6.1 |
| `connection` | three sockets, delays 1-2-4, two silent ticks, one handler exception or collision | flags have a reader (`FlagsNeedReader`), one connection without faults (`OneConnection`), shutdown is final (`ShutdownIsFinal`); the listener comes back (`ListensAgain`), silent connections are replaced (`SilentConnectionReplaced`) |
| `connection_ensure_awake` | same | violation, 6.2 |
| `start_clean` | two calls of any kind, any map, three result codes | one job per press, true reports, preview of an accepted job; every chain ends |
| `coordinator` | the constants of the code (5 failures, 6 fast polls, 10 s and 60 s), counters up to 6 | unavailability needs five failed polls since the robot was last heard (`UnavailableNeedsFailures`); map and dock fields arrive (`MapArrives`, `DockIsRefreshed`) |
| `broadcast_dedup` | four topics (one exempt), cache of two, five kinds of payloads | dropping is invisible (`DropsAreInvisible`), what will be dropped has been seen (`KnownIsSeen`) |
| `map_layers` | two quads, two cells, three overlapping frames, two maps, caps of two | as long as the lists only grow, the layers are what drawing everything anew would show (`LayersFollow`); the set of seen cells follows the list (`SeenIsListed`) |
| `robot_state` | both firmwares, codes up to 20, two clearings | `TypeOK`; a robot with truthful indicators is shown as it said (`ShowsWhatItSaid`); vacuum and docked sensor agree (`EntitiesAgree`); a pause is what was said (`ResumesWhatIsPaused`); a task is cleared once (`OneClearPerTask`) |
| `discovery` | 12 keys, more than the probes reach; robots of the first, third and 11th key; three choices of model; 15 and 2 seconds; two forms, one rejection, six waiting messages | an entry names the robot (`EntryNamesTheRobot`); a robot that was heard is asked under its key (`HeardIsAnswered`); every form ends (`FlowEnds`) |
| `algorithms` | payloads of three arbitrary bytes or of three parts, frames around 250 bytes, one or two rooms, all shapes of 8 and more cells on 4 by 3 and rings on 5 by 4 (origin -2, 3; scales 1 to 6), zones up to 4 by 7, up to four wall cells, up to five broadcasts after the map | `DecoderLosesNothing`, `FramesSurvive`, `AllRoomsArrive`, `RepairsAreDue`, `OutlinesHold`, `TapsFindTheRoom`, `FallbacksAskTheSame`, `ZonesAreWalked`, `WallsAreWhereSeen`, `TrailKeepsUp` |
| `room_names` | same | violation, 6.3 |

Why the bounds are enough. In `CommandChannel` every hazard is an interaction of
two commands, or of a command with one loss: with two attempts per command one
loss reaches every combination of attempt and point of loss, and the types and
the two main invariants are proved for any number of commands, losses and
bursts. A third socket lets `Connection` open a connection while a forgotten one
is open and an old one is closing. Two service calls are enough for every
interleaving of a chain with another one's requests; a third would only add
another source of stale answers, which the second already is, and the invariants
are proved for any number. A cache of two
topics with three that compete for it evicts, re-admits and refuses; the
invariants are proved for any size. Two quads suffice for a
list that is replaced by another of the same length, two cells for one that is
carpet and one that is not, two maps for a change during a render; the invariants
are proved for any sets and any frames. `RobotView` is finite but for the codes,
of which one above the known ones stands for all, and the clearings, of which the
second is the mistake. In `Discovery` a robot may have the default
key, one of the first batch, or one that no probe reaches. In `MCAlgorithms` an edge of a format is reached at its length: a
frame at 255, a varint at two groups, an outline at the smallest shapes with a hole
and with touching corners, `MaxTrail` at two points. The bounds themselves
are `MaxDrops`, `MaxBursts`, `MaxFaults`, `MaxPolls`, `MaxCode`, `MaxClears`,
`MaxFlows`, `MaxRejects`, `MaxWaiting` and `MaxLength`; `MaxPolls` and `MaxClears`
only stop counters, above any value they are compared with.

`CHECK_DEADLOCK FALSE` stands in the configurations of `CommandChannel`,
`Connection`, `StartClean` and `Discovery`: when all calls have come back, after a
shutdown, or when all forms are done, nothing is left to do; and in those of
`MCAlgorithms`, where a behaviour is one input. The coordinator, the broadcasts, the map
and the state of the robot must never stop, and are checked for deadlock.

### Fairness

* `CommandChannel`: weak fairness of each call once begun. asyncio runs what is
  ready and every wait of a command has a timeout. Nothing is asked of the robot,
  the network or the listener.
* `Connection`: weak fairness of the listener, the keep-alive and the end of
  `disconnect()`, for the same reason; strong fairness of a successful connection
  and of one that survives its wake burst: the robot's address accepts a
  connection again and again if tried again and again. Without that no client
  could listen again.
* `StartClean`: weak fairness of each call.
* `Coordinator`: weak fairness of setup, tasks and polls; of broadcasts and of the
  silences in which the coordinator polls; strong fairness of a map that is
  answered and of a status query that is answered. `DockIsRefreshed` and
  `MapArrives` say that the code asks again after each failure, not that the robot
  answers. `DeafSpec` asks nothing of the robot.
* `Discovery`: weak fairness of the flow, one coroutine that Home Assistant runs, and
  of the timeout of its command; strong fairness of the robot's dealing with what it
  was sent, for as long as messages pile up it may have to wait; strong fairness of
  `Ask`, which stands for the 50 ms of quiet that end draining: broadcasts are
  further apart than that.

## 5. Proofs

`CommandChannelProofs`, from `ConstantsOK` only:

* `TypeInductive`: `TypeOK` alone is not inductive, because `Tail(lockQ)` needs a
  call that waits for a response to be the head of the lock's queue. `TypeInv`
  adds who is where in that queue and that a call that waits has begun an attempt.
* `OnceInductive`: `AtMostOnce` alone is not inductive, because the frame that
  executes a command was sent long before. `OnceInv` counts, for a command that is
  not idempotent, executions together with frames on the wire and orphans: at most
  one in all, and none as long as the call has not been sent or was sent in vain,
  which is exactly when `MayRepeat` lets it be sent again. The frames
  `<<c, 1>>` and `<<c, 2>>` are told apart, so the proof follows one frame of one
  command; lemmas `Wire*` say what each kind of step does to its places on the
  wire. `AtMostOnceHolds` and `RefusedNeverRunsHolds` follow.
* `TwiceInductive`: the frames of a command anywhere together with its executions
  are at most the attempts it has begun (`TwiceInv`), whether idempotent or not. The
  contract counts executions, and this is what bounds them.
* `OpenInductive`: a command has no outcome as long as its call has not returned.
* `KeepsContractHolds`: `Spec => KeepsContract`, the refinement. The initial state maps
  to the contract's, and each step to an execution (`Run`), a return (`Finish`) or a stutter
  (`CallerFinishes`, `RobotRuns`, `EnvironmentRuns`); that an execution is allowed by the contract is
  `TwiceInv` and `OnceInv`, that a return is its first is `OpenInductive`.
* `StaleInductive`: `WrongAnswerIsStale` says of a returned call that nobody else's
  answer was about; for that, `StaleOK(b)` follows the frames and answers of `b`: a call
  holds no answer until it is done, one that awaits the connection has its first
  error recorded, and while all is well with `b` (`Clean`) nobody else has its answer
  and at most one frame of `b` is under way, only while `b` itself waits for it.

`BroadcastDedupProofs`, from `DedupAssumption` only:

* `DedupInductive`: what is dropped is invisible because the cached payload is
  still in the state (`CacheReflected`), unless a poll has overwritten it. That
  needs that nobody but the listener and polls writes while the cache holds
  something (`CacheOfListener`) and that a payload that raised is not remembered.
* `DropsAreInvisibleHolds` and `KnownIsSeenHolds` are the properties the run checks.
* `FrameSurvivesHolds`, about the frames that carry broadcasts and commands: what
  `MCAlgorithms` checks at the edges of the length byte holds for every key, device id,
  short topic and payload. `FullTopicPlaces` says where the slashes of a full topic
  are, `ShortOfFull` that the part after the third is the one that was asked for,
  `ParsedFrame` what is read of the first `n` bytes.

`RobotViewProofs`, from `CodeAssumption` and `ViewAssumption`:

* `TypeCorrect`: whatever the robot sends, the state is well typed; it needs that an
  unknown status becomes `UNKNOWN` and an absent sub-field keeps the old value.
* `EntitiesAgreeHolds` follows from the types alone, which is the point: no history
  of sticky fields can make the two entities disagree.
* `ResumesWhatIsPausedHolds`: a message of the robot itself decides the pause
  whatever the state was before (`ToldLemma`), over every shape it may send; only
  the types are needed besides.
* `OneClearPerTaskHolds` needs `ClearInv`: after the first clearing of a task the
  coordinator knows of the session and no state of the task denies it; after the
  task, either it still believes in the session or the state does not begin one.
* `ShowsWhatItSaidHolds` needs `NewInv`: whoever has heard only the new firmware has no
  docking fields of the old one in its sticky state.

`ConnectionProofs`, from `ConnectionAssumption` only:

* `TypeCorrect`, in two halves, flags and values: every step disturbs few of each.
* `FlagsNeedReaderHolds`: inductive as it stands, since the finally clause and
  `disconnect()` lower every flag they may find.
* `LinkInductive`: `OneConnection` alone is not inductive, because `ConnectSucceeds`
  opens a connection next to those there are. `LinkInv` says that `_ws` is the only
  one that can be open and that none is while the listener connects or backs off,
  both only without faults; and for the shutdown, that the listener is off or ended
  when `disconnect()` is done. `OneConnectionHolds` and `ShutdownIsFinalHolds` follow.

`CoordinatorProofs`, from `CoordinatorAssumption`, `PoseAssumption` and `RadixAssumption`:

* `UnavailableNeedsFailuresHolds` is an action property. It needs that the failures
  the coordinator counts are the polls missed since the robot was last heard, which
  every step preserves, and that no step but `PollFails` lowers `available`.
* `DecimationKeepsEndsHolds`, about the trail that is drawn: for every length, budget
  and tail of at least one point that is below the budget, as the constants of the
  renderer are. `StepFits` is the arithmetic of the step.
* `TrailKeepsUpHolds` adds the trail that is recorded, after any broadcasts in any
  order, with any rails, trajectory and map. `Good` is what every broadcast keeps
  (`HearKeeps`): besides `Follows`, the last point of the trail is `last`, whose
  distance decides what is appended (`TrailOk`), and the midline is empty exactly as
  long as no quad was seen (`RailOk`). Each loop in it keeps `Good` or a type:
  `RailPathsType`, `AddQuadsKeep`, and at last `AfterIsGood`.
* `TapsFindTheRoomHolds` and `WallsAreWhereSeenHolds`, for 128 and any other `Radix`
  with one byte for a tag, start from `VarintIsWritten`: the bytes of a number are a
  varint of its value, by induction over the numbers below it. `Stands` says that
  bytes are part of others; a varint that stands somewhere is read there
  (`VarintIsRead`), packed numbers up to the end come back as they were
  (`PackedIsRead`), and one turn of the walk over fields passes a field that stands
  there and takes its numbers (`FieldIsRead`, `StepOver`). The taps add that the
  calibration inverts the pixels of the picture (`CalibrationHolds`), on maps with
  two columns and two rows at least: of fewer the three points make no plane. The
  walls add that a cell is found again in its index (`CellOfIndex`).

`StartCleanProofs`, from `CallsAssumption` only:

* `TypeCorrect`.
* `JobInductive`: `OneJobPerPress` alone is not inductive, since the request that makes
  the job is sent steps before. `CallOK(c)`, for every call that was not misled by an
  answer to another request: its requests on the way, the answers to them and the jobs
  made of them are one at most at every point of its chain, none where it may send
  again, and a chain that reports success has its job. `OneJobPerPressHolds`,
  `ReportIsTrueHolds` and `PreviewIsOfAJobHolds` follow, for any number of calls.
* `FallbacksAskTheSameHolds`, about the payloads of these calls: for any rooms, mode
  and map, whichever payload of the chain the robot understands, it is asked for the
  rooms of the start, for its mode unless the flat schema has none (`NoModeFor`), and
  for one pass unless it is a task whose count is not under the tag of its mode
  (`NoPassesFor`). `MeantBy*` say what one payload of each schema means, through the codes
  of each schema (`ModeRead`); `Asks` is the claim about a chain, to which a payload is
  added in front (`FirstAsks`). `NamedRooms` is the induction over the rooms of the map.
* `ZonesAreWalkedHolds`: for rectangles of any place and size. `CoverageWalks` is the
  induction over the rows: after each the path is a serpentine that ends at the side from
  which the next row begins, two cells higher.

`DiscoveryProofs`, from `DiscoveryAssumption` only:

* `TypeInductive`: `TypeOK` alone is not inductive: as long as the flow talks to the
  robot its prefix is one of the known keys. `WakeFramesType` is about the list of
  frames, which the model builds as a function of the place instead of filtering the
  keys, so that it can be reasoned about.
* `HeardInductive`: a flow that does not talk has nothing on the wire and every message
  to it is true (`WireInv`); after a broadcast the robot is awake and the flow's prefix
  is the robot's key (`PrefixInv`).
  `EntryNamesTheRobotHolds` and `HeardIsAnsweredHolds` follow, for any list of keys.

`MapLayersProofs`, from `LayersAssumption` only:

* What a loop over the items of a frame computes, for a frame of any length. The
  library's induction theorems take an operator and cannot be used; `UpTo` is the
  induction over a set of numbers, from the least element of its complement
  (`NatLessThanWellFounded`, `WFMin`). `Iteration` says that a loop has a run, which
  is what a recursive function needs to be unfolded; `CollectedLoop` and `CarpetsLoop`
  unfold the two loops, `CollectedKeys` and `CarpetsKeys` say what they return: the
  known items followed by new ones, no key twice.
* `TypeCorrect` needs that a render that has begun has a map.
* `SeenInductive`: `SeenIsListed` compares a set with a list by size; `SeenInv` says
  that the keys of the list are that set and that no two items of it share one.
* `MarksInductive`: `LayersFollow` alone is not inductive, since the frame is drawn from
  what the render was given before it waited. `MarksInv` adds that no layers are
  empty ones, and that the job, unless a list was cut since, is the part of the lists
  behind what the trackers count (`JobFits`). `LayersFollowHolds` follows.

Only model-checked:

* liveness under fairness (`CallsComeBack`, `ListensAgain`, `SilentConnectionReplaced`,
  `PressEnds`, `MapArrives`, `DockIsRefreshed`, `FlowEnds`) and ENABLED, which are out
  of the prover's reach;
* five of the ten invariants of `MCAlgorithms`: `DecoderLosesNothing`, `FramesSurvive`,
  `AllRoomsArrive`, `RepairsAreDue` and `OutlinesHold`. They are about the recursive
  operators of `Decoder` and `MapGrid` and the bits `Capture` takes apart, which the
  prover cannot read. Of `FramesSurvive` the half about frames is proved
  (`FrameSurvivesHolds`), that about captures is not.

`TypeOK` is proved for every state machine (in `BroadcastDedup` within
`DedupInductive`). In `StartClean`, `MapLayers` and `Discovery` it is not among the
properties of their runs.

## 6. Where code and documentation part

1. **Wake answers** (`WakeAnswersAreDrained`). `client.py:680-681` says that the
   response to a burst's query is harmlessly drained before real commands. The queue
   is drained once, before the command's frame is sent. In the trace the keep-alive
   sends its burst while no command runs; then a command drains the queue, still
   empty, and sends its frame; only now the robot answers the burst's query, and the
   command takes that answer for its own.
2. **ensure_awake** (`TrueMeansBroadcasting`). For a stale robot it calls
   `wake(force=True)`, whose poll looks at `_robot_awake`, still true from before
   the silence: it returns True for a robot that has not said a word.
3. **Room names** (`RoomNamesMatchTheApp`). `vacuum.py:320` says that the names match
   the app exactly. The decoder reads what can be read as a message as one, and many
   names can: "Emily" is a fixed32 field, "H1" an integer. The name is then the text
   of a dictionary (`models.py:388`); an empty name that is sent is the text "{}".

The following were met in the models as well and have no run of their own. First
those that are stated as a definition which TLC refutes:

* `StartClean!PreviewIsLastTold`: `stop()` clears `active_zones` and then waits for
  the lock; the zone clean that holds it sets them afterwards.
* `Coordinator!FastPollingEnds` (under `DeafSpec`): a failed poll returns before the
  countdown, so that a robot that stays asleep is polled every 10 s for ever, not for
  the 60 s of `coordinator.py:25`.
* `BroadcastDedup!DropsChangeNothing`: after `get_status` has overwritten the status
  with the stale answer `models.py:1142-1143` warns of, the repeated broadcast that
  would correct it is dropped, although `client.py:516-519` says that a drop changes
  nothing.
* `MapLayers!NoMarksOfLastSession`: the camera compares the lengths of the lists with
  what it has drawn (`camera.py:523-526`). If the new strip is as long as what was
  drawn of the old one when a render comes to it, the old marks stay on the layer and
  as many new ones are never drawn.
* `RobotView!OffDockIsBelieved`: `dock_activity` of an older message outlives the
  departure, so in STANDBY a robot whose two indicators say off-dock is shown docked.
* `Algorithms!PassesArrive`: by `client.py:1268-1271` and `1296-1299` the pass count of
  a CleanParam goes in the tag of its mode, 5, 6 or 7. The three payloads of
  `clean/start_clean` have it under 7 in every mode (`client.py:1567`, `1710`, `1785`;
  only vacuum+mop is validated), so a task that vacuums or mops only carries no count
  under its own tag. `FallbacksAskTheSame` leaves the passes of those tasks out.
* `Algorithms!PathsAreConnected`: `client.py:1517` says that adjacent points of a zone's
  path differ by 1. At the end of a row the path goes on two rows higher (step 2), and
  `IsSerpentine` asks for no more than that.
* `Discovery!PrefixIsLockedIn`: `const.py:20-22` says that the prefix that got an
  answer is locked in; an answer (`client.py:311`) returns with the prefix of the last
  frame probed, only a broadcast (`client.py:322`) sets it. `get_device_info` then
  asks under the wrong key.
* `Discovery!AllKeysProbed`: the client cycles through the keys, five frames at once
  and then one per silence of two seconds, from the head of the list again: the 15 s of
  the timeout reach 8 of the 25 frames. The keys behind them, which include the one
  `const.py:37` calls confirmed, are tried only if the user picks the model.

Then those that follow from the models without a property.

* A message handler that raises, or a listener that meets a command reading the
  socket, forgets the connection without closing it, and `connect()` opens another:
  `OneConnection` needs `faults = 0`, although `coordinator.py:404-405` speaks of a
  single connection per address.
* A late rejection of another request may be taken for the answer to a start, and
  `_send_start_clean` then sends the start again though the robot has launched the
  first one: `OneJobPerPress` excepts calls that were `misled`, although the
  changelog (lines 31-32) promises that a start is never repeated.
* `send_command` documents two exceptions (`client.py:941-943`), yet a command that
  waits for the lock while `disconnect()` clears `_ws` raises `AttributeError`
  (outcome `crashed`).
* `disconnect()` promises to stop all tasks (`client.py:355`), yet a listener nobody
  cancels that is inside `connect()` at that moment binds a new socket and listens
  again; the integration cancels its listener, which is what `ShutdownIsFinal`
  relies on.
* `coordinator.py:114` speaks of five minutes before entities go unavailable; five
  fast polls of 10 s suffice.
* When the status of a new session arrives, `map_display_data` is still the last
  frame of the old one; its rails are accumulated again right after the clearing,
  although `coordinator.py:36` has the strip cleared on new sessions.
* `get_device_info` takes the code of a rejection (field 1) for a product key;
  `EntryNamesTheRobot` excepts entries that were made of one (`told`).
* Rooms without a name get a default name that depends on the model, and the model is
  asked for once, at setup (`coordinator.py:128`). A robot that sleeps then is given
  other names, and the repair issue about changed rooms is raised (`RepairsAreDue`
  excepts it); so is it by an answer to `get_map` without rooms.
* The outline of a room is its longest loop; for a comb-shaped hole that is the hole
  (`OutlinesHold` speaks of rooms whose outer loop is the longest).
* A point of a rail that is not finite is dropped from its rail alone, and the pairing
  of the two rails by index shifts (`coordinator.py:353-360`).
* The trail is kept relative to the origin of the saved map at the time, and is not
  moved when a new map has another origin; and when the trajectory grows old, the pose
  jumps back to the last one of `display_map`.
* `decode_ws_pcap.py:101` compares three bytes with `b"HTTP"`: the preamble of a server
  is never skipped, although the docstring says so. `CaptureShows` has a client's.
* `models.py:743` documents `active_zones` as grid coordinates; `start_zone` stores
  world coordinates.
* Vacuum-then-mop is sent in the flat payload as mode 3, which `const.py` says has no
  equivalent there, and the default fan differs between the schemas (2, 3 and 3);
  `FallbacksAskTheSame` leaves both out (`NoModeFor`; fan levels are not compared).
* `async_clean_segments` of no room at all starts the whole house.
* `dock_sub_state` is sticky, so the condition of `is_returning` that requires both
  signs may be voided by an old one; a robot that is asleep when the integration starts
  may be shown cleaning, from its memory (`PollRemembered`).
* `set_fan_speed` and `set_mop_humidity` ignore the response, and `select.py` shows the
  level of the last status message alone.
* `models.py:1139-1147` warns that `full_update` applies remembered values; the
  coordinator always polls with it.

## 7. Not modelled

* Other entities: a table from state to value, or one command. The renderer's drawing,
  except what is drawn on which layer and the arithmetic of pixels. The tools but
  `decode_ws_pcap`: scripts, no part of the integration. The map scale option, setup,
  migration and unloading of an entry: they store a value or hand over.
* Fields of the state that are stored and shown as they come (battery, faults, station,
  upgrade), obstacles and the dock's place on the map, the rectangles of the cleaned
  strip (floating-point geometry; `MapLayers` has their life, `Pose` their pairs).
* Byte formats are payloads in the modules of the connection, bytes in `Decoder`,
  `Frames`, `Rooms` and `Grid`, with smaller widths. Floats are integers in units of
  a quarter cell, with one value for what is not finite; zlib is the identity on the
  packed bytes, since every use decompresses first.
* Time is a class of ages or a count of ticks; the lengths of timeouts matter only
  by what they may race with, and every such race is allowed.
* `websockets`, Home Assistant's `DataUpdateCoordinator` and the robot are external:
  modelled by how the code uses them.
