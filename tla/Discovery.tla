------------------------------ MODULE Discovery ------------------------------
(***************************************************************************)
(* The config flow: it connects to an address, wakes whatever robot is     *)
(* there and finds out its id and its product key (discover_device_id,     *)
(* drain_ws_buffer, get_device_info), and makes a config entry of them.    *)
(* Nothing listens to the socket but the flow itself.                      *)
(*                                                                         *)
(* The robot is external: it may sleep through a frame, answers frames     *)
(* that carry its own product key, may reject others, and broadcasts while *)
(* it is awake.  A frame is the key in its topic; the socket keeps the     *)
(* order of each direction, and what is in toClient has arrived.           *)
(***************************************************************************)
EXTENDS Integers, SequencesExt, FiniteSetsExt

CONSTANTS
  NumKeys,      \* the known product keys are 1..NumKeys, 1 the default
  RobotKeys,    \* the keys the robot may have
  Models,       \* what the user may choose: keys, and AutoDetect
  BatchSize,    \* wake frames sent at once (5)
  Deadline,     \* the timeout of discover_device_id (15)
  Silence,      \* how long a recv waits there (2)
  MaxFlows,     \* a bound on the forms submitted
  MaxRejects,   \* a bound on the rejections of the robot
  MaxWaiting    \* a bound on the messages that wait in the socket

AutoDetect == 0
Bare == -1      \* the wake frame without a prefix
Default == 1

ASSUME DiscoveryAssumption ==
  /\ {NumKeys, BatchSize, Deadline, Silence, MaxFlows, MaxWaiting} \subseteq Nat \ {0}
  /\ MaxRejects \in Nat
  /\ RobotKeys \subseteq 1..NumKeys /\ RobotKeys # {}
  /\ Models \subseteq 0..NumKeys /\ Models # {}

VARIABLES
  stage,      \* where the flow is
  choice,     \* the model the user has chosen
  prefix,     \* topic_prefix, without the slash
  deviceId,   \* device_id of the client, "" if it has none
  wakeIndex,  \* the wake frame that is sent next
  left,       \* seconds to the deadline of the discovery
  probed,     \* history: the frames sent by this discovery
  found,      \* history: what ended it: "no", "answer" or "broadcast"
  toRobot, toClient,
  robotKey, awake, rejects,
  entries,    \* the config entries
  flows       \* forms submitted

client == <<choice, prefix, deviceId, wakeIndex, left, probed, found>>
robot == <<robotKey, awake, rejects>>
vars == <<stage, client, toRobot, toClient, robot, entries, flows>>

Stages == {"form", "connecting", "listening", "draining", "asking", "created", "aborted"}
Frames == (1..NumKeys) \cup {Bare}
RobotId == "id"

\* An answer has the fields of DeviceInfo, a rejection a code in field 1, which
\* get_device_info takes for a product key; a broadcast has both in its topic.
Answer == [kind : {"answer"}, key : 1..NumKeys, id : {RobotId}]
Rejection == [kind |-> "answer", key |-> Bare, id |-> ""]
Broadcasts == [kind : {"broadcast"}, key : 1..NumKeys, id : {RobotId}]
Messages == Answer \cup {Rejection} \cup Broadcasts
Entries == [key : Frames, id : {RobotId, ""}, told : BOOLEAN]
-----------------------------------------------------------------------------
FlowTypes ==
  /\ stage \in Stages /\ choice \in Models
  /\ prefix \in Frames /\ deviceId \in {RobotId, ""}
  /\ wakeIndex \in 0..NumKeys /\ left \in 0..Deadline
  /\ probed \subseteq Frames /\ found \in {"no", "answer", "broadcast"}

WireTypes == toRobot \in Seq(Frames) /\ toClient \in Seq(Messages)

RobotTypes == robotKey \in RobotKeys /\ awake \in BOOLEAN /\ rejects \in 0..MaxRejects

EntryTypes == entries \subseteq Entries /\ flows \in 0..MaxFlows

TypeOK == FlowTypes /\ WireTypes /\ RobotTypes /\ EntryTypes

Init ==
  /\ stage = "form" /\ choice \in Models
  /\ prefix = Default /\ deviceId = ""
  /\ wakeIndex = 0 /\ left = 0 /\ probed = {} /\ found = "no"
  /\ toRobot = <<>> /\ toClient = <<>>
  /\ robotKey \in RobotKeys /\ awake \in BOOLEAN /\ rejects = 0
  /\ entries = {} /\ flows = 0
-----------------------------------------------------------------------------
\* The current prefix, the bare topic, then the known keys in order without the
\* prefix, which is one of them as long as the flow asks.
WakeFrames ==
  <<prefix, Bare>> \o [i \in 1..NumKeys - 1 |-> IF i < prefix THEN i ELSE i + 1]

\* The form is submitted: a client of its own, with the prefix of the model.
Submit ==
  /\ stage \in {"form", "aborted"} /\ flows < MaxFlows
  /\ stage' = "connecting" /\ flows' = flows + 1
  /\ choice' \in Models
  /\ prefix' = IF choice' = AutoDetect THEN Default ELSE choice'
  /\ deviceId' = "" /\ wakeIndex' = 0 /\ left' = 0 /\ probed' = {} /\ found' = "no"
  /\ UNCHANGED <<toRobot, toClient, robot, entries>>

\* The finally clause: the client is disconnected, whatever happened.
Disconnected == toRobot' = <<>> /\ toClient' = <<>>

\* An exception of any call: the form is shown again with an error.
Fails ==
  /\ stage' = "form" /\ Disconnected
  /\ UNCHANGED <<client, robot, entries, flows>>

ConnectFails == stage = "connecting" /\ Fails

\* connect and the first batch.
Connects ==
  /\ stage = "connecting" /\ stage' = "listening"
  /\ toRobot' = SubSeq(WakeFrames, 1, Min({BatchSize, Len(WakeFrames)}))
  /\ probed' = Range(toRobot')
  /\ left' = Deadline
  /\ UNCHANGED <<choice, prefix, deviceId, wakeIndex, found, toClient, robot, entries, flows>>
-----------------------------------------------------------------------------
Arrived(kind) == toClient # <<>> /\ Head(toClient).kind = kind

\* An answer with an id ends the discovery; without one it is passed over.
HearAnswer ==
  /\ stage = "listening" /\ left > 0 /\ Arrived("answer")
  /\ toClient' = Tail(toClient)
  /\ IF Head(toClient).id # ""
       THEN stage' = "draining" /\ deviceId' = Head(toClient).id /\ found' = "answer"
       ELSE UNCHANGED <<stage, deviceId, found>>
  /\ UNCHANGED <<choice, prefix, wakeIndex, left, probed, toRobot, robot, entries, flows>>

\* Mutant: the id of the topic is taken, its key is not.
HearBroadcast_IdOnly ==
  /\ stage = "listening" /\ left > 0 /\ Arrived("broadcast")
  /\ stage' = "draining" /\ found' = "broadcast"
  /\ deviceId' = Head(toClient).id
  /\ toClient' = Tail(toClient)
  /\ UNCHANGED <<choice, prefix, wakeIndex, left, probed, toRobot, robot, entries, flows>>

\* A broadcast has the key and the id in its topic.
HearBroadcast ==
  /\ stage = "listening" /\ left > 0 /\ Arrived("broadcast")
  /\ stage' = "draining" /\ found' = "broadcast"
  /\ deviceId' = Head(toClient).id /\ prefix' = Head(toClient).key
  /\ toClient' = Tail(toClient)
  /\ UNCHANGED <<choice, wakeIndex, left, probed, toRobot, robot, entries, flows>>

\* Mutant: every silence starts it anew.
Patience_None == 0

\* How long a recv waits.
Patience == Min({left, Silence})

\* Nothing for two seconds: the wake frames are sent again, one by one.
Silent ==
  /\ stage = "listening" /\ left > 0 /\ toClient = <<>> /\ Len(toRobot) < MaxWaiting
  /\ left' = left - Patience
  /\ LET frame == WakeFrames[wakeIndex + 1]
     IN  toRobot' = Append(toRobot, frame) /\ probed' = probed \cup {frame}
  /\ wakeIndex' = (wakeIndex + 1) % Len(WakeFrames)
  /\ UNCHANGED <<stage, choice, prefix, deviceId, found, toClient, robot, entries, flows>>

GivesUp == stage = "listening" /\ left = 0 /\ Fails
-----------------------------------------------------------------------------
\* drain_ws_buffer: what has arrived is thrown away, until nothing comes.
Drain ==
  /\ stage = "draining" /\ toClient # <<>>
  /\ toClient' = <<>>
  /\ UNCHANGED <<stage, client, toRobot, robot, entries, flows>>

\* get_device_info asks with the prefix and the id that are known by now.
Ask ==
  /\ stage = "draining" /\ toClient = <<>> /\ Len(toRobot) < MaxWaiting
  /\ stage' = "asking" /\ toRobot' = Append(toRobot, prefix)
  /\ UNCHANGED <<client, toClient, robot, entries, flows>>

\* A broadcast is applied to the state of the client, which nobody looks at.
SkipBroadcast ==
  /\ stage = "asking" /\ Arrived("broadcast")
  /\ toClient' = Tail(toClient)
  /\ UNCHANGED <<stage, client, toRobot, robot, entries, flows>>

\* Mutant: the entry gets the key the user has chosen.
ResolvedKey_Chosen(key) == IF choice = AutoDetect THEN key ELSE choice

\* The key that actually worked.
ResolvedKey(key) == key

\* The first answer, whichever request it is of and whatever it says.
Told ==
  /\ stage = "asking" /\ Arrived("answer")
  /\ LET info == Head(toClient)
     IN  /\ prefix' = info.key
         /\ IF \E e \in entries : e.id = info.id
              THEN stage' = "aborted" /\ UNCHANGED entries
              ELSE /\ stage' = "created"
                   /\ entries' = entries \cup {[key |-> ResolvedKey(info.key), id |-> info.id,
                                                told |-> info # Rejection]}
  /\ Disconnected
  /\ UNCHANGED <<choice, deviceId, wakeIndex, left, probed, found, robot, flows>>

Answered == \E i \in DOMAIN toClient : toClient[i].kind = "answer"

\* No answer within the timeout of the command, in which the robot has dealt with
\* what it was sent; broadcasts do not put it off.
AskTimesOut == stage = "asking" /\ toRobot = <<>> /\ ~Answered /\ Fails

\* The socket is lost: discovery and command raise, draining just ends.
SocketLost == stage \in {"listening", "asking", "draining"} /\ Fails

\* Another integration entry is added: the user begins again.
Again ==
  /\ stage = "created" /\ flows < MaxFlows
  /\ stage' = "form"
  /\ UNCHANGED <<client, toRobot, toClient, robot, entries, flows>>
-----------------------------------------------------------------------------
Room == Len(toClient) < MaxWaiting

RobotAnswers ==
  /\ toRobot # <<>> /\ Head(toRobot) = robotKey /\ Room
  /\ toRobot' = Tail(toRobot) /\ awake' = TRUE
  /\ toClient' = Append(toClient, [kind |-> "answer", key |-> robotKey, id |-> RobotId])
  /\ UNCHANGED <<stage, client, robotKey, rejects, entries, flows>>

\* A sleeping robot may miss a frame; any robot ignores one that is not for it.
RobotIgnores ==
  /\ toRobot # <<>> /\ (Head(toRobot) # robotKey \/ ~awake)
  /\ toRobot' = Tail(toRobot)
  /\ UNCHANGED <<stage, client, toClient, robot, entries, flows>>

RobotRejects ==
  /\ toRobot # <<>> /\ Head(toRobot) # robotKey /\ rejects < MaxRejects /\ Room
  /\ toRobot' = Tail(toRobot) /\ rejects' = rejects + 1
  /\ toClient' = Append(toClient, Rejection)
  /\ UNCHANGED <<stage, client, robotKey, awake, entries, flows>>

RobotBroadcasts ==
  /\ stage \in {"listening", "draining", "asking"} /\ awake /\ Room
  /\ toClient' = Append(toClient, [kind |-> "broadcast", key |-> robotKey, id |-> RobotId])
  /\ UNCHANGED <<stage, client, toRobot, robot, entries, flows>>

RobotSleeps ==
  /\ awake /\ stage \in {"form", "aborted", "created"} /\ awake' = FALSE
  /\ UNCHANGED <<stage, client, toRobot, toClient, robotKey, rejects, entries, flows>>
-----------------------------------------------------------------------------
Flow ==
  \/ Connects \/ HearAnswer \/ HearBroadcast \/ Silent \/ GivesUp
  \/ Drain \/ Ask \/ SkipBroadcast \/ Told \/ AskTimesOut

Robot == RobotAnswers \/ RobotIgnores \/ RobotRejects

Next ==
  \/ Submit \/ Again \/ ConnectFails \/ SocketLost \/ Flow
  \/ Robot \/ RobotBroadcasts \/ RobotSleeps

\* The flow is one coroutine that HA runs, and a robot deals with what it is sent.
\* The command has a timeout, whatever arrives; broadcasts are further apart than
\* the 50 ms after which the buffer counts as drained.
Spec ==
  /\ Init /\ [][Next]_vars
  /\ WF_vars(Flow) /\ SF_vars(Robot) /\ WF_vars(AskTimesOut) /\ SF_vars(Ask)
-----------------------------------------------------------------------------
\* An entry has the key and the id of the robot, whatever model was chosen, and
\* whatever probe the answer was to; unless the answer was a rejection of one,
\* which get_device_info takes for an identity.
EntryNamesTheRobot ==
  \A e \in entries : e.told => e.key = robotKey /\ e.id = RobotId

\* A robot that was found by its broadcast is asked under its own key, so that
\* the flow gets its answer.
HeardIsAnswered ==
  stage = "asking" /\ found = "broadcast" => Answered \/ Contains(toRobot, robotKey)

\* Every submitted form comes to an end: an entry, an abort or an error.
FlowEnds == stage = "connecting" ~> stage \in {"form", "created", "aborted"}

\* const.py:20-22: the client cycles through the known keys until the robot
\* responds, and then the correct prefix is locked in.
PrefixIsLockedIn == stage \in {"draining", "asking"} => prefix = robotKey
AllKeysProbed == stage = "listening" /\ left = 0 => 1..NumKeys \subseteq probed
=============================================================================
