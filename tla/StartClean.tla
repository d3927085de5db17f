----------------------------- MODULE StartClean -----------------------------
(***************************************************************************)
(* What a press of start, of a room or zone clean, of resume or stop sends *)
(* to the robot: the chains of requests NarwalVacuum and NarwalClient try  *)
(* one after the other, depending on the result codes that come back, and  *)
(* the zone preview the client keeps (active_zones).                       *)
(*                                                                         *)
(* Home Assistant does not serialise the service calls of the entity, so   *)
(* their chains interleave at every await.  One send_command is a Send, a  *)
(* step of the robot, and an Answer or a timeout; how it gets through      *)
(* sockets and retries is module CommandChannel.  An answer carries no     *)
(* identity: the late answer to a request given up on is taken for the     *)
(* answer to the next one.                                                 *)
(***************************************************************************)
EXTENDS Naturals, Sequences

CONSTANTS Calls,  \* the service calls made in a behaviour
          None    \* no zones shown, no call obeyed yet

ASSUME CallsAssumption == None \notin Calls

VARIABLES
  pc,        \* "idle", "waking" (ensure_awake), "map" and "mapRooms"
             \* (get_map), "send", "await", "settle" (the 3 s), "done"
  kind,      \* the service
  request,   \* the request being sent
  retries,   \* of the loop in _send_start_clean
  outcome,   \* "open", "ok", "failed" (a rejection is raised), "raised"
  misled,    \* the call took an answer that was not to its own request
  zones,     \* active_zones: the call whose rectangles it holds, or None
  map,       \* state.map_data, as far as a start looks at it
  toRobot,   \* requests on the wire
  answers,   \* answers on the wire and in the response queue
  launched,  \* jobs the robot has launched for each call
  lastTold   \* the last call whose start or stop the robot has obeyed

callVars == <<pc, kind, request, retries, outcome, misled>>
robotVars == <<toRobot, answers, launched, lastTold>>
vars == <<callVars, zones, map, robotVars>>

Kinds == {"start", "rooms", "zone", "resume", "stop"}

\* task is clean/start_clean; the others of StartRequests are the payloads of
\* clean/plan/start: the default one, the v2 room list after it, the v2 room
\* list of start_rooms, and its legacy form.
StartRequests == {"task", "plan", "planAll", "planRooms", "planFlat"}
Requests == StartRequests \cup {"resume", "stop"}

Codes == {"success", "notApplicable", "refused"}

\* No map, a map without id, one without rooms, and a complete one.
Maps == {"none", "noId", "noRooms", "full"}
HasId == map \in {"noRooms", "full"}
HasRooms == map \in {"noId", "full"}

TypeOK ==
  /\ pc \in [Calls -> {"idle", "waking", "map", "mapRooms", "send", "await",
                       "settle", "done"}]
  /\ kind \in [Calls -> Kinds]
  /\ request \in [Calls -> Requests]
  /\ retries \in [Calls -> 0 .. 3]
  /\ outcome \in [Calls -> {"open", "ok", "failed", "raised"}]
  /\ misled \in [Calls -> BOOLEAN]
  /\ zones \in Calls \cup {None}
  /\ map \in Maps
  /\ toRobot \in Seq(Calls \X Requests)
  /\ answers \in Seq(Calls \X Codes)
  /\ launched \in [Calls -> Nat]
  /\ lastTold \in Calls \cup {None}

Init ==
  /\ pc = [c \in Calls |-> "idle"]
  /\ kind = [c \in Calls |-> "start"]
  /\ request = [c \in Calls |-> "task"]
  /\ retries = [c \in Calls |-> 0]
  /\ outcome = [c \in Calls |-> "open"]
  /\ misled = [c \in Calls |-> FALSE]
  /\ zones = None
  /\ map \in Maps
  /\ toRobot = <<>>
  /\ answers = <<>>
  /\ launched = [c \in Calls |-> 0]
  /\ lastTold = None
-----------------------------------------------------------------------------
\* How a chain goes on: it ends, or it queues for the command lock.
Finish(c, result) ==
  /\ pc' = [pc EXCEPT ![c] = "done"]
  /\ outcome' = [outcome EXCEPT ![c] = result]
  /\ UNCHANGED <<request, retries>>

Try(c, r) ==
  /\ pc' = [pc EXCEPT ![c] = "send"]
  /\ request' = [request EXCEPT ![c] = r]
  /\ UNCHANGED <<retries, outcome>>

WaitAt(c, where) ==
  /\ pc' = [pc EXCEPT ![c] = where]
  /\ UNCHANGED <<request, retries, outcome>>

\* _ensure_awake, which every service but pause begins with.
Press(c) ==
  /\ pc[c] = "idle"
  /\ WaitAt(c, "waking")
  /\ \E k \in Kinds : kind' = [kind EXCEPT ![c] = k]
  /\ UNCHANGED <<misled, zones, map, robotVars>>

\* start_clean_whole, start_clean_rooms and start_zone, up to the first await.
BeginTask(c) == IF HasId THEN Try(c, "task") ELSE WaitAt(c, "map")

\* The wake is over, and the service looks at the state: a paused session is
\* resumed, any other start begins anew.
Awake(c) ==
  /\ pc[c] = "waking"
  /\ \/ /\ kind[c] = "start" /\ Try(c, "resume") /\ UNCHANGED zones
     \/ /\ kind[c] \in {"start", "rooms"} /\ BeginTask(c) /\ zones' = None
     \/ /\ kind[c] = "zone" /\ BeginTask(c) /\ UNCHANGED zones
     \/ /\ kind[c] = "resume" /\ Try(c, "resume") /\ UNCHANGED zones
     \/ /\ kind[c] = "stop" /\ Try(c, "stop") /\ zones' = None
  /\ UNCHANGED <<kind, misled, map, robotVars>>

\* ensure_awake without a connection.
WakeRaises(c) ==
  /\ pc[c] = "waking"
  /\ Finish(c, "raised")
  /\ UNCHANGED <<kind, misled, zones, map, robotVars>>

\* start_rooms, which clears the preview.
TryRooms(c) == Try(c, "planRooms") /\ zones' = None

\* clean/start_clean was rejected for good.  Only NOT_APPLICABLE lets a start
\* or a room clean fall back on clean/plan/start; a start whose mode is not
\* sweep and mop, as a room clean of all rooms.  rooms: the map has some.
TaskRejected(c, code, rooms) ==
  \/ /\ code = "notApplicable" /\ kind[c] = "start"
     /\ Try(c, "plan") /\ zones' = None
  \/ /\ code = "notApplicable" /\ kind[c] = "start"
     /\ IF rooms THEN TryRooms(c)
                 ELSE WaitAt(c, "mapRooms") /\ zones' = None
  \/ /\ code = "notApplicable" /\ kind[c] = "rooms"
     /\ TryRooms(c)
  \/ /\ code # "notApplicable" \/ kind[c] = "zone"
     /\ Finish(c, "failed") /\ UNCHANGED zones

\* get_map before the task; a map without an id counts as NOT_APPLICABLE.
MapArrives(c) ==
  /\ pc[c] = "map"
  /\ map' \in Maps \ {"none"}
  /\ IF HasId' THEN Try(c, "task") /\ UNCHANGED zones
               ELSE TaskRejected(c, "notApplicable", HasRooms')
  /\ UNCHANGED <<kind, misled, robotVars>>

MapRaises(c) ==
  /\ pc[c] = "map"
  /\ Finish(c, "raised")
  /\ UNCHANGED <<kind, misled, zones, map, robotVars>>

\* get_map for _start_all_rooms_with_mode, whose failure is swallowed.
RoomsArrive(c) ==
  /\ pc[c] = "mapRooms"
  /\ map' \in (Maps \ {"none"}) \cup {map}
  /\ IF HasRooms' THEN TryRooms(c) ELSE Finish(c, "raised") /\ UNCHANGED zones
  /\ UNCHANGED <<kind, misled, robotVars>>

\* send_command, once the command lock is free: the responses that have
\* arrived are drained.
Send(c) ==
  /\ pc[c] = "send"
  /\ \A d \in Calls : pc[d] # "await"
  /\ WaitAt(c, "await")
  /\ answers' = <<>>
  /\ toRobot' = Append(toRobot, <<c, request[c]>>)
  /\ UNCHANGED <<kind, misled, zones, map, launched, lastTold>>

\* The frame cannot be sent, or nothing answers it: the service raises.
SendRaises(c) ==
  /\ pc[c] \in {"send", "await"}
  /\ Finish(c, "raised")
  /\ UNCHANGED <<kind, misled, zones, map, robotVars>>

\* Mutant: retried as long as the robot is docked.
RetryTask_NoLimit(c) ==
  /\ pc' = [pc EXCEPT ![c] = "settle"]
  /\ UNCHANGED <<retries, request, outcome, zones>>

\* The loop of _send_start_clean while is_docked holds.
RetryTask(c) ==
  /\ retries[c] < 3
  /\ pc' = [pc EXCEPT ![c] = "settle"]
  /\ retries' = [retries EXCEPT ![c] = @ + 1]
  /\ UNCHANGED <<request, outcome, zones>>

Settled(c) ==
  /\ pc[c] = "settle"
  /\ WaitAt(c, "send")
  /\ UNCHANGED <<kind, misled, zones, map, robotVars>>

\* start_zone remembers what it was told to clean.
ShowZones(c) == IF kind[c] = "zone" THEN zones' = c ELSE UNCHANGED zones

\* Mutant: the zones are remembered whatever the robot answers.
AfterTask_AlwaysShows(c, code) ==
  \/ code = "success" /\ Finish(c, "ok") /\ ShowZones(c)
  \/ code # "success" /\ RetryTask(c)
  \/ /\ code # "success"
     /\ IF kind[c] = "zone" THEN Finish(c, "failed") /\ zones' = c
                            ELSE TaskRejected(c, code, HasRooms)

\* Mutant: the loop does not stop at a success.
AfterTask_NoBreak(c, code) ==
  \/ code = "success" /\ Finish(c, "ok") /\ ShowZones(c)
  \/ RetryTask(c)
  \/ code # "success" /\ TaskRejected(c, code, HasRooms)

\* The answer to clean/start_clean.
AfterTask(c, code) ==
  \/ code = "success" /\ Finish(c, "ok") /\ ShowZones(c)
  \/ code # "success" /\ RetryTask(c)
  \/ code # "success" /\ TaskRejected(c, code, HasRooms)

\* Mutant: a rejected start is not reported.
Report_Silent(c, code) == Finish(c, "ok")

\* What the service makes of the last code of a start.
Report(c, code) == Finish(c, IF code = "success" THEN "ok" ELSE "failed")

\* The answer to clean/plan/start.
AfterPlan(c, code) ==
  \/ /\ code = "notApplicable" /\ request[c] = "plan" /\ HasRooms
     /\ Try(c, "planAll")
  \/ /\ code = "notApplicable" /\ request[c] = "planRooms"
     /\ Try(c, "planFlat")
  \/ /\ ~(code = "notApplicable" /\ request[c] = "plan" /\ HasRooms)
     /\ ~(code = "notApplicable" /\ request[c] = "planRooms")
     /\ Report(c, code)

\* The first response that comes is the answer.
Answer(c) ==
  /\ pc[c] = "await"
  /\ answers # <<>>
  /\ LET code == Head(answers)[2] IN
     CASE request[c] = "task" -> AfterTask(c, code)
       [] request[c] \in StartRequests \ {"task"} ->
            AfterPlan(c, code) /\ UNCHANGED zones
       [] OTHER -> Finish(c, "ok") /\ UNCHANGED zones
  /\ misled' = [misled EXCEPT ![c] = @ \/ Head(answers)[1] # c]
  /\ answers' = Tail(answers)
  /\ UNCHANGED <<kind, map, toRobot, launched, lastTold>>
-----------------------------------------------------------------------------
\* The robot obeys a request and says so, rejects it, or does not hear it.
RobotObeys ==
  /\ toRobot # <<>>
  /\ LET c == Head(toRobot)[1]  r == Head(toRobot)[2] IN
     /\ launched' = IF r \in StartRequests
                    THEN [launched EXCEPT ![c] = @ + 1] ELSE launched
     /\ lastTold' = IF r = "resume" THEN lastTold ELSE c
     /\ answers' = Append(answers, <<c, "success">>)
  /\ toRobot' = Tail(toRobot)
  /\ UNCHANGED <<callVars, zones, map>>

RobotRejects ==
  /\ toRobot # <<>>
  /\ \E code \in Codes \ {"success"} :
       answers' = Append(answers, <<Head(toRobot)[1], code>>)
  /\ toRobot' = Tail(toRobot)
  /\ UNCHANGED <<callVars, zones, map, launched, lastTold>>

RobotDeaf ==
  /\ toRobot # <<>>
  /\ toRobot' = Tail(toRobot)
  /\ UNCHANGED <<callVars, zones, map, answers, launched, lastTold>>

CallStep(c) ==
  \/ Awake(c)      \/ WakeRaises(c)
  \/ MapArrives(c) \/ MapRaises(c) \/ RoomsArrive(c)
  \/ Send(c)       \/ SendRaises(c)
  \/ Settled(c)    \/ Answer(c)

RobotStep == RobotObeys \/ RobotRejects \/ RobotDeaf

Next == \/ \E c \in Calls : Press(c) \/ CallStep(c)
        \/ RobotStep

Spec == Init /\ [][Next]_vars

\* asyncio runs a call that can run, and every wait has its deadline.
FairSpec == Spec /\ \A c \in Calls : WF_vars(CallStep(c))
-----------------------------------------------------------------------------
\* One press launches one job at most, however many requests its chain sends,
\* unless it was misled by an answer to somebody else's request.
OneJobPerPress == \A c \in Calls : launched[c] > 1 => misled[c]

\* A start that is reported to have failed left no job behind, and one that is
\* reported to have worked did launch its job: what the user is told and what
\* the robot does agree, for a call that was not misled.
ReportIsTrue ==
  \A c \in Calls :
    ~misled[c] =>
      /\ outcome[c] = "failed" => launched[c] = 0
      /\ outcome[c] = "ok" /\ request[c] \in StartRequests => launched[c] = 1

\* The rectangles the camera shows are those of a zone clean the robot has
\* taken on, never of a rejected one.
PreviewIsOfAJob == zones # None => launched[zones] = 1 \/ misled[zones]

\* Every press comes to an end: the chain of fallbacks has no cycle.
PressEnds == \A c \in Calls : pc[c] = "waking" ~> pc[c] = "done"

\* What the comment on active_zones says: the zones the robot was last told to
\* clean, cleared by any other clean or stop command.
PreviewIsLastTold == zones # None /\ ~misled[zones] => lastTold = zones
=============================================================================
