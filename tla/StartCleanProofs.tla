-------------------------- MODULE StartCleanProofs --------------------------
(***************************************************************************)
(* What StartClean guarantees for any number of service calls: its types,  *)
(* one job per press, a true report, and a preview of a job, for the calls *)
(* that were not misled by the answer to somebody else's request; and what *)
(* the payloads of these calls say, for any rooms, mode, map and zones.    *)
(* The payloads are made by loops, so there is an induction over what a    *)
(* loop has done so far.                                                   *)
(***************************************************************************)
EXTENDS StartClean, Algorithms, FiniteSetTheorems, WellFoundedInduction, TLAPS

\* The elements of a sequence of requests or answers.
Elems(s) == {s[i] : i \in DOMAIN s}

Never(s, c) == \A e \in Elems(s) : e[1] # c
AtMostOne(s, c) == \A i, j \in DOMAIN s : s[i][1] = c /\ s[j][1] = c => i = j

LEMMA EmptySequence == \A c : Elems(<<>>) = {} /\ Never(<<>>, c) /\ AtMostOne(<<>>, c)
BY DEF Elems, Never, AtMostOne

LEMMA AppendElement ==
  ASSUME NEW S, NEW s \in Seq(S), NEW f \in S, NEW c
  PROVE  /\ Elems(Append(s, f)) = Elems(s) \cup {f}
         /\ f[1] # c /\ AtMostOne(s, c) => AtMostOne(Append(s, f), c)
         /\ Never(s, c) => AtMostOne(Append(s, f), c)
<1>1. /\ DOMAIN s = 1 .. Len(s) /\ Len(s) \in Nat
      /\ DOMAIN Append(s, f) = 1 .. Len(s) + 1
      /\ \A i \in 1 .. Len(s) : Append(s, f)[i] = s[i]
      /\ Append(s, f)[Len(s) + 1] = f
  OBVIOUS
<1>2. 1 .. Len(s) + 1 = (1 .. Len(s)) \cup {Len(s) + 1}
  BY <1>1
<1>3. Elems(Append(s, f)) = Elems(s) \cup {f}
  BY <1>1, <1>2 DEF Elems
<1>4. f[1] # c /\ AtMostOne(s, c) => AtMostOne(Append(s, f), c)
  BY <1>1, <1>2 DEF AtMostOne
<1>5. Never(s, c) => AtMostOne(Append(s, f), c)
  BY <1>1, <1>2 DEF AtMostOne, Never, Elems
<1>. QED  BY <1>3, <1>4, <1>5

LEMMA TailElements ==
  ASSUME NEW S, NEW s \in Seq(S), s # <<>>, NEW c
  PROVE  /\ Tail(s) \in Seq(S) /\ Head(s) \in S
         /\ Elems(Tail(s)) \subseteq Elems(s) /\ Head(s) \in Elems(s)
         /\ AtMostOne(s, c) => AtMostOne(Tail(s), c)
         /\ AtMostOne(s, c) /\ Head(s)[1] = c => Never(Tail(s), c)
<1>1. /\ DOMAIN s = 1 .. Len(s) /\ Len(s) \in Nat /\ Len(s) > 0
      /\ DOMAIN Tail(s) = 1 .. Len(s) - 1
      /\ \A i \in 1 .. Len(s) - 1 : Tail(s)[i] = s[i + 1]
      /\ Head(s) = s[1]
      /\ Tail(s) \in Seq(S) /\ Head(s) \in S
  OBVIOUS
<1>2. /\ 1 \in 1 .. Len(s)
      /\ \A i \in 1 .. Len(s) - 1 : i + 1 \in 1 .. Len(s) /\ i + 1 # 1
      /\ \A i, j \in 1 .. Len(s) - 1 : i + 1 = j + 1 => i = j
  BY <1>1
<1>3. Elems(Tail(s)) \subseteq Elems(s) /\ Head(s) \in Elems(s)
  BY <1>1, <1>2 DEF Elems
<1>4. AtMostOne(s, c) => AtMostOne(Tail(s), c)
  BY <1>1, <1>2 DEF AtMostOne
<1>5. AtMostOne(s, c) /\ Head(s)[1] = c => Never(Tail(s), c)
  BY <1>1, <1>2 DEF AtMostOne, Never, Elems
<1>. QED  BY <1>1, <1>3, <1>4, <1>5
-----------------------------------------------------------------------------
(***************************************************************************)
(* What a step of a call is: one move of its chain.                        *)
(***************************************************************************)

\* The move of a chain that is not over with a result to report.
Goes(c) == \/ \E r \in Requests : Try(c, r)
           \/ \E w \in {"waking", "map", "mapRooms", "send", "await"} : WaitAt(c, w)
           \/ /\ pc' = [pc EXCEPT ![c] = "settle"]
              /\ retries[c] < 3 /\ retries' = [retries EXCEPT ![c] = @ + 1]
              /\ UNCHANGED <<request, outcome>>
           \/ Finish(c, "failed") \/ Finish(c, "raised")

Moves(c) == Goes(c) \/ Finish(c, "ok")

LEMMA TaskRejectedGoes ==
  ASSUME NEW c \in Calls, NEW code, NEW rooms, TaskRejected(c, code, rooms)
  PROVE  Goes(c) /\ zones' \in {zones, None}
BY DEF TaskRejected, TryRooms, Goes, Requests, StartRequests

\* Before its answer a call goes on, and clears the preview or leaves it.
LEMMA QuietGoes ==
  ASSUME NEW c \in Calls,
         \/ Awake(c) \/ WakeRaises(c) \/ MapArrives(c) \/ MapRaises(c)
         \/ RoomsArrive(c) \/ SendRaises(c) \/ Settled(c)
  PROVE  /\ Goes(c) /\ zones' \in {zones, None}
         /\ UNCHANGED <<kind, misled, robotVars>>
         /\ pc[c] \notin {"idle", "done"} /\ (pc[c] = "await" => SendRaises(c))
<1>1. CASE Awake(c)
  <2>1. BeginTask(c) => Goes(c)
    BY DEF BeginTask, Goes, Requests, StartRequests
  <2>. QED  BY <1>1, <2>1 DEF Awake, Goes, Requests, StartRequests
<1>2. CASE MapArrives(c)
  BY <1>2, TaskRejectedGoes DEF MapArrives, Goes, Requests, StartRequests
<1>3. CASE RoomsArrive(c)
  BY <1>3 DEF RoomsArrive, TryRooms, Goes, Requests, StartRequests
<1>4. CASE WakeRaises(c) \/ MapRaises(c) \/ SendRaises(c) \/ Settled(c)
  BY <1>4 DEF WakeRaises, MapRaises, SendRaises, Settled, Goes
<1>. QED  BY <1>1, <1>2, <1>3, <1>4

\* What the answer makes of the chain: rejected, it goes on; accepted, it is done.
LEMMA AnswerMoves ==
  ASSUME TypeOK, NEW c \in Calls, Answer(c), NEW code, code = Head(answers)[2]
  PROVE  \/ /\ code # "success" \/ request[c] \notin StartRequests
            /\ Goes(c) /\ zones' \in {zones, None}
         \/ /\ code = "success" \/ request[c] \notin StartRequests
            /\ Finish(c, "ok")
            /\ zones' = zones \/ (zones' = c /\ request[c] = "task")
<1>1. CASE request[c] = "task"
  <2>1. AfterTask(c, code)
    BY <1>1 DEF Answer
  <2>2. CASE code = "success" /\ Finish(c, "ok") /\ ShowZones(c)
    BY <1>1, <2>2 DEF ShowZones
  <2>3. CASE code # "success" /\ RetryTask(c)
    BY <2>3 DEF RetryTask, Goes
  <2>4. CASE code # "success" /\ TaskRejected(c, code, HasRooms)
    BY <2>4, TaskRejectedGoes
  <2>. QED  BY <2>1, <2>2, <2>3, <2>4 DEF AfterTask
<1>2. CASE request[c] \in StartRequests \ {"task"}
  <2>1. AfterPlan(c, code) /\ UNCHANGED zones
    BY <1>2 DEF Answer
  <2>. QED  BY <1>2, <2>1 DEF AfterPlan, Report, Goes, Requests, StartRequests
<1>3. CASE request[c] \notin StartRequests
  <2>1. Finish(c, "ok") /\ UNCHANGED zones
    BY <1>3 DEF Answer, StartRequests
  <2>. QED  BY <1>3, <2>1
<1>. QED  BY <1>1, <1>2, <1>3
-----------------------------------------------------------------------------
(***************************************************************************)
(* Types                                                                   *)
(***************************************************************************)

ChainTypes == /\ pc \in [Calls -> {"idle", "waking", "map", "mapRooms", "send",
                                   "await", "settle", "done"}]
              /\ request \in [Calls -> Requests]
              /\ retries \in [Calls -> 0 .. 3]
              /\ outcome \in [Calls -> {"open", "ok", "failed", "raised"}]

\* A move is well typed and concerns nobody else.
LEMMA MoveTypes ==
  ASSUME TypeOK, NEW c \in Calls, Moves(c)
  PROVE  /\ ChainTypes'
         /\ \A d \in Calls \ {c} : /\ pc'[d] = pc[d] /\ request'[d] = request[d]
                                   /\ outcome'[d] = outcome[d]
<1> USE DEF TypeOK, ChainTypes
<1>1. CASE \E r \in Requests : Try(c, r)
  BY <1>1 DEF Try
<1>2. CASE \E w \in {"waking", "map", "mapRooms", "send", "await"} : WaitAt(c, w)
  BY <1>2 DEF WaitAt
<1>3. CASE /\ pc' = [pc EXCEPT ![c] = "settle"]
           /\ retries[c] < 3 /\ retries' = [retries EXCEPT ![c] = @ + 1]
           /\ UNCHANGED <<request, outcome>>
  <2>1. retries[c] \in 0 .. 3 /\ retries[c] < 3
    BY <1>3
  <2>2. retries[c] + 1 \in 0 .. 3
    BY <2>1
  <2>. QED  BY <1>3, <2>2
<1>4. CASE \E r \in {"ok", "failed", "raised"} : Finish(c, r)
  BY <1>4 DEF Finish
<1>. QED  BY <1>1, <1>2, <1>3, <1>4 DEF Moves, Goes

LEMMA CallType ==
  ASSUME TypeOK, NEW c \in Calls, Press(c) \/ CallStep(c)
  PROVE  /\ TypeOK' /\ Moves(c) /\ zones' \in {zones, None, c}
         /\ \A d \in Calls \ {c} : misled'[d] = misled[d]
         /\ UNCHANGED launched
<1>1. CASE Press(c)
  <2>1. /\ Moves(c) /\ UNCHANGED <<misled, zones, map, robotVars>>
        /\ kind' \in [Calls -> Kinds]
    BY <1>1 DEF Press, Moves, Goes, TypeOK
  <2>. QED  BY <2>1, MoveTypes DEF TypeOK, ChainTypes, robotVars
<1>2. CASE \/ Awake(c) \/ WakeRaises(c) \/ MapArrives(c) \/ MapRaises(c)
           \/ RoomsArrive(c) \/ SendRaises(c) \/ Settled(c)
  <2>1. /\ Moves(c) /\ zones' \in {zones, None}
        /\ UNCHANGED <<kind, misled, robotVars>>
    BY <1>2, QuietGoes DEF Moves
  <2>2. map' \in Maps
    BY <1>2 DEF Awake, WakeRaises, MapArrives, MapRaises, RoomsArrive, SendRaises,
                Settled, TypeOK
  <2>. QED  BY <2>1, <2>2, MoveTypes DEF TypeOK, ChainTypes, robotVars
<1>3. CASE Send(c)
  <2>1. /\ Moves(c) /\ answers' = <<>> /\ toRobot' = Append(toRobot, <<c, request[c]>>)
        /\ UNCHANGED <<kind, misled, zones, map, launched, lastTold>>
    BY <1>3 DEF Send, Moves, Goes
  <2>2. <<c, request[c]>> \in Calls \X Requests
    BY DEF TypeOK
  <2>3. toRobot' \in Seq(Calls \X Requests) /\ answers' \in Seq(Calls \X Codes)
    BY <2>1, <2>2 DEF TypeOK
  <2>. QED  BY <2>1, <2>3, MoveTypes DEF TypeOK, ChainTypes
<1>4. CASE Answer(c)
  <2>1. /\ UNCHANGED <<kind, map, toRobot, launched, lastTold>>
        /\ answers # <<>> /\ answers' = Tail(answers)
        /\ misled' = [misled EXCEPT ![c] = @ \/ Head(answers)[1] # c]
    BY <1>4 DEF Answer
  <2>2. answers' \in Seq(Calls \X Codes)
    BY <2>1 DEF TypeOK
  <2>3. (misled[c] \/ Head(answers)[1] # c) \in BOOLEAN
    OBVIOUS
  <2>4. misled' \in [Calls -> BOOLEAN] /\ \A d \in Calls \ {c} : misled'[d] = misled[d]
    BY <2>1, <2>3, Zenon DEF TypeOK
  <2>5. Moves(c) /\ zones' \in {zones, None, c}
    BY <1>4, AnswerMoves DEF Moves
  <2>. QED  BY <2>1, <2>2, <2>4, <2>5, MoveTypes DEF TypeOK, ChainTypes
<1>. QED  BY <1>1, <1>2, <1>3, <1>4 DEF CallStep

LEMMA RobotType ==
  ASSUME TypeOK, RobotStep
  PROVE  TypeOK'
<1>1. /\ toRobot # <<>> /\ toRobot' = Tail(toRobot)
      /\ UNCHANGED <<callVars, zones, map>>
  BY DEF RobotStep, RobotObeys, RobotRejects, RobotDeaf
<1>2. /\ toRobot \in Seq(Calls \X Requests) /\ answers \in Seq(Calls \X Codes)
  BY DEF TypeOK
<1>3. toRobot' \in Seq(Calls \X Requests) /\ Head(toRobot) \in Calls \X Requests
  BY <1>1, <1>2
<1>4. \A code \in Codes : <<Head(toRobot)[1], code>> \in Calls \X Codes
  BY <1>3
<1>5. answers' \in Seq(Calls \X Codes)
  <2>1. PICK e \in Calls \X Codes : answers' \in {answers, Append(answers, e)}
    BY <1>3, <1>4 DEF RobotStep, RobotObeys, RobotRejects, RobotDeaf, Codes
  <2>2. Append(answers, e) \in Seq(Calls \X Codes)
    BY <1>2
  <2>. QED  BY <1>2, <2>1, <2>2
<1>6. launched' \in [Calls -> Nat] /\ lastTold' \in Calls \cup {None}
  BY <1>3 DEF RobotStep, RobotObeys, RobotRejects, RobotDeaf, TypeOK
<1>. QED  BY <1>1, <1>3, <1>5, <1>6 DEF TypeOK, callVars

\* The variables keep their types.
THEOREM TypeCorrect == Spec => []TypeOK
<1>1. Init => TypeOK
  BY DEF Init, TypeOK, Kinds, Requests, StartRequests
<1>2. TypeOK /\ [Next]_vars => TypeOK'
  <2> SUFFICES ASSUME TypeOK, [Next]_vars PROVE TypeOK'
    OBVIOUS
  <2>1. CASE UNCHANGED vars
    BY <2>1 DEF vars, callVars, robotVars, TypeOK
  <2>. QED  BY <2>1, CallType, RobotType DEF Next
<1>. QED  BY <1>1, <1>2, PTL DEF Spec
-----------------------------------------------------------------------------
(***************************************************************************)
(* One job per press                                                       *)
(***************************************************************************)

NoneAdrift(c) == Never(toRobot, c) /\ Never(answers, c)

\* The request of c or the answer to it is under way, and says what is true of
\* the request c has sent last.
OneAdrift(c) ==
  /\ AtMostOne(toRobot, c) /\ AtMostOne(answers, c)
  /\ Never(toRobot, c) \/ Never(answers, c)
  /\ \A e \in Elems(toRobot) :
       e[1] = c => e[2] = request[c] /\ launched[c] = 0
  /\ \A e \in Elems(answers) :
       e[1] = c => launched[c] = IF e[2] = "success" /\ request[c] \in StartRequests
                                 THEN 1 ELSE 0

\* A call that was not misled: no job before its last request is on the wire, and
\* the one job, if any, is that request's; a call that came back knows of it.
CallOK(c) ==
  /\ launched[c] <= 1
  /\ request[c] \notin StartRequests => launched[c] = 0
  /\ outcome[c] = "open" <=> pc[c] # "done"
  /\ pc[c] \notin {"await", "done"} => NoneAdrift(c) /\ launched[c] = 0
  /\ OneAdrift(c)
  /\ outcome[c] = "failed" => NoneAdrift(c) /\ launched[c] = 0
  /\ outcome[c] = "ok" => /\ NoneAdrift(c)
                          /\ request[c] \in StartRequests => launched[c] = 1
  /\ zones = c => outcome[c] = "ok" /\ request[c] = "task"

JobInv == \A c \in Calls : misled[c] \/ CallOK(c)

\* A chain that goes on with nothing under way and no job launched.
LEMMA GoesQuietly ==
  ASSUME TypeOK, NEW c \in Calls, Goes(c), outcome[c] = "open", zones' # c,
         launched'[c] = 0, NoneAdrift(c)'
  PROVE  CallOK(c)'
<1>1. OneAdrift(c)'
  BY DEF OneAdrift, NoneAdrift, AtMostOne, Never, Elems
<1>2. /\ (outcome'[c] = "open" <=> pc'[c] # "done")
      /\ outcome'[c] # "ok"
  BY DEF Goes, Try, WaitAt, Finish, TypeOK
<1>. QED  BY <1>1, <1>2 DEF CallOK

\* Raising leaves everything as it is.
LEMMA Raises ==
  ASSUME TypeOK, NEW c \in Calls, CallOK(c), outcome[c] = "open", SendRaises(c)
  PROVE  CallOK(c)'
<1>1. /\ pc'[c] = "done" /\ outcome'[c] = "raised"
      /\ UNCHANGED <<request, zones, toRobot, answers, launched>>
  BY DEF SendRaises, Finish, TypeOK, robotVars
<1>. QED  BY <1>1 DEF CallOK, OneAdrift, NoneAdrift

\* The request goes out: the only thing of c under way.
LEMMA Sends ==
  ASSUME TypeOK, NEW c \in Calls, CallOK(c), Send(c)
  PROVE  CallOK(c)'
<1>1. /\ pc[c] = "send" /\ pc'[c] = "await"
      /\ UNCHANGED <<request, outcome, zones, launched>>
      /\ answers' = <<>> /\ toRobot' = Append(toRobot, <<c, request[c]>>)
  BY DEF Send, WaitAt, TypeOK
<1>2. /\ NoneAdrift(c) /\ launched[c] = 0 /\ outcome[c] = "open" /\ zones # c
  BY <1>1 DEF CallOK
<1>3. /\ toRobot \in Seq(Calls \X Requests)
      /\ <<c, request[c]>> \in Calls \X Requests
  BY DEF TypeOK
<1>4. /\ Elems(toRobot') = Elems(toRobot) \cup {<<c, request[c]>>}
      /\ AtMostOne(toRobot', c)
  BY <1>1, <1>2, <1>3, AppendElement DEF NoneAdrift
<1>5. Elems(answers') = {} /\ Never(answers', c) /\ AtMostOne(answers', c)
  BY <1>1, EmptySequence
<1>6. OneAdrift(c)'
  BY <1>1, <1>2, <1>4, <1>5 DEF OneAdrift, NoneAdrift, Never
<1>. QED  BY <1>1, <1>2, <1>6 DEF CallOK

\* c takes the answer to its own request.
LEMMA TakesItsAnswer ==
  ASSUME TypeOK, NEW c \in Calls, CallOK(c), outcome[c] = "open", Answer(c),
         Head(answers)[1] = c
  PROVE  CallOK(c)'
<1> DEFINE code == Head(answers)[2]
<1>1. /\ answers # <<>> /\ answers' = Tail(answers)
      /\ UNCHANGED <<toRobot, launched>>
  BY DEF Answer
<1>2. answers \in Seq(Calls \X Codes)
  BY DEF TypeOK
<1>3. Head(answers) \in Elems(answers) /\ Never(answers', c)
  BY <1>1, <1>2, TailElements DEF CallOK, OneAdrift
<1>4. NoneAdrift(c)'
  BY <1>1, <1>3 DEF CallOK, OneAdrift, NoneAdrift, Never
<1>5. launched[c] = IF code = "success" /\ request[c] \in StartRequests THEN 1 ELSE 0
  BY <1>3 DEF CallOK, OneAdrift
<1>6. zones # c
  BY DEF CallOK
<1>7. CASE /\ code # "success" \/ request[c] \notin StartRequests
           /\ Goes(c) /\ zones' \in {zones, None}
  BY <1>1, <1>4, <1>5, <1>6, <1>7, GoesQuietly, CallsAssumption
<1>8. CASE /\ code = "success" \/ request[c] \notin StartRequests
           /\ Finish(c, "ok")
           /\ zones' = zones \/ (zones' = c /\ request[c] = "task")
  <2>1. /\ outcome'[c] = "ok" /\ pc'[c] = "done" /\ UNCHANGED request
    BY <1>8 DEF Finish, TypeOK
  <2>2. OneAdrift(c)'
    BY <1>4 DEF OneAdrift, NoneAdrift, AtMostOne, Never, Elems
  <2>. QED  BY <1>1, <1>4, <1>5, <1>6, <1>8, <2>1, <2>2 DEF CallOK
<1>. QED  BY <1>7, <1>8, AnswerMoves

\* A step of c itself, unless it misleads c.
LEMMA OwnStep ==
  ASSUME TypeOK, NEW c \in Calls, CallOK(c), Press(c) \/ CallStep(c), ~misled'[c]
  PROVE  CallOK(c)'
<1>1. CASE Press(c)
  <2>1. /\ pc[c] = "idle" /\ pc'[c] = "waking"
        /\ UNCHANGED <<request, outcome, zones, toRobot, answers, launched>>
    BY <1>1 DEF Press, WaitAt, TypeOK, robotVars
  <2>. QED  BY <2>1 DEF CallOK, OneAdrift, NoneAdrift
<1>2. CASE \/ Awake(c) \/ WakeRaises(c) \/ MapArrives(c) \/ MapRaises(c)
           \/ RoomsArrive(c) \/ SendRaises(c) \/ Settled(c)
  <2>1. /\ Goes(c) /\ zones' \in {zones, None}
        /\ UNCHANGED <<toRobot, answers, launched>>
        /\ pc[c] # "done" /\ (pc[c] = "await" => SendRaises(c))
    BY <1>2, QuietGoes DEF robotVars
  <2>2. outcome[c] = "open" /\ zones' # c
    BY <2>1, CallsAssumption DEF CallOK
  <2>3. CASE pc[c] = "await"
    BY <2>1, <2>2, <2>3, Raises
  <2>4. CASE pc[c] # "await"
    <3>1. launched'[c] = 0 /\ NoneAdrift(c)'
      BY <2>1, <2>4 DEF CallOK, NoneAdrift
    <3>. QED  BY <2>1, <2>2, <3>1, GoesQuietly
  <2>. QED  BY <2>3, <2>4
<1>3. CASE Send(c)
  BY <1>3, Sends
<1>4. CASE Answer(c)
  <2>1. outcome[c] = "open"
    BY <1>4 DEF Answer, CallOK
  <2>2. Head(answers)[1] = c
    BY <1>4 DEF Answer, TypeOK
  <2>. QED  BY <1>4, <2>1, <2>2, TakesItsAnswer
<1>. QED  BY <1>1, <1>2, <1>3, <1>4 DEF CallStep

\* Somebody else's step, or the loss of a frame, adds nothing of c.
LEMMA OthersStep ==
  ASSUME NEW c \in Calls, CallOK(c),
         pc'[c] = pc[c], request'[c] = request[c], outcome'[c] = outcome[c],
         launched'[c] = launched[c], zones' = c => zones = c,
         \A e \in Elems(toRobot') : e[1] = c => e \in Elems(toRobot),
         \A e \in Elems(answers') : e[1] = c => e \in Elems(answers),
         AtMostOne(toRobot, c) => AtMostOne(toRobot', c),
         AtMostOne(answers, c) => AtMostOne(answers', c)
  PROVE  CallOK(c)'
<1>1. /\ Never(toRobot, c) => Never(toRobot', c)
      /\ Never(answers, c) => Never(answers', c)
  BY DEF Never
<1>2. OneAdrift(c)'
  BY <1>1 DEF CallOK, OneAdrift
<1>. QED  BY <1>1, <1>2 DEF CallOK, NoneAdrift

LEMMA OtherCall ==
  ASSUME TypeOK, NEW c \in Calls, CallOK(c), NEW d \in Calls, d # c,
         Press(d) \/ CallStep(d)
  PROVE  CallOK(c)'
<1>1. /\ pc'[c] = pc[c] /\ request'[c] = request[c] /\ outcome'[c] = outcome[c]
      /\ launched'[c] = launched[c] /\ (zones' = c => zones = c)
  BY CallType, MoveTypes, CallsAssumption
<1>2. /\ toRobot \in Seq(Calls \X Requests) /\ answers \in Seq(Calls \X Codes)
      /\ <<d, request[d]>> \in Calls \X Requests
  BY DEF TypeOK
<1>3. CASE Send(d)
  <2>1. answers' = <<>> /\ toRobot' = Append(toRobot, <<d, request[d]>>)
    BY <1>3 DEF Send
  <2>2. /\ Elems(toRobot') = Elems(toRobot) \cup {<<d, request[d]>>}
        /\ AtMostOne(toRobot, c) => AtMostOne(toRobot', c)
    <3> DEFINE f == <<d, request[d]>>
    <3>1. f \in Calls \X Requests /\ f[1] # c
      BY <1>2
    <3> HIDE DEF f
    <3>2. /\ Elems(Append(toRobot, f)) = Elems(toRobot) \cup {f}
          /\ AtMostOne(toRobot, c) => AtMostOne(Append(toRobot, f), c)
      BY <1>2, <3>1, AppendElement
    <3>. QED  BY <2>1, <3>2 DEF f
  <2>3. /\ \A e \in Elems(toRobot') : e[1] = c => e \in Elems(toRobot)
        /\ Elems(answers') = {} /\ AtMostOne(answers', c)
    BY <2>1, <2>2, EmptySequence
  <2>. QED  BY <1>1, <2>2, <2>3, OthersStep
<1>4. CASE Answer(d)
  <2>1. answers # <<>> /\ answers' = Tail(answers) /\ toRobot' = toRobot
    BY <1>4 DEF Answer
  <2>2. /\ Elems(answers') \subseteq Elems(answers)
        /\ AtMostOne(answers, c) => AtMostOne(answers', c)
    BY <1>2, <2>1, TailElements
  <2>. QED  BY <1>1, <2>1, <2>2, OthersStep
<1>5. CASE ~(Send(d) \/ Answer(d))
  <2>1. UNCHANGED <<toRobot, answers>>
    BY <1>5, QuietGoes DEF Press, CallStep, robotVars
  <2>. QED  BY <1>1, <2>1, OthersStep
<1>. QED  BY <1>3, <1>4, <1>5

\* The robot obeys or rejects the request of c, or one of somebody else.
LEMMA RobotJob ==
  ASSUME TypeOK, NEW c \in Calls, CallOK(c), RobotStep
  PROVE  CallOK(c)'
<1>1. /\ toRobot # <<>> /\ toRobot' = Tail(toRobot)
      /\ UNCHANGED <<pc, request, outcome, zones>>
  BY DEF RobotStep, RobotObeys, RobotRejects, RobotDeaf, callVars
<1>2. /\ toRobot \in Seq(Calls \X Requests) /\ answers \in Seq(Calls \X Codes)
      /\ launched \in [Calls -> Nat]
  BY DEF TypeOK
<1>3. /\ Head(toRobot) \in Calls \X Requests /\ Head(toRobot) \in Elems(toRobot)
      /\ Elems(toRobot') \subseteq Elems(toRobot)
      /\ AtMostOne(toRobot, c) => AtMostOne(toRobot', c)
      /\ AtMostOne(toRobot, c) /\ Head(toRobot)[1] = c => Never(toRobot', c)
  BY <1>1, <1>2, TailElements
<1>4. CASE RobotDeaf
  BY <1>1, <1>3, <1>4, OthersStep DEF RobotDeaf
<1>5. CASE RobotObeys \/ RobotRejects
  <2>1. PICK code \in Codes :
          /\ answers' = Append(answers, <<Head(toRobot)[1], code>>)
          /\ \/ /\ code = "success"
                /\ launched' = IF Head(toRobot)[2] \in StartRequests
                               THEN [launched EXCEPT ![Head(toRobot)[1]] = @ + 1]
                               ELSE launched
             \/ code # "success" /\ launched' = launched
    BY <1>5 DEF RobotObeys, RobotRejects, Codes
  <2>2. <<Head(toRobot)[1], code>> \in Calls \X Codes
    BY <1>3
  <2>3. /\ Elems(answers') = Elems(answers) \cup {<<Head(toRobot)[1], code>>}
        /\ Head(toRobot)[1] # c /\ AtMostOne(answers, c) => AtMostOne(answers', c)
        /\ Never(answers, c) => AtMostOne(answers', c)
    <3> DEFINE f == <<Head(toRobot)[1], code>>
    <3>1. f \in Calls \X Codes /\ f[1] = Head(toRobot)[1] /\ answers' = Append(answers, f)
      BY <2>1, <2>2
    <3> HIDE DEF f
    <3>2. /\ Elems(Append(answers, f)) = Elems(answers) \cup {f}
          /\ f[1] # c /\ AtMostOne(answers, c) => AtMostOne(Append(answers, f), c)
          /\ Never(answers, c) => AtMostOne(Append(answers, f), c)
      BY <1>2, <3>1, AppendElement
    <3>. QED  BY <3>1, <3>2 DEF f
  <2>4. CASE Head(toRobot)[1] # c
    <3>1. launched'[c] = launched[c]
      BY <1>2, <1>3, <2>1, <2>4
    <3>. QED  BY <1>1, <1>3, <2>3, <2>4, <3>1, OthersStep
  <2>5. CASE Head(toRobot)[1] = c
    <3>1. /\ ~Never(toRobot, c) /\ ~NoneAdrift(c)
          /\ Head(toRobot)[2] = request[c] /\ launched[c] = 0
      BY <1>3, <2>5 DEF CallOK, OneAdrift, NoneAdrift, Never
    <3>2. /\ Never(answers, c) /\ Never(toRobot', c) /\ AtMostOne(toRobot', c)
      BY <1>3, <2>5, <3>1 DEF CallOK, OneAdrift
    <3>3. launched'[c] = IF code = "success" /\ request[c] \in StartRequests
                         THEN 1 ELSE 0
      BY <1>2, <2>1, <2>5, <3>1
    <3>4. OneAdrift(c)'
      BY <1>1, <2>3, <2>5, <3>2, <3>3 DEF OneAdrift, Never
    <3>5. /\ pc[c] \in {"await", "done"} /\ outcome[c] \notin {"ok", "failed"}
          /\ zones # c /\ (outcome[c] = "open" <=> pc[c] # "done")
      BY <3>1 DEF CallOK
    <3>. QED  BY <1>1, <3>3, <3>4, <3>5 DEF CallOK
  <2>. QED  BY <2>4, <2>5
<1>. QED  BY <1>4, <1>5 DEF RobotStep

\* A call once misled stays misled.
LEMMA MisledStays ==
  ASSUME TypeOK, NEW c \in Calls, misled[c], [Next]_vars
  PROVE  misled'[c]
<1>1. CASE \E d \in Calls : Press(d) \/ CallStep(d)
  <2>1. PICK d \in Calls : Press(d) \/ CallStep(d)
    BY <1>1
  <2>2. CASE d # c
    BY <2>1, <2>2, CallType
  <2>3. CASE d = c
    <3>1. CASE Answer(c)
      BY <3>1 DEF Answer, TypeOK
    <3>2. CASE ~Answer(c)
      <4>1. UNCHANGED misled
        BY <2>1, <2>3, <3>2, QuietGoes DEF Press, CallStep, Send
      <4>. QED  BY <4>1
    <3>. QED  BY <3>1, <3>2
  <2>. QED  BY <2>2, <2>3
<1>2. CASE RobotStep \/ UNCHANGED vars
  BY <1>2 DEF RobotStep, RobotObeys, RobotRejects, RobotDeaf, vars, callVars
<1>. QED  BY <1>1, <1>2 DEF Next

\* What is under way, what was launched and what was reported belong together.
THEOREM JobInductive == Spec => []JobInv
<1>1. Init => JobInv
  <2> SUFFICES ASSUME Init, NEW c \in Calls PROVE CallOK(c)
    BY DEF JobInv
  <2>1. /\ pc[c] = "idle" /\ outcome[c] = "open" /\ launched[c] = 0
        /\ toRobot = <<>> /\ answers = <<>> /\ zones # c
    BY CallsAssumption DEF Init
  <2>. QED  BY <2>1, EmptySequence DEF CallOK, OneAdrift, NoneAdrift
<1>2. TypeOK /\ JobInv /\ [Next]_vars => JobInv'
  <2> SUFFICES ASSUME TypeOK, JobInv, [Next]_vars, NEW c \in Calls, ~misled'[c]
               PROVE  CallOK(c)'
    BY DEF JobInv
  <2>1. CallOK(c)
    BY MisledStays DEF JobInv
  <2>2. CASE UNCHANGED vars
    BY <2>1, <2>2
    DEF vars, callVars, robotVars, CallOK, OneAdrift, NoneAdrift
  <2>3. ASSUME NEW d \in Calls, Press(d) \/ CallStep(d) PROVE CallOK(c)'
    BY <2>1, <2>3, OwnStep, OtherCall
  <2>. QED  BY <2>1, <2>2, <2>3, RobotJob DEF Next
<1>. QED  BY <1>1, <1>2, TypeCorrect, PTL DEF Spec

\* One press launches one job at most, unless it was misled.
THEOREM OneJobPerPressHolds == Spec => []OneJobPerPress
<1>1. TypeOK /\ JobInv => OneJobPerPress
  BY DEF TypeOK, JobInv, CallOK, OneJobPerPress
<1>. QED  BY <1>1, TypeCorrect, JobInductive, PTL

\* A start that failed left no job behind, and one that worked launched its job.
THEOREM ReportIsTrueHolds == Spec => []ReportIsTrue
<1>1. JobInv => ReportIsTrue
  BY DEF JobInv, CallOK, ReportIsTrue
<1>. QED  BY <1>1, JobInductive, PTL

\* The zones that are shown are those of a job the robot has taken on.
THEOREM PreviewIsOfAJobHolds == Spec => []PreviewIsOfAJob
<1>1. TypeOK /\ JobInv => PreviewIsOfAJob
  BY DEF TypeOK, JobInv, CallOK, PreviewIsOfAJob, StartRequests
<1>. QED  BY <1>1, TypeCorrect, JobInductive, PTL
-----------------------------------------------------------------------------
\* Induction up to n, for a set of numbers.
LEMMA UpTo ==
  ASSUME NEW n \in Nat, NEW T, 0 \in T, \A i \in 1 .. n : i - 1 \in T => i \in T
  PROVE  \A i \in 0 .. n : i \in T
<1> DEFINE U == {i \in 0 .. n : i \notin T}
<1>1. SUFFICES ASSUME U # {} PROVE FALSE
  OBVIOUS
<1>2. U \subseteq Nat
  OBVIOUS
<1>3. PICK x \in U : \A y \in U : <<y, x>> \notin OpToRel(<, Nat)
  BY <1>1, <1>2, NatLessThanWellFounded, WFMin
<1>4. x \in 1 .. n /\ x - 1 \in T
  <2>1. x \in 1 .. n
    OBVIOUS
  <2>2. <<x - 1, x>> \in OpToRel(<, Nat)
    BY <2>1 DEF OpToRel
  <2>3. x - 1 \notin U
    BY <1>3, <2>2
  <2> QED BY <2>1, <2>3
<1> QED BY <1>4

\* A loop of n steps over S, and what it has computed after each.
Steps(n, S) == [1 .. n -> [S -> S]]

IsRun(l, n, base, step) == l[0] = base /\ \A i \in 1 .. n : l[i] = step[i][l[i - 1]]

\* Every loop has a run.
LEMMA Iteration ==
  ASSUME NEW n \in Nat, NEW S, NEW base \in S, NEW step \in Steps(n, S)
  PROVE  \E l \in [0 .. n -> S] : IsRun(l, n, base, step)
<1>0. step \in [1 .. n -> [S -> S]]
  BY DEF Steps
<1> DEFINE Runs(k) == {l \in [0 .. k -> S] :
                         l[0] = base /\ \A i \in 1 .. k : l[i] = step[i][l[i - 1]]}
           T == {k \in 0 .. n : Runs(k) # {}}
<1>1. 0 \in T
  <2>1. [i \in 0 .. 0 |-> base] \in Runs(0)
    OBVIOUS
  <2> QED BY <2>1
<1>2. ASSUME NEW k \in 1 .. n, k - 1 \in T PROVE k \in T
  <2>1. PICK l \in Runs(k - 1) : TRUE
    BY <1>2
  <2> DEFINE m == [i \in 0 .. k |-> IF i = k THEN step[k][l[k - 1]] ELSE l[i]]
  <2>2. l \in [0 .. k - 1 -> S] /\ l[0] = base
        /\ \A i \in 1 .. k - 1 : l[i] = step[i][l[i - 1]]
    BY <2>1
  <2>3. step[k][l[k - 1]] \in S
    BY <1>0, <2>2
  <2>4. m \in [0 .. k -> S]
    BY <2>2, <2>3
  <2>5. m[0] = base /\ m[k] = step[k][m[k - 1]]
    BY <2>2
  <2>6. \A i \in 1 .. k - 1 : m[i] = step[i][m[i - 1]]
    BY <2>2
  <2>7. m \in Runs(k)
    BY <2>4, <2>5, <2>6
  <2> QED BY <2>7
<1> HIDE DEF T
<1>3. \A k \in 0 .. n : k \in T
  BY <1>1, <1>2, UpTo
<1>4. n \in T
  BY <1>3
<1> QED BY <1>4 DEF T, IsRun
-----------------------------------------------------------------------------
\* What the loop over the rooms of a map does, room by room.
NamesRooms(l, rooms) ==
  /\ l[0] = <<>>
  /\ \A i \in 1 .. Len(rooms) : l[i] = KeepNamed(l[i - 1], rooms[i])
  /\ Named(rooms) = l[Len(rooms)]

LEMMA NamedLoop ==
  ASSUME NEW rooms \in Seq(Nat)
  PROVE  \E l : NamesRooms(l, rooms)
<1> DEFINE n == Len(rooms)
           S == Seq(Nat)
           step == [i \in 1 .. n |-> [x \in S |-> KeepNamed(x, rooms[i])]]
           Runs(g) == g = [i \in 0 .. n |->
                             IF i = 0 THEN <<>> ELSE KeepNamed(g[i - 1], rooms[i])]
           c == CHOOSE g : Runs(g)
<1>1. n \in Nat /\ <<>> \in S
  OBVIOUS
<1>2. ASSUME NEW i \in 1 .. n, NEW x \in S
      PROVE  KeepNamed(x, rooms[i]) \in S
  <2>1. rooms[i] \in Nat
    OBVIOUS
  <2>2. Append(x, rooms[i]) \in S
    BY <2>1
  <2> QED BY <2>2 DEF KeepNamed
<1> HIDE DEF S, n
<1>3. step \in Steps(n, S)
  BY <1>2 DEF Steps
<1>4. PICK m \in [0 .. n -> S] : m[0] = <<>> /\ \A i \in 1 .. n : m[i] = step[i][m[i - 1]]
  <2> HIDE DEF step
  <2>1. \E m \in [0 .. n -> S] : IsRun(m, n, <<>>, step)
    BY <1>1, <1>3, Iteration
  <2> QED BY <2>1 DEF IsRun
<1>5. ASSUME NEW i \in 1 .. n
      PROVE  m[i] = KeepNamed(m[i - 1], rooms[i])
  <2>1. m[i] = step[i][m[i - 1]]
    BY <1>4
  <2>2. m[i - 1] \in S
    BY <1>1, <1>4
  <2>3. step[i] = [x \in S |-> KeepNamed(x, rooms[i])]
    OBVIOUS
  <2> QED BY <2>1, <2>2, <2>3
<1>6. Runs(m)
  BY <1>1, <1>4, <1>5
<1>7. Runs(c)
  BY <1>6
<1>8. Named(rooms) = c[n]
  BY DEF Named, n
<1> HIDE DEF c
<1>9. c[0] = <<>> /\ \A i \in 1 .. n : c[i] = KeepNamed(c[i - 1], rooms[i])
  BY <1>1, <1>7
<1> QED BY <1>8, <1>9 DEF n, NamesRooms

LEMMA RangeOfAppend ==
  ASSUME NEW S, NEW s \in Seq(S), NEW e \in S
  PROVE  Append(s, e) \in Seq(S) /\ Range(Append(s, e)) = Range(s) \cup {e}
<1>1. /\ DOMAIN s = 1 .. Len(s) /\ Len(s) \in Nat
      /\ DOMAIN Append(s, e) = 1 .. Len(s) + 1
      /\ \A i \in 1 .. Len(s) : Append(s, e)[i] = s[i]
      /\ Append(s, e)[Len(s) + 1] = e
  OBVIOUS
<1>2. 1 .. Len(s) + 1 = (1 .. Len(s)) \cup {Len(s) + 1}
  BY <1>1
<1>3. Range(Append(s, e)) = Range(s) \cup {e}
  BY <1>1, <1>2 DEF Range
<1> QED BY <1>3

\* The rooms named after i rooms of the map, those of them that have an id.
FirstRooms(house, i) == {house[j] : j \in 1 .. i} \ {0}
NamesFirst(l, house, i) == l[i] \in Seq(Nat) /\ Range(l[i]) = FirstRooms(house, i)

\* The rooms a start may name are those of the map.
LEMMA NamedRooms ==
  ASSUME NEW house \in Seq(Nat)
  PROVE  Named(house) \in Seq(Nat) /\ Range(Named(house)) = WholeMap(house)
<1> DEFINE n == Len(house)
<1>1. PICK l : NamesRooms(l, house)
  BY NamedLoop
<1> DEFINE U == {i \in 0 .. n : NamesFirst(l, house, i)}
<1>2. n \in Nat
  OBVIOUS
<1>3. NamesFirst(l, house, 0)
  <2>1. l[0] = <<>>
    BY <1>1 DEF NamesRooms
  <2>2. Range(<<>>) = {}
    BY DEF Range
  <2>3. FirstRooms(house, 0) = {}
    BY DEF FirstRooms
  <2>4. <<>> \in Seq(Nat)
    OBVIOUS
  <2> QED BY <2>1, <2>2, <2>3, <2>4 DEF NamesFirst
<1>4. ASSUME NEW i \in 1 .. n, NamesFirst(l, house, i - 1) PROVE NamesFirst(l, house, i)
  <2>1. /\ l[i - 1] \in Seq(Nat) /\ Range(l[i - 1]) = FirstRooms(house, i - 1)
        /\ house[i] \in Nat /\ l[i] = KeepNamed(l[i - 1], house[i])
    BY <1>1, <1>4 DEF NamesRooms, NamesFirst
  <2>2. 1 .. i = (1 .. i - 1) \cup {i}
    BY <1>2
  <2>3. FirstRooms(house, i) = FirstRooms(house, i - 1) \cup ({house[i]} \ {0})
    BY <2>2 DEF FirstRooms
  <2>4. CASE house[i] = 0
    BY <2>1, <2>3, <2>4 DEF KeepNamed, NamesFirst
  <2>5. CASE house[i] # 0
    <3>1. l[i] = Append(l[i - 1], house[i])
      BY <2>1, <2>5 DEF KeepNamed
    <3>2. FirstRooms(house, i) = FirstRooms(house, i - 1) \cup {house[i]}
      BY <2>3, <2>5
    <3>3. /\ Append(l[i - 1], house[i]) \in Seq(Nat)
          /\ Range(Append(l[i - 1], house[i])) = Range(l[i - 1]) \cup {house[i]}
      <4> DEFINE s == l[i - 1]
                 e == house[i]
      <4>1. s \in Seq(Nat) /\ e \in Nat
        BY <2>1
      <4> HIDE DEF s, e
      <4>2. Append(s, e) \in Seq(Nat) /\ Range(Append(s, e)) = Range(s) \cup {e}
        BY <4>1, RangeOfAppend
      <4> QED BY <4>2 DEF s, e
    <3> QED BY <2>1, <3>1, <3>2, <3>3 DEF NamesFirst
  <2> QED BY <2>4, <2>5
<1>5. NamesFirst(l, house, n)
  <2>1. 0 \in U
    BY <1>2, <1>3
  <2>2. \A i \in 1 .. n : i - 1 \in U => i \in U
    BY <1>2, <1>4
  <2> HIDE DEF U
  <2>3. \A i \in 0 .. n : i \in U
    BY <1>2, <2>1, <2>2, UpTo
  <2>4. n \in U
    BY <1>2, <2>3
  <2> QED BY <2>4 DEF U
<1>6. Named(house) = l[n]
  BY <1>1 DEF NamesRooms
<1>7. WholeMap(house) = FirstRooms(house, n)
  BY DEF WholeMap, Range, FirstRooms
<1> QED BY <1>5, <1>6, <1>7 DEF NamesFirst

-----------------------------------------------------------------------------
\* The robot reads a mode from a table in which its code is used once.
LEMMA ModeRead ==
  ASSUME NEW table, NEW mode \in CleanMode, NEW code, table[mode] = code,
         \A m \in CleanMode : table[m] = code => m = mode
  PROVE  ModeOf(table, code) = mode
BY DEF ModeOf

LEMMA ModesRead ==
  ASSUME NEW mode \in CleanMode
  PROVE  /\ ModeOf(V2Modes, CLEAN_MODE_TO_V2[mode]) = mode
         /\ ModeOf(WorkModes, CLEAN_MODE_TO_TASK_TYPE[mode]) = mode
         /\ mode # "SWEEP_THEN_MOP" => ModeOf(LegacyModes, CleanModeValue[mode]) = mode
<1>1. V2Modes[mode] = CLEAN_MODE_TO_V2[mode]
  BY DEF V2Modes, CLEAN_MODE_TO_V2, CleanModeValue, CleanMode
<1>2. \A m \in CleanMode : V2Modes[m] = CLEAN_MODE_TO_V2[mode] => m = mode
  BY DEF V2Modes, CLEAN_MODE_TO_V2, CleanModeValue, CleanMode
<1>3. WorkModes[mode] = CLEAN_MODE_TO_TASK_TYPE[mode]
  BY DEF WorkModes, CLEAN_MODE_TO_TASK_TYPE, CleanMode
<1>4. \A m \in CleanMode : WorkModes[m] = CLEAN_MODE_TO_TASK_TYPE[mode] => m = mode
  BY DEF WorkModes, CLEAN_MODE_TO_TASK_TYPE, CleanMode
<1>5. ASSUME mode # "SWEEP_THEN_MOP"
      PROVE  /\ LegacyModes[mode] = CleanModeValue[mode]
             /\ \A m \in CleanMode : LegacyModes[m] = CleanModeValue[mode] => m = mode
  BY <1>5 DEF LegacyModes, CleanModeValue, CleanMode
<1> QED BY <1>1, <1>2, <1>3, <1>4, <1>5, ModeRead

\* The passes are written under the tag of the mode.
LEMMA PassesRead ==
  ASSUME NEW mode \in CleanMode
  PROVE  PassesTag(mode) = (CASE CLEAN_MODE_TO_V2[mode] = 2 -> 5
                              [] CLEAN_MODE_TO_V2[mode] = 3 -> 6 [] OTHER -> 7)
BY DEF PassesTag, CLEAN_MODE_TO_V2, CleanModeValue, CleanMode

LEMMA MeantByV2 ==
  ASSUME NEW rooms \in Seq(Nat), rooms # <<>>, NEW mode \in CleanMode, NEW house
  PROVE  AsksFor(CleanPayloadV2(rooms, mode), Range(rooms), mode, house)
<1> DEFINE p == CleanPayloadV2(rooms, mode)
           code == CLEAN_MODE_TO_V2[mode]
           item == [i \in DOMAIN rooms |->
                      [room |-> rooms[i], order |-> i, mode |-> code, fan |-> 3, strength |-> 1,
                       passesTag |-> PassesTag(mode), passes |-> 1]]
<1>1. p.schema = "v2" /\ p.items = item /\ p.taskType = CLEAN_MODE_TO_TASK_TYPE[mode]
  BY DEF CleanPayloadV2
<1>2. Range(item) = {item[i] : i \in DOMAIN rooms}
  BY DEF Range
<1>3. {x.room : x \in Range(item)} = Range(rooms)
  <2>1. \A i \in DOMAIN rooms : item[i].room = rooms[i]
    OBVIOUS
  <2> HIDE DEF item
  <2>2. Range(rooms) = {rooms[i] : i \in DOMAIN rooms}
    BY DEF Range
  <2>3. \A x \in Range(item) : x.room \in Range(rooms)
    BY <1>2, <2>1, <2>2
  <2>4. \A r \in Range(rooms) : \E x \in Range(item) : x.room = r
    BY <1>2, <2>1, <2>2
  <2> QED BY <2>3, <2>4
<1>4. 1 \in DOMAIN rooms
  OBVIOUS
<1>5. {ModeOf(V2Modes, x.mode) : x \in Range(item)} = {mode}
  <2>1. \A i \in DOMAIN rooms : item[i].mode = code
    OBVIOUS
  <2>2. ModeOf(V2Modes, code) = mode
    BY ModesRead
  <2> HIDE DEF item, code
  <2>3. \A x \in Range(item) : ModeOf(V2Modes, x.mode) = mode
    BY <1>2, <2>1, <2>2
  <2>4. item[1] \in Range(item)
    BY <1>2, <1>4
  <2> QED BY <2>3, <2>4
<1>6. {PassesOf(x) : x \in Range(item)} = {1}
  <2>1. \A i \in DOMAIN rooms :
          item[i].mode = code /\ item[i].passesTag = PassesTag(mode) /\ item[i].passes = 1
    OBVIOUS
  <2>2. PassesTag(mode) = (CASE code = 2 -> 5 [] code = 3 -> 6 [] OTHER -> 7)
    BY PassesRead
  <2> HIDE DEF item, code
  <2>3. \A x \in Range(item) : PassesOf(x) = 1
    BY <1>2, <2>1, <2>2 DEF PassesOf
  <2>4. item[1] \in Range(item)
    BY <1>2, <1>4
  <2> QED BY <2>3, <2>4
<1> HIDE DEF p, item
<1>7. Meant(p, house) =
        [rooms |-> {x.room : x \in Range(p.items)},
         modes |-> {ModeOf(V2Modes, x.mode) : x \in Range(p.items)} \cup {ModeOf(WorkModes, p.taskType)},
         passes |-> {PassesOf(x) : x \in Range(p.items)}]
  BY <1>1 DEF Meant
<1>8. ModeOf(WorkModes, p.taskType) = mode
  BY <1>1, ModesRead
<1>9. Meant(p, house) = [rooms |-> Range(rooms), modes |-> {mode}, passes |-> {1}]
  BY <1>1, <1>3, <1>5, <1>6, <1>7, <1>8
<1>10. AsksFor(p, Range(rooms), mode, house)
  BY <1>9 DEF AsksFor
<1> QED BY <1>10 DEF p

LEMMA MeantByFlat ==
  ASSUME NEW rooms \in Seq(Nat), rooms # <<>>, NEW mode \in CleanMode, NEW house
  PROVE  AsksFor(RoomCleanPayload(rooms, mode), Range(rooms), mode, house)
<1> DEFINE p == RoomCleanPayload(rooms, mode)
           code == CleanModeValue[mode]
           item == [i \in DOMAIN rooms |->
                      [room |-> rooms[i], mode |-> code, passes |-> 1, suction |-> 3, humidity |-> 2]]
<1>1. p.schema = "flat" /\ p.items = item
  BY DEF RoomCleanPayload
<1>2. Range(item) = {item[i] : i \in DOMAIN rooms}
  BY DEF Range
<1>3. {x.room : x \in Range(item)} = Range(rooms)
  <2>1. \A i \in DOMAIN rooms : item[i].room = rooms[i]
    OBVIOUS
  <2> HIDE DEF item
  <2>2. Range(rooms) = {rooms[i] : i \in DOMAIN rooms}
    BY DEF Range
  <2>3. \A x \in Range(item) : x.room \in Range(rooms)
    BY <1>2, <2>1, <2>2
  <2>4. \A r \in Range(rooms) : \E x \in Range(item) : x.room = r
    BY <1>2, <2>1, <2>2
  <2> QED BY <2>3, <2>4
<1>4. 1 \in DOMAIN rooms
  OBVIOUS
<1>5. ASSUME mode # "SWEEP_THEN_MOP"
      PROVE  {ModeOf(LegacyModes, x.mode) : x \in Range(item)} = {mode}
  <2>1. \A i \in DOMAIN rooms : item[i].mode = code
    OBVIOUS
  <2>2. ModeOf(LegacyModes, code) = mode
    BY <1>5, ModesRead
  <2> HIDE DEF item, code
  <2>3. \A x \in Range(item) : ModeOf(LegacyModes, x.mode) = mode
    BY <1>2, <2>1, <2>2
  <2>4. item[1] \in Range(item)
    BY <1>2, <1>4
  <2> QED BY <2>3, <2>4
<1>6. {x.passes : x \in Range(item)} = {1}
  <2>1. \A i \in DOMAIN rooms : item[i].passes = 1
    OBVIOUS
  <2> HIDE DEF item
  <2>2. item[1] \in Range(item) /\ \A x \in Range(item) : x.passes = 1
    BY <1>2, <1>4, <2>1
  <2> QED BY <2>2
<1> HIDE DEF p, item
<1>7. Meant(p, house) =
        [rooms |-> {x.room : x \in Range(p.items)},
         modes |-> {ModeOf(LegacyModes, x.mode) : x \in Range(p.items)},
         passes |-> {x.passes : x \in Range(p.items)}]
  BY <1>1 DEF Meant
<1>8. Meant(p, house) =
        [rooms |-> Range(rooms), modes |-> {ModeOf(LegacyModes, x.mode) : x \in Range(item)},
         passes |-> {1}]
  BY <1>1, <1>3, <1>6, <1>7
<1>9. /\ Meant(p, house).rooms = Range(rooms) /\ Meant(p, house).passes = {1}
      /\ Meant(p, house).modes = {ModeOf(LegacyModes, x.mode) : x \in Range(item)}
  BY <1>8
<1>10. NoModeFor(p, mode) \/ mode # "SWEEP_THEN_MOP"
  BY <1>1 DEF NoModeFor
<1>11. AsksFor(p, Range(rooms), mode, house)
  BY <1>5, <1>9, <1>10 DEF AsksFor
<1> QED BY <1>11 DEF p

LEMMA MeantByDefault ==
  ASSUME NEW house
  PROVE  AsksFor(DefaultCleanPayload, WholeMap(house), "SWEEP_MOP", house)
BY DEF AsksFor, Meant, DefaultCleanPayload

\* The rooms of an option, and of the n options of a task.
RoomsMeant(option, house) == IF option.type = 3 THEN WholeMap(house) ELSE {option.ref}
AllMeant(options, n, house) == UNION {RoomsMeant(options[i], house) : i \in 1 .. n}

LEMMA MeantByTask ==
  ASSUME NEW options, NEW n \in Nat \ {0}, DOMAIN options = 1 .. n, NEW mode \in CleanMode, NEW house
  PROVE  AsksFor(Task(options, mode), AllMeant(options, n, house), mode, house)
<1> DEFINE p == Task(options, mode)
           code == CLEAN_MODE_TO_V2[mode]
           item == [i \in DOMAIN options |-> [option |-> options[i], param |-> Param(mode), order |-> i]]
<1>1. p.schema = "task" /\ p.items = item /\ p.taskType = CLEAN_MODE_TO_TASK_TYPE[mode]
  BY DEF Task
<1>2. Range(item) = {item[i] : i \in 1 .. n}
  BY DEF Range
<1>3. \A i \in 1 .. n :
        /\ item[i].option = options[i] /\ item[i].param.mode = code
        /\ item[i].param.passesTag = 7 /\ item[i].param.passes = 1
  BY DEF Param
<1>4. 1 \in 1 .. n
  OBVIOUS
<1> HIDE DEF p, item, code
<1>5. UNION {RoomsMeant(x.option, house) : x \in Range(item)} = AllMeant(options, n, house)
  <2>1. {RoomsMeant(x.option, house) : x \in Range(item)} = {RoomsMeant(options[i], house) : i \in 1 .. n}
    <3>1. \A x \in Range(item) : \E i \in 1 .. n : x.option = options[i]
      BY <1>2, <1>3
    <3>2. \A i \in 1 .. n : \E x \in Range(item) : x.option = options[i]
      BY <1>2, <1>3
    <3> QED BY <3>1, <3>2
  <2> QED BY <2>1 DEF AllMeant
<1>6. ModeOf(V2Modes, code) = mode /\ ModeOf(WorkModes, p.taskType) = mode
  BY <1>1, ModesRead DEF code
<1>7. item[1] \in Range(item) /\ \A x \in Range(item) : ModeOf(V2Modes, x.param.mode) = mode
  BY <1>2, <1>3, <1>4, <1>6
<1>8. {ModeOf(V2Modes, x.param.mode) : x \in Range(item)} = {mode}
  BY <1>7
<1>9. ASSUME mode \notin {"SWEEP", "MOP"}
      PROVE  {PassesOf(x.param) : x \in Range(item)} = {1}
  <2>1. code # 2 /\ code # 3
    BY <1>9 DEF code, CLEAN_MODE_TO_V2, CleanModeValue, CleanMode
  <2>2. \A x \in Range(item) : PassesOf(x.param) = 1
    BY <1>2, <1>3, <2>1 DEF PassesOf
  <2> QED BY <1>7, <2>2
<1>10. Meant(p, house) =
        [rooms |-> UNION {IF x.option.type = 3 THEN WholeMap(house) ELSE {x.option.ref} : x \in Range(p.items)},
         modes |-> {ModeOf(V2Modes, x.param.mode) : x \in Range(p.items)} \cup {ModeOf(WorkModes, p.taskType)},
         passes |-> {PassesOf(x.param) : x \in Range(p.items)}]
  BY <1>1 DEF Meant
<1>11. Meant(p, house) =
        [rooms |-> AllMeant(options, n, house), modes |-> {mode},
         passes |-> {PassesOf(x.param) : x \in Range(item)}]
  BY <1>1, <1>5, <1>6, <1>8, <1>10 DEF RoomsMeant
<1>12. /\ Meant(p, house).rooms = AllMeant(options, n, house) /\ Meant(p, house).modes = {mode}
       /\ Meant(p, house).passes = {PassesOf(x.param) : x \in Range(item)}
  BY <1>11
<1>13. NoPassesFor(p, mode) \/ mode \notin {"SWEEP", "MOP"}
  BY <1>1 DEF NoPassesFor
<1>14. AsksFor(p, AllMeant(options, n, house), mode, house)
  BY <1>9, <1>12, <1>13 DEF AsksFor
<1> QED BY <1>14 DEF p

LEMMA MeantByWhole ==
  ASSUME NEW mode \in CleanMode, NEW house
  PROVE  AsksFor(WholeCleanPayload(mode), WholeMap(house), mode, house)
<1> DEFINE options == <<[type |-> 3, ref |-> 1]>>
<1>1. DOMAIN options = 1 .. 1 /\ options[1].type = 3 /\ 1 \in Nat \ {0}
  OBVIOUS
<1> HIDE DEF options
<1>2. AllMeant(options, 1, house) = WholeMap(house)
  <2>1. \A i \in 1 .. 1 : RoomsMeant(options[i], house) = WholeMap(house)
    BY <1>1 DEF RoomsMeant
  <2>2. 1 \in 1 .. 1
    OBVIOUS
  <2> QED BY <2>1, <2>2 DEF AllMeant
<1>3. AsksFor(Task(options, mode), WholeMap(house), mode, house)
  <2>1. AsksFor(Task(options, mode), AllMeant(options, 1, house), mode, house)
    BY <1>1, MeantByTask
  <2> QED BY <1>2, <2>1
<1> QED BY <1>3 DEF options, WholeCleanPayload

LEMMA MeantByRooms ==
  ASSUME NEW rooms \in Seq(Nat), rooms # <<>>, NEW mode \in CleanMode, NEW house
  PROVE  AsksFor(RoomStartCleanPayload(rooms, mode), Range(rooms), mode, house)
<1> DEFINE options == [i \in DOMAIN rooms |-> [type |-> 1, ref |-> rooms[i]]]
           n == Len(rooms)
<1>1. n \in Nat \ {0} /\ DOMAIN rooms = 1 .. n /\ DOMAIN options = 1 .. n
  OBVIOUS
<1>2. \A i \in 1 .. n : options[i].type = 1 /\ options[i].ref = rooms[i]
  OBVIOUS
<1> HIDE DEF options, n
<1>3. AllMeant(options, n, house) = Range(rooms)
  <2>1. \A i \in 1 .. n : RoomsMeant(options[i], house) = {rooms[i]}
    BY <1>2 DEF RoomsMeant
  <2>2. Range(rooms) = {rooms[i] : i \in 1 .. n}
    BY <1>1 DEF Range
  <2>3. \A r : r \in AllMeant(options, n, house) <=> \E i \in 1 .. n : r \in RoomsMeant(options[i], house)
    BY DEF AllMeant
  <2>4. ASSUME NEW r PROVE r \in AllMeant(options, n, house) <=> r \in Range(rooms)
    <3>1. \A i \in 1 .. n : r \in RoomsMeant(options[i], house) <=> r = rooms[i]
      BY <2>1
    <3> QED BY <2>2, <2>3, <3>1
  <2> QED BY <2>4
<1>4. AsksFor(Task(options, mode), Range(rooms), mode, house)
  BY <1>1, <1>3, MeantByTask
<1> QED BY <1>4 DEF options, RoomStartCleanPayload

-----------------------------------------------------------------------------
\* A chain of payloads all of which ask for a job.
Asks(chain, house, wanted, mode) ==
  /\ chain \in Seq(Range(chain))
  /\ \A p \in Range(chain) : AsksFor(p, wanted, mode, house)

LEMMA NoneAsks ==
  ASSUME NEW house, NEW wanted, NEW mode
  PROVE  Asks(<<>>, house, wanted, mode)
BY DEF Asks, Range

LEMMA FirstAsks ==
  ASSUME NEW first, NEW rest, NEW house, NEW wanted, NEW mode,
         AsksFor(first, wanted, mode, house), Asks(rest, house, wanted, mode)
  PROVE  Asks(<<first>> \o rest, house, wanted, mode)
<1> DEFINE T == Range(rest) \cup {first}
           s == <<first>>
<1>1. s \in Seq(T) /\ rest \in Seq(T) /\ Len(s) = 1 /\ s[1] = first
  BY DEF Asks
<1> HIDE DEF s
<1>2. /\ s \o rest \in Seq(T)
      /\ DOMAIN (s \o rest) = 1 .. 1 + Len(rest) /\ DOMAIN rest = 1 .. Len(rest) /\ Len(rest) \in Nat
      /\ (s \o rest)[1] = first
      /\ \A i \in 1 .. Len(rest) : (s \o rest)[1 + i] = rest[i]
  <2> HIDE DEF T
  <2>1. \A x, y \in Seq(T) :
          /\ x \o y \in Seq(T) /\ DOMAIN (x \o y) = 1 .. Len(x) + Len(y)
          /\ DOMAIN y = 1 .. Len(y) /\ Len(y) \in Nat
          /\ \A i \in 1 .. Len(x) : (x \o y)[i] = x[i]
          /\ \A i \in 1 .. Len(y) : (x \o y)[Len(x) + i] = y[i]
    OBVIOUS
  <2>2. /\ s \o rest \in Seq(T) /\ DOMAIN (s \o rest) = 1 .. Len(s) + Len(rest)
        /\ DOMAIN rest = 1 .. Len(rest) /\ Len(rest) \in Nat
        /\ \A i \in 1 .. Len(s) : (s \o rest)[i] = s[i]
        /\ \A i \in 1 .. Len(rest) : (s \o rest)[Len(s) + i] = rest[i]
    BY <1>1, <2>1, Zenon
  <2>3. 1 \in 1 .. Len(s)
    BY <1>1
  <2> QED BY <1>1, <2>2, <2>3
<1>3. \A i \in 1 .. 1 + Len(rest) : i = 1 \/ (i - 1 \in 1 .. Len(rest) /\ i = 1 + (i - 1))
  BY <1>2
<1>4. Range(s \o rest) = T
  <2>1. \A i \in 1 .. 1 + Len(rest) : (s \o rest)[i] \in {first} \cup {rest[j] : j \in 1 .. Len(rest)}
    BY <1>2, <1>3
  <2>2. 1 \in 1 .. 1 + Len(rest) /\ \A j \in 1 .. Len(rest) : 1 + j \in 1 .. 1 + Len(rest)
    BY <1>2
  <2> QED BY <1>2, <2>1, <2>2 DEF Range
<1> QED BY <1>2, <1>4 DEF Asks, s

LEMMA RoomRequestsAsk ==
  ASSUME NEW rooms \in Seq(Nat), rooms # <<>>, NEW mode \in CleanMode, NEW house
  PROVE  Asks(RoomRequests(rooms, mode), house, Range(rooms), mode)
<1> DEFINE a == CleanPayloadV2(rooms, mode)
           b == RoomCleanPayload(rooms, mode)
<1>1. Range(<<a, b>>) = {a, b}
  <2> HIDE DEF a, b
  <2> QED BY DEF Range
<1>2. <<a, b>> \in Seq({a, b})
  <2> HIDE DEF a, b
  <2> QED OBVIOUS
<1>3. AsksFor(a, Range(rooms), mode, house)
  BY MeantByV2
<1>4. AsksFor(b, Range(rooms), mode, house)
  BY MeantByFlat
<1>5. RoomRequests(rooms, mode) = <<a, b>>
  BY DEF RoomRequests
<1> HIDE DEF a, b
<1> QED BY <1>1, <1>2, <1>3, <1>4, <1>5 DEF Asks

LEMMA StartAsks ==
  ASSUME NEW house \in Seq(Nat), NEW mode \in CleanMode
  PROVE  Asks(Start(mode, house), house, WholeMap(house), mode)
<1>1. Named(house) \in Seq(Nat) /\ Range(Named(house)) = WholeMap(house)
  BY NamedRooms
<1>2. CASE mode # "SWEEP_MOP"
  <2>1. CASE Named(house) = <<>>
    BY <1>2, <2>1, NoneAsks DEF Start, StartAllRoomsWithMode
  <2>2. CASE Named(house) # <<>>
    <3>1. Asks(RoomRequests(Named(house), mode), house, WholeMap(house), mode)
      BY <1>1, <2>2, RoomRequestsAsk
    <3> QED BY <1>2, <2>2, <3>1 DEF Start, StartAllRoomsWithMode
  <2> QED BY <2>1, <2>2
<1>3. CASE mode = "SWEEP_MOP"
  <2> DEFINE second == CleanPayloadV2(Named(house), "SWEEP_MOP")
             rest == IF Named(house) = <<>> THEN <<>> ELSE <<second>>
             wanted == WholeMap(house)
  <2>1. Asks(rest, house, wanted, mode)
    <3>1. CASE Named(house) = <<>>
      BY <3>1, NoneAsks
    <3>2. CASE Named(house) # <<>>
      <4>1. AsksFor(second, wanted, mode, house)
        BY <1>1, <1>3, <3>2, MeantByV2
      <4> HIDE DEF second, wanted
      <4>2. Asks(<<second>> \o <<>>, house, wanted, mode)
        BY <4>1, NoneAsks, FirstAsks
      <4>3. <<second>> \o <<>> = <<second>>
        OBVIOUS
      <4> QED BY <3>2, <4>2, <4>3
    <3> QED BY <3>1, <3>2
  <2>2. AsksFor(DefaultCleanPayload, wanted, mode, house)
    BY <1>3, MeantByDefault
  <2> HIDE DEF rest, wanted
  <2>3. Asks(<<DefaultCleanPayload>> \o rest, house, wanted, mode)
    BY <2>1, <2>2, FirstAsks
  <2> QED BY <1>3, <2>3 DEF Start, rest, wanted
<1> QED BY <1>2, <1>3

LEMMA SameJobHolds ==
  ASSUME NEW rooms \in Seq(Nat), NEW mode \in CleanMode, NEW house \in Seq(Nat)
  PROVE  SameJob(rooms, mode, house)
<1> DEFINE wanted == IF rooms = <<>> THEN WholeMap(house) ELSE Range(rooms)
           chain == Chain(rooms, mode, house)
<1>1. Asks(chain, house, wanted, mode)
  <2>1. CASE rooms = <<>>
    <3>1. Asks(Start(mode, house), house, wanted, mode)
      BY <2>1, StartAsks
    <3>2. AsksFor(WholeCleanPayload(mode), wanted, mode, house)
      BY <2>1, MeantByWhole
    <3> HIDE DEF wanted
    <3>3. Asks(<<WholeCleanPayload(mode)>> \o Start(mode, house), house, wanted, mode)
      BY <3>1, <3>2, FirstAsks
    <3> QED BY <2>1, <3>3 DEF Chain, AsyncStart
  <2>2. CASE rooms # <<>>
    <3>1. Asks(RoomRequests(rooms, mode), house, wanted, mode)
      BY <2>2, RoomRequestsAsk
    <3>2. AsksFor(RoomStartCleanPayload(rooms, mode), wanted, mode, house)
      BY <2>2, MeantByRooms
    <3> HIDE DEF wanted
    <3>3. Asks(<<RoomStartCleanPayload(rooms, mode)>> \o RoomRequests(rooms, mode), house, wanted, mode)
      BY <3>1, <3>2, FirstAsks
    <3> QED BY <2>2, <3>3 DEF Chain, CleanRoomsWithMode, StartRooms
  <2> QED BY <2>1, <2>2
<1> QED BY <1>1 DEF SameJob, Asks

\* FallbacksAskTheSame of Algorithms, for any rooms, mode and map (client.py:1163,
\* vacuum.py:241 and :381): whichever payload of the chain the robot understands, it
\* cleans the rooms of the start (all rooms of the map with an id if none was named),
\* in its mode unless the flat schema has none for it, and once unless it is a task
\* of start_clean in a mode whose passes are under another tag.
THEOREM FallbacksAskTheSameHolds ==
  ASSUME NEW rooms \in Seq(Nat), NEW mode \in CleanMode, NEW house \in Seq(Nat),
         job = [kind |-> "start", rooms |-> rooms, mode |-> mode, map |-> house]
  PROVE  FallbacksAskTheSame
BY SameJobHolds DEF FallbacksAskTheSame
-----------------------------------------------------------------------------
LEMMA MinMax ==
  ASSUME NEW a \in Int, NEW b \in Int
  PROVE  /\ Max({a, b}) = IF a >= b THEN a ELSE b
         /\ Min({a, b}) = IF a <= b THEN a ELSE b
<1>1. \E x \in {a, b} : \A y \in {a, b} : x >= y
  OBVIOUS
<1>2. \E x \in {a, b} : \A y \in {a, b} : x =< y
  OBVIOUS
<1> QED BY <1>1, <1>2 DEF Max, Min

LEMMA EndsOfInterval ==
  ASSUME NEW a \in Int, NEW b \in Int, a <= b
  PROVE  Min(a .. b) = a /\ Max(a .. b) = b
<1>1. \E x \in a .. b : \A y \in a .. b : x >= y
  BY b \in a .. b
<1>2. \E x \in a .. b : \A y \in a .. b : x =< y
  BY a \in a .. b
<1>3. Max(a .. b) \in a .. b /\ \A y \in a .. b : Max(a .. b) >= y
  BY <1>1 DEF Max
<1>4. Min(a .. b) \in a .. b /\ \A y \in a .. b : Min(a .. b) =< y
  BY <1>2 DEF Min
<1> QED BY <1>3, <1>4

LEMMA Concat ==
  ASSUME NEW T, NEW s \in Seq(T), NEW u \in Seq(T)
  PROVE  /\ s \o u \in Seq(T) /\ Len(s \o u) = Len(s) + Len(u)
         /\ \A i \in 1 .. Len(s) : (s \o u)[i] = s[i]
         /\ \A i \in 1 .. Len(u) : (s \o u)[Len(s) + i] = u[i]
         /\ \A i \in Len(s) + 1 .. Len(s) + Len(u) :
              i - Len(s) \in 1 .. Len(u) /\ (s \o u)[i] = u[i - Len(s)]
OBVIOUS

Point == Int \X Int

\* The rows of a rectangle, and the points of one.
LEMMA RowsLie ==
  ASSUME NEW y1 \in Int, NEW y2 \in Int, y1 <= y2
  PROVE  /\ DOMAIN RowsOf(y1, y2, 2) = 1 .. (y2 - y1) \div 2
         /\ Len(RowsOf(y1, y2, 2)) = (y2 - y1) \div 2 /\ (y2 - y1) \div 2 \in Nat
         /\ \A k \in 1 .. (y2 - y1) \div 2 : RowsOf(y1, y2, 2)[k] = y1 + 2 * k - 1
<1> DEFINE n == (y2 - y1) \div 2
           m == Max({0, (y2 - y1 - 1 + 2 - 1) \div 2})
<1>1. n \in Nat
  OBVIOUS
<1>2. (y2 - y1 - 1 + 2 - 1) \div 2 = n
  OBVIOUS
<1>3. m = n
  <2> HIDE DEF n
  <2>1. 0 \in Int /\ n \in Int
    BY <1>1
  <2>2. Max({0, n}) = IF 0 >= n THEN 0 ELSE n
    BY <2>1, MinMax
  <2> QED BY <1>1, <1>2, <2>2
<1>4. RowsOf(y1, y2, 2) = [k \in 1 .. m |-> y1 + 1 + (k - 1) * 2]
  BY DEF RowsOf
<1> HIDE DEF m, n
<1>5. \A k \in 1 .. n : y1 + 1 + (k - 1) * 2 = y1 + 2 * k - 1
  BY <1>1
<1>6. /\ DOMAIN RowsOf(y1, y2, 2) = 1 .. n
      /\ \A k \in 1 .. n : RowsOf(y1, y2, 2)[k] = y1 + 1 + (k - 1) * 2
  BY <1>1, <1>3, <1>4
<1>7. Len(RowsOf(y1, y2, 2)) = n
  BY <1>1, <1>3, <1>4
<1> QED BY <1>1, <1>5, <1>6, <1>7 DEF n

IsRow(row, k, x1, x2, y) ==
  /\ row \in Seq(Point)
  /\ Len(row) = IF x2 - x1 - 1 >= 0 THEN x2 - x1 - 1 ELSE 0
  /\ \A i \in 1 .. Len(row) : row[i] = <<IF k % 2 = 1 THEN x1 + i ELSE x2 - i, y>>

LEMMA RowLies ==
  ASSUME NEW x1 \in Int, NEW x2 \in Int, x1 <= x2, NEW y \in Int, NEW k \in Nat
  PROVE  IsRow(RowPoints(x1, x2, y, k), k, x1, x2, y)
<1> DEFINE n == IF x2 - x1 - 1 >= 0 THEN x2 - x1 - 1 ELSE 0
           m == Max({0, x2 - x1 - 1})
<1>1. m = n /\ n \in Nat
  <2>1. 0 \in Int /\ x2 - x1 - 1 \in Int
    OBVIOUS
  <2>2. Max({0, x2 - x1 - 1}) = IF 0 >= x2 - x1 - 1 THEN 0 ELSE x2 - x1 - 1
    BY <2>1, MinMax
  <2> QED BY <2>2
<1>2. RowPoints(x1, x2, y, k) = [i \in 1 .. m |-> <<IF k % 2 = 1 THEN x1 + i ELSE x2 - i, y>>]
  BY DEF RowPoints
<1> HIDE DEF m
<1>3. \A i \in 1 .. n : <<IF k % 2 = 1 THEN x1 + i ELSE x2 - i, y>> \in Point
  BY <1>1 DEF Point
<1> DEFINE r == [i \in 1 .. n |-> <<IF k % 2 = 1 THEN x1 + i ELSE x2 - i, y>>]
<1>4. RowPoints(x1, x2, y, k) = r
  BY <1>1, <1>2
<1>5. r \in Seq(Point) /\ Len(r) = n
  <2> HIDE DEF n
  <2>1. \A i \in 1 .. n : r[i] \in Point
    BY <1>3
  <2>2. r = [i \in 1 .. n |-> r[i]]
    OBVIOUS
  <2> HIDE DEF r
  <2> QED BY <1>1, <2>1, <2>2
<1>6. \A i \in 1 .. n : r[i] = <<IF k % 2 = 1 THEN x1 + i ELSE x2 - i, y>>
  OBVIOUS
<1> HIDE DEF r, n
<1>7. /\ RowPoints(x1, x2, y, k) \in Seq(Point) /\ Len(RowPoints(x1, x2, y, k)) = n
      /\ \A i \in 1 .. Len(RowPoints(x1, x2, y, k)) :
           RowPoints(x1, x2, y, k)[i] = <<IF k % 2 = 1 THEN x1 + i ELSE x2 - i, y>>
  BY <1>4, <1>5, <1>6
<1> QED BY <1>7 DEF n, IsRow

\* What the loop over the rows of a zone does, row by row.
WalksRows(l, x1, y1, x2, y2) ==
  /\ l[0] = <<>>
  /\ \A k \in 1 .. Len(RowsOf(y1, y2, 2)) :
       l[k] = l[k - 1] \o RowPoints(x1, x2, RowsOf(y1, y2, 2)[k], k)
  /\ ZoneCoverage(x1, y1, x2, y2) =
       IF l[Len(RowsOf(y1, y2, 2))] = <<>> THEN <<<<(x1 + x2) \div 2, (y1 + y2) \div 2>>>>
       ELSE l[Len(RowsOf(y1, y2, 2))]

LEMMA WalkLoop ==
  ASSUME NEW x1 \in Int, NEW x2 \in Int, x1 <= x2, NEW y1 \in Int, NEW y2 \in Int, y1 <= y2
  PROVE  \E l : WalksRows(l, x1, y1, x2, y2)
<1> DEFINE rows == RowsOf(y1, y2, 2)
           n == Len(rows)
           S == Seq(Point)
           Extend(x, k) == x \o RowPoints(x1, x2, rows[k], k)
           step == [k \in 1 .. n |-> [x \in S |-> Extend(x, k)]]
           Runs(g) == g = [k \in 0 .. n |->
                             IF k = 0 THEN <<>> ELSE Extend(g[k - 1], k)]
           c == CHOOSE g : Runs(g)
<1>1. n \in Nat /\ <<>> \in S
  BY RowsLie
<1>2. ASSUME NEW k \in 1 .. n, NEW x \in S
      PROVE  Extend(x, k) \in S
  <2>1. k \in Nat /\ rows[k] \in Int
    <3>1. n = (y2 - y1) \div 2
      BY RowsLie
    <3>2. rows[k] = y1 + 2 * k - 1
      BY <3>1, RowsLie
    <3> HIDE DEF rows, n
    <3> QED BY <3>2
  <2> HIDE DEF rows, n
  <2>2. RowPoints(x1, x2, rows[k], k) \in Seq(Point)
    <3>1. IsRow(RowPoints(x1, x2, rows[k], k), k, x1, x2, rows[k])
      BY <2>1, RowLies
    <3> QED BY <3>1 DEF IsRow
  <2> QED BY <2>2, Concat
<1> HIDE DEF S, n, rows, Extend
<1>3. step \in Steps(n, S)
  BY <1>2 DEF Steps
<1>4. PICK m \in [0 .. n -> S] : m[0] = <<>> /\ \A k \in 1 .. n : m[k] = step[k][m[k - 1]]
  <2> HIDE DEF step
  <2>1. \E m \in [0 .. n -> S] : IsRun(m, n, <<>>, step)
    BY <1>1, <1>3, Iteration
  <2> QED BY <2>1 DEF IsRun
<1>5. ASSUME NEW k \in 1 .. n
      PROVE  m[k] = Extend(m[k - 1], k)
  <2>1. m[k] = step[k][m[k - 1]]
    BY <1>4
  <2>2. m[k - 1] \in S
    BY <1>1, <1>4
  <2>3. step[k] = [x \in S |-> Extend(x, k)]
    OBVIOUS
  <2> QED BY <2>1, <2>2, <2>3
<1>6. Runs(m)
  BY <1>1, <1>4, <1>5
<1>7. Runs(c)
  BY <1>6
<1>8. ZoneCoverage(x1, y1, x2, y2) =
        IF c[n] = <<>> THEN <<<<(x1 + x2) \div 2, (y1 + y2) \div 2>>>> ELSE c[n]
  BY DEF ZoneCoverage, n, rows, Extend
<1> HIDE DEF c
<1>9. c[0] = <<>> /\ \A k \in 1 .. n : c[k] = Extend(c[k - 1], k)
  BY <1>1, <1>7
<1> QED BY <1>8, <1>9 DEF n, rows, Extend, WalksRows

LEMMA GapOfNeighbours ==
  ASSUME NEW a \in Int, NEW b \in Int
  PROVE  Gap(a, b) = IF a >= b THEN a - b ELSE b - a
<1>1. a - b \in Int /\ b - a \in Int
  OBVIOUS
<1>2. Max({a - b, b - a}) = IF a - b >= b - a THEN a - b ELSE b - a
  BY <1>1, MinMax
<1> QED BY <1>2 DEF Gap

\* One step of a walk.
OneStep(a, b) ==
  \/ Gap(a[1], b[1]) = 1 /\ a[2] = b[2]
  \/ a[1] = b[1] /\ b[2] = a[2] + 2

\* What has been walked after k rows of a rectangle that is wide enough.
Serpentine(p, k, x1, x2, y1) ==
  /\ p \in Seq(Point)
  /\ \A i \in 1 .. Len(p) : p[i][1] \in x1 .. x2 /\ p[i][2] \in y1 .. y1 + 2 * k
  /\ \A i \in 1 .. Len(p) - 1 : OneStep(p[i], p[i + 1])
  /\ k = 0 => Len(p) = 0
  /\ k > 0 => Len(p) > 0 /\ p[Len(p)] = <<IF k % 2 = 1 THEN x2 - 1 ELSE x1 + 1, y1 + 2 * k - 1>>
  /\ \A j \in 1 .. k : \E i \in 1 .. Len(p) : p[i][2] = y1 + 2 * j - 1

\* A row is walked from one end to the other.
RowWalk(row, k, x1, x2, y) ==
  /\ row \in Seq(Point) /\ Len(row) \in Nat /\ Len(row) > 0
  /\ \A i \in 1 .. Len(row) : row[i][1] \in x1 .. x2 /\ row[i][2] = y
  /\ \A i \in 1 .. Len(row) - 1 : OneStep(row[i], row[i + 1])
  /\ row[1] = <<IF k % 2 = 1 THEN x1 + 1 ELSE x2 - 1, y>>
  /\ row[Len(row)] = <<IF k % 2 = 1 THEN x2 - 1 ELSE x1 + 1, y>>

LEMMA RowIsWalked ==
  ASSUME NEW x1 \in Int, NEW x2 \in Int, x1 + 2 <= x2, NEW y \in Int, NEW k \in Nat
  PROVE  RowWalk(RowPoints(x1, x2, y, k), k, x1, x2, y)
<1> DEFINE row == RowPoints(x1, x2, y, k)
           n == x2 - x1 - 1
<1>1. /\ row \in Seq(Point) /\ Len(row) = n /\ n \in Nat /\ n > 0
      /\ \A i \in 1 .. n : row[i] = <<IF k % 2 = 1 THEN x1 + i ELSE x2 - i, y>>
  <2>1. n \in Nat /\ n > 0 /\ x1 <= x2 /\ (IF x2 - x1 - 1 >= 0 THEN x2 - x1 - 1 ELSE 0) = n
    OBVIOUS
  <2>2. IsRow(row, k, x1, x2, y)
    BY <2>1, RowLies
  <2> HIDE DEF row, n
  <2> QED BY <2>1, <2>2 DEF IsRow
<1> HIDE DEF row
<1>2. ASSUME NEW i \in 1 .. n PROVE row[i][1] \in x1 .. x2 /\ row[i][2] = y
  BY <1>1
<1>3. ASSUME NEW i \in 1 .. n - 1 PROVE OneStep(row[i], row[i + 1])
  <2>1. i \in 1 .. n /\ i + 1 \in 1 .. n
    OBVIOUS
  <2>2. CASE k % 2 = 1
    <3>1. row[i] = <<x1 + i, y>> /\ row[i + 1] = <<x1 + (i + 1), y>>
      BY <1>1, <2>1, <2>2
    <3>2. Gap(x1 + i, x1 + (i + 1)) = 1
      <4>1. x1 + i \in Int /\ x1 + (i + 1) \in Int
        BY <2>1
      <4> QED BY <4>1, GapOfNeighbours
    <3> QED BY <3>1, <3>2 DEF OneStep
  <2>3. CASE k % 2 # 1
    <3>1. row[i] = <<x2 - i, y>> /\ row[i + 1] = <<x2 - (i + 1), y>>
      BY <1>1, <2>1, <2>3
    <3>2. Gap(x2 - i, x2 - (i + 1)) = 1
      <4>1. x2 - i \in Int /\ x2 - (i + 1) \in Int
        BY <2>1
      <4> QED BY <4>1, GapOfNeighbours
    <3> QED BY <3>1, <3>2 DEF OneStep
  <2> QED BY <2>2, <2>3
<1>4. row[1] = <<IF k % 2 = 1 THEN x1 + 1 ELSE x2 - 1, y>>
  BY <1>1
<1>5. row[n] = <<IF k % 2 = 1 THEN x2 - 1 ELSE x1 + 1, y>>
  <2>1. n \in 1 .. n /\ x1 + n = x2 - 1 /\ x2 - n = x1 + 1
    BY <1>1
  <2>2. row[n] = <<IF k % 2 = 1 THEN x1 + n ELSE x2 - n, y>>
    BY <1>1, <2>1
  <2> HIDE DEF n
  <2> QED BY <2>1, <2>2
<1>6. RowWalk(row, k, x1, x2, y)
  <2> HIDE DEF n
  <2> QED BY <1>1, <1>2, <1>3, <1>4, <1>5 DEF RowWalk
<1> QED BY <1>6 DEF row

\* The next row goes on where the one before ended.
LEMMA SerpentineGoesOn ==
  ASSUME NEW x1 \in Int, NEW x2 \in Int, x1 + 2 <= x2, NEW y1 \in Int, NEW k \in Nat \ {0},
         NEW p, Serpentine(p, k - 1, x1, x2, y1)
  PROVE  Serpentine(p \o RowPoints(x1, x2, y1 + 2 * k - 1, k), k, x1, x2, y1)
<1> DEFINE y == y1 + 2 * k - 1
           row == RowPoints(x1, x2, y, k)
           m == Len(p)
           n == Len(row)
           w == p \o row
<1>1. /\ row \in Seq(Point) /\ n \in Nat /\ n > 0
      /\ \A i \in 1 .. n : row[i][1] \in x1 .. x2 /\ row[i][2] = y
      /\ \A i \in 1 .. n - 1 : OneStep(row[i], row[i + 1])
      /\ row[1] = <<IF k % 2 = 1 THEN x1 + 1 ELSE x2 - 1, y>>
      /\ row[n] = <<IF k % 2 = 1 THEN x2 - 1 ELSE x1 + 1, y>>
  <2>1. y \in Int
    OBVIOUS
  <2> HIDE DEF y
  <2>2. RowWalk(row, k, x1, x2, y)
    BY <2>1, RowIsWalked
  <2> HIDE DEF row
  <2> QED BY <2>2 DEF RowWalk
<1> HIDE DEF row
<1>2. /\ p \in Seq(Point) /\ m \in Nat /\ (k - 1 = 0 => m = 0)
      /\ \A i \in 1 .. m : p[i][1] \in x1 .. x2 /\ p[i][2] \in y1 .. y1 + 2 * (k - 1)
      /\ \A i \in 1 .. m - 1 : OneStep(p[i], p[i + 1])
      /\ k - 1 > 0 => m > 0 /\ p[m] = <<IF (k - 1) % 2 = 1 THEN x2 - 1 ELSE x1 + 1, y1 + 2 * (k - 1) - 1>>
      /\ \A j \in 1 .. k - 1 : \E i \in 1 .. m : p[i][2] = y1 + 2 * j - 1
  <2>1. p \in Seq(Point) => m \in Nat
    OBVIOUS
  <2> QED BY <2>1, Zenon DEF Serpentine
<1>3. /\ w \in Seq(Point) /\ Len(w) = m + n
      /\ \A i \in 1 .. m : w[i] = p[i]
      /\ \A i \in 1 .. n : w[m + i] = row[i]
      /\ \A i \in m + 1 .. m + n : i - m \in 1 .. n /\ w[i] = row[i - m]
  BY <1>1, <1>2, Concat
<1> HIDE DEF m, n, w
<1>4. ASSUME NEW i \in 1 .. m + n PROVE w[i][1] \in x1 .. x2 /\ w[i][2] \in y1 .. y1 + 2 * k
  <2>1. CASE i \in 1 .. m
    <3>1. w[i] = p[i] /\ p[i][1] \in x1 .. x2 /\ p[i][2] \in y1 .. y1 + 2 * (k - 1)
      BY <1>2, <1>3, <2>1
    <3> QED BY <3>1
  <2>2. CASE i \in m + 1 .. m + n
    <3>1. w[i][1] \in x1 .. x2 /\ w[i][2] = y
      <4>1. i - m \in 1 .. n /\ w[i] = row[i - m]
        BY <1>3, <2>2
      <4> QED BY <1>1, <4>1
    <3>2. y \in y1 .. y1 + 2 * k
      OBVIOUS
    <3> QED BY <3>1, <3>2
  <2> QED BY <1>1, <1>2, <2>1, <2>2
<1>5. ASSUME NEW i \in 1 .. m + n - 1 PROVE OneStep(w[i], w[i + 1])
  <2>1. CASE i \in 1 .. m - 1
    <3>1. i \in 1 .. m /\ i + 1 \in 1 .. m
      BY <1>2, <2>1
    <3>2. w[i] = p[i] /\ w[i + 1] = p[i + 1]
      BY <1>3, <3>1
    <3> QED BY <1>2, <2>1, <3>2
  <2>2. CASE i = m
    <3>1. m > 0 /\ m \in 1 .. m /\ m + 1 \in m + 1 .. m + n /\ (m + 1) - m = 1
      BY <1>1, <1>2, <2>2
    <3>2. w[m] = p[m] /\ w[m + 1] = row[1]
      BY <1>3, <3>1
    <3>3. k - 1 > 0
      <4>1. p[m][2] \in y1 .. y1 + 2 * (k - 1)
        BY <1>2, <3>1
      <4>2. CASE k = 1
        BY <1>2, <3>1, <4>2 DEF Serpentine
      <4> QED BY <4>2
    <3>4. p[m] = <<IF (k - 1) % 2 = 1 THEN x2 - 1 ELSE x1 + 1, y1 + 2 * (k - 1) - 1>>
      BY <1>2, <3>3
    <3>5. (k % 2 = 1) = ~((k - 1) % 2 = 1)
      OBVIOUS
    <3>6. p[m][1] = row[1][1]
      BY <1>1, <3>4, <3>5
    <3>7. row[1][2] = p[m][2] + 2
      BY <1>1, <3>4
    <3> QED BY <2>2, <3>2, <3>6, <3>7 DEF OneStep
  <2>3. CASE i \in m + 1 .. m + n - 1
    <3>1. /\ i \in m + 1 .. m + n /\ i + 1 \in m + 1 .. m + n
          /\ i - m \in 1 .. n - 1 /\ (i + 1) - m = (i - m) + 1
      BY <1>1, <1>2, <2>3
    <3>2. w[i] = row[i - m] /\ w[i + 1] = row[(i - m) + 1]
      BY <1>3, <3>1
    <3> QED BY <1>1, <3>1, <3>2
  <2> QED BY <1>1, <1>2, <2>1, <2>2, <2>3
<1>6. w[m + n] = <<IF k % 2 = 1 THEN x2 - 1 ELSE x1 + 1, y1 + 2 * k - 1>>
  <2>1. n \in 1 .. n
    BY <1>1
  <2> QED BY <1>1, <1>3, <2>1
<1>7. ASSUME NEW j \in 1 .. k PROVE \E i \in 1 .. m + n : w[i][2] = y1 + 2 * j - 1
  <2>1. CASE j = k
    <3>1. m + n \in 1 .. m + n
      BY <1>1, <1>2
    <3>2. w[m + n][2] = y1 + 2 * k - 1
      BY <1>6
    <3> QED BY <2>1, <3>1, <3>2
  <2>2. CASE j \in 1 .. k - 1
    <3>1. PICK i \in 1 .. m : p[i][2] = y1 + 2 * j - 1
      BY <1>2, <2>2
    <3>2. i \in 1 .. m + n /\ w[i] = p[i]
      BY <1>1, <1>2, <1>3
    <3> QED BY <3>1, <3>2
  <2> QED BY <2>1, <2>2
<1>8. Serpentine(w, k, x1, x2, y1)
  <2>1. m + n > 0 /\ k # 0
    BY <1>1, <1>2
  <2>2. Len(w) = m + n /\ w \in Seq(Point)
    BY <1>3
  <2>3. \A i \in 1 .. Len(w) : w[i][1] \in x1 .. x2 /\ w[i][2] \in y1 .. y1 + 2 * k
    BY <1>4, <2>2, Zenon
  <2>4. ASSUME NEW i \in 1 .. Len(w) - 1 PROVE OneStep(w[i], w[i + 1])
    <3>1. i \in 1 .. m + n - 1
      BY <1>1, <1>2, <2>2
    <3> QED BY <1>5, <3>1
  <2>5. \A j \in 1 .. k : \E i \in 1 .. Len(w) : w[i][2] = y1 + 2 * j - 1
    BY <1>7, <2>2, Zenon
  <2>6. Len(w) > 0 /\ w[Len(w)] = <<IF k % 2 = 1 THEN x2 - 1 ELSE x1 + 1, y1 + 2 * k - 1>>
    BY <1>6, <2>1, <2>2
  <2> QED BY <2>1, <2>2, <2>3, <2>4, <2>5, <2>6, Zenon DEF Serpentine
<1> QED BY <1>8 DEF w, row

\* The path of one point, for a rectangle too small for rows.
LEMMA PointWalks ==
  ASSUME NEW x1 \in Int, NEW x2 \in Int, x1 <= x2, NEW y1 \in Int, NEW y2 \in Int, y1 <= y2,
         x2 < x1 + 2 \/ y2 < y1 + 2
  PROVE  IsSerpentine(<<<<(x1 + x2) \div 2, (y1 + y2) \div 2>>>>, x1 .. x2, y1 .. y2)
<1> DEFINE p == <<(x1 + x2) \div 2, (y1 + y2) \div 2>>
           path == <<p>>
<1>1. p[1] \in x1 .. x2 /\ p[2] \in y1 .. y2
  OBVIOUS
<1> HIDE DEF p
<1>2. path # <<>> /\ DOMAIN path = 1 .. 1 /\ Len(path) = 1 /\ path[1] = p
  OBVIOUS
<1> HIDE DEF path
<1>3. \A i \in DOMAIN path : path[i][1] \in x1 .. x2 /\ path[i][2] \in y1 .. y2
  BY <1>1, <1>2
<1>4. ASSUME Cardinality(x1 .. x2) > 2, NEW y \in (y1 .. y2) \ {Min(y1 .. y2), Max(y1 .. y2)}
      PROVE  FALSE
  <2>1. Cardinality(x1 .. x2) = x2 - x1 + 1
    BY FS_Interval
  <2>2. y2 < y1 + 2
    BY <1>4, <2>1
  <2>3. Min(y1 .. y2) = y1 /\ Max(y1 .. y2) = y2
    BY EndsOfInterval
  <2> QED BY <1>4, <2>2, <2>3
<1>5. \A i \in 1 .. Len(path) - 1 : FALSE
  BY <1>2
<1>6. IsSerpentine(path, x1 .. x2, y1 .. y2)
  BY <1>2, <1>3, <1>4, <1>5 DEF IsSerpentine
<1> QED BY <1>6 DEF path, p

\* The rows of a rectangle that is high and wide enough.
LEMMA RowsWalk ==
  ASSUME NEW x1 \in Int, NEW x2 \in Int, x1 + 2 <= x2, NEW y1 \in Int, NEW y2 \in Int, y1 + 2 <= y2,
         NEW path, Serpentine(path, (y2 - y1) \div 2, x1, x2, y1)
  PROVE  path # <<>> /\ IsSerpentine(path, x1 .. x2, y1 .. y2)
<1> DEFINE n == (y2 - y1) \div 2
           m == Len(path)
<1>1. n \in Nat /\ n > 0 /\ y1 + 2 * n <= y2
  OBVIOUS
<1>2. path \in Seq(Point) /\ m \in Nat /\ m > 0 /\ DOMAIN path = 1 .. m /\ path # <<>>
  <2>1. path \in Seq(Point) /\ m > 0
    <3> HIDE DEF n
    <3> QED BY <1>1 DEF Serpentine
  <2> QED BY <2>1
<1>3. \A i \in 1 .. m : path[i][1] \in x1 .. x2 /\ path[i][2] \in y1 .. y1 + 2 * n
  BY Zenon DEF Serpentine
<1>4. \A i \in 1 .. m - 1 : OneStep(path[i], path[i + 1])
  BY Zenon DEF Serpentine
<1>5. \A j \in 1 .. n : \E i \in 1 .. m : path[i][2] = y1 + 2 * j - 1
  BY Zenon DEF Serpentine
<1> HIDE DEF m
<1>6. ASSUME NEW y \in (y1 .. y2) \ {Min(y1 .. y2), Max(y1 .. y2)}
      PROVE  \E i \in DOMAIN path : Gap(path[i][2], y) <= 1
  <2> DEFINE j == (y - y1 + 1) \div 2
  <2>1. Min(y1 .. y2) = y1 /\ Max(y1 .. y2) = y2
    BY EndsOfInterval
  <2>2. y \in Int /\ y1 < y /\ y < y2
    BY <2>1
  <2>3. j \in 1 .. n
    BY <2>2
  <2>4. y1 + 2 * j - 1 = y \/ y1 + 2 * j - 1 = y - 1
    BY <2>2
  <2> HIDE DEF j, n
  <2>5. PICK i \in 1 .. m : path[i][2] = y1 + 2 * j - 1
    BY <1>5, <2>3
  <2>6. Gap(y1 + 2 * j - 1, y) <= 1
    <3>1. y1 + 2 * j - 1 \in Int
      BY <2>3
    <3> DEFINE v == y1 + 2 * j - 1
    <3> HIDE DEF v
    <3>2. v \in Int
      BY <3>1 DEF v
    <3>3. Gap(v, y) = IF v >= y THEN v - y ELSE y - v
      BY <2>2, <3>2, GapOfNeighbours
    <3>4. v = y \/ v = y - 1
      BY <2>4 DEF v
    <3>5. Gap(v, y) <= 1
      BY <2>2, <3>3, <3>4
    <3> QED BY <3>5 DEF v
  <2> QED BY <1>2, <2>5, <2>6
<1> HIDE DEF n
<1>7. \A i \in DOMAIN path : path[i][1] \in x1 .. x2 /\ path[i][2] \in y1 .. y2
  <2>1. \A i \in 1 .. m : path[i][2] \in y1 .. y2
    BY <1>1, <1>3
  <2> QED BY <1>2, <1>3, <2>1
<1> QED BY <1>2, <1>4, <1>6, <1>7, Zenon DEF IsSerpentine, OneStep, m

LEMMA CoverageWalks ==
  ASSUME NEW x1 \in Int, NEW x2 \in Int, x1 <= x2, NEW y1 \in Int, NEW y2 \in Int, y1 <= y2
  PROVE  IsSerpentine(ZoneCoverage(x1, y1, x2, y2), x1 .. x2, y1 .. y2)
<1> DEFINE n == (y2 - y1) \div 2
           middle == <<<<(x1 + x2) \div 2, (y1 + y2) \div 2>>>>
<1>1. PICK l : WalksRows(l, x1, y1, x2, y2)
  BY WalkLoop
<1>2. n \in Nat /\ Len(RowsOf(y1, y2, 2)) = n
  BY RowsLie
<1>3. \A k \in 1 .. n : RowsOf(y1, y2, 2)[k] = y1 + 2 * k - 1
  BY RowsLie
<1>4. l[0] = <<>> /\ \A k \in 1 .. n : l[k] = l[k - 1] \o RowPoints(x1, x2, y1 + 2 * k - 1, k)
  <2> HIDE DEF n
  <2> QED BY <1>1, <1>2, <1>3 DEF WalksRows
<1>5. ZoneCoverage(x1, y1, x2, y2) = IF l[n] = <<>> THEN middle ELSE l[n]
  <2> HIDE DEF n
  <2> QED BY <1>1, <1>2 DEF WalksRows
<1>6. CASE x1 + 2 <= x2 /\ y1 + 2 <= y2
  <2> DEFINE U == {k \in 0 .. n : Serpentine(l[k], k, x1, x2, y1)}
  <2> HIDE DEF n
  <2>1. 0 \in U
    <3>1. Serpentine(<<>>, 0, x1, x2, y1)
      BY DEF Serpentine
    <3> QED BY <1>2, <1>4, <3>1
  <2>2. ASSUME NEW k \in 1 .. n, k - 1 \in U PROVE k \in U
    <3>1. k \in Nat \ {0} /\ Serpentine(l[k - 1], k - 1, x1, x2, y1)
      BY <1>2, <2>2
    <3>2. Serpentine(l[k - 1] \o RowPoints(x1, x2, y1 + 2 * k - 1, k), k, x1, x2, y1)
      BY <1>6, <3>1, SerpentineGoesOn
    <3>3. Serpentine(l[k], k, x1, x2, y1)
      BY <1>4, <3>2
    <3> QED BY <3>3
  <2> HIDE DEF U
  <2>3. n \in U
    <3>1. \A k \in 0 .. n : k \in U
      BY <1>2, <2>1, <2>2, UpTo
    <3> QED BY <1>2, <3>1
  <2>4. Serpentine(l[n], n, x1, x2, y1)
    BY <2>3 DEF U
  <2>5. l[n] # <<>> /\ IsSerpentine(l[n], x1 .. x2, y1 .. y2)
    BY <1>6, <2>4, RowsWalk DEF n
  <2> QED BY <1>5, <2>5
<1>7. CASE x2 < x1 + 2 \/ y2 < y1 + 2
  <2>1. l[n] = <<>>
    <3>1. CASE y2 < y1 + 2
      <4>1. n = 0
        BY <3>1
      <4> HIDE DEF n
      <4> QED BY <1>4, <4>1
    <3>2. CASE x2 < x1 + 2
      <4> DEFINE U == {k \in 0 .. n : l[k] = <<>>}
      <4> HIDE DEF n
      <4>1. 0 \in U
        BY <1>2, <1>4
      <4>2. ASSUME NEW k \in 1 .. n, k - 1 \in U PROVE k \in U
        <5> DEFINE row == RowPoints(x1, x2, y1 + 2 * k - 1, k)
        <5>1. row = <<>>
          <6>1. k \in Nat /\ y1 + 2 * k - 1 \in Int
            BY <1>2
          <6>2. IsRow(row, k, x1, x2, y1 + 2 * k - 1)
            BY <6>1, RowLies
          <6> HIDE DEF row
          <6>3. row \in Seq(Point) /\ Len(row) = 0
            BY <3>2, <6>2 DEF IsRow
          <6> QED BY <6>3
        <5>2. l[k] = l[k - 1] \o row /\ l[k - 1] = <<>>
          BY <1>4, <4>2
        <5> HIDE DEF row
        <5> QED BY <5>1, <5>2
      <4> HIDE DEF U
      <4>3. n \in U
        <5>1. \A k \in 0 .. n : k \in U
          BY <1>2, <4>1, <4>2, UpTo
        <5> QED BY <1>2, <5>1
      <4> QED BY <4>3 DEF U
    <3> QED BY <1>7, <3>1, <3>2
  <2>2. ZoneCoverage(x1, y1, x2, y2) = middle
    BY <1>5, <2>1
  <2>3. IsSerpentine(middle, x1 .. x2, y1 .. y2)
    BY <1>7, PointWalks
  <2> QED BY <2>2, <2>3
<1> QED BY <1>6, <1>7

\* A rectangle is given by two opposite corners.
Rectangle == Int \X Int \X Int \X Int

LEMMA ZoneIsAsDrawn ==
  ASSUME NEW z \in Rectangle, NEW idx
  PROVE  LET o == ZoneOption(z, idx)
         IN /\ {v[1] : v \in Range(o.vertices)} = {Left(z), Right(z)}
            /\ {v[2] : v \in Range(o.vertices)} = {Bottom(z), Top(z)}
            /\ IsSerpentine(o.coverage, Left(z) .. Right(z), Bottom(z) .. Top(z))
<1> DEFINE o == ZoneOption(z, idx)
           a == Left(z)
           b == Right(z)
           c == Bottom(z)
           d == Top(z)
           corners == <<<<a, d>>, <<b, d>>, <<b, c>>, <<a, c>>>>
<1>1. a \in Int /\ b \in Int /\ a <= b /\ c \in Int /\ d \in Int /\ c <= d
  <2>1. z[1] \in Int /\ z[2] \in Int /\ z[3] \in Int /\ z[4] \in Int
    BY DEF Rectangle
  <2>2. /\ a = (IF z[1] <= z[3] THEN z[1] ELSE z[3]) /\ b = (IF z[1] >= z[3] THEN z[1] ELSE z[3])
        /\ c = (IF z[2] <= z[4] THEN z[2] ELSE z[4]) /\ d = (IF z[2] >= z[4] THEN z[2] ELSE z[4])
    BY <2>1, MinMax, Zenon DEF Left, Right, Bottom, Top
  <2> HIDE DEF a, b, c, d
  <2> QED BY <2>1, <2>2
<1>2. o.vertices = corners /\ o.coverage = ZoneCoverage(a, c, b, d)
  BY DEF ZoneOption
<1> HIDE DEF o, a, b, c, d
<1>3. Range(corners) = {<<a, d>>, <<b, d>>, <<b, c>>, <<a, c>>}
  <2>1. DOMAIN corners = {1, 2, 3, 4}
    OBVIOUS
  <2>2. corners[1] = <<a, d>> /\ corners[2] = <<b, d>> /\ corners[3] = <<b, c>> /\ corners[4] = <<a, c>>
    OBVIOUS
  <2> HIDE DEF corners
  <2> QED BY <2>1, <2>2 DEF Range
<1>4. {v[1] : v \in Range(corners)} = {a, b} /\ {v[2] : v \in Range(corners)} = {c, d}
  BY <1>3
<1>5. IsSerpentine(ZoneCoverage(a, c, b, d), a .. b, c .. d)
  BY <1>1, CoverageWalks
<1> QED BY <1>2, <1>4, <1>5 DEF o, a, b, c, d

LEMMA ZonesAsDrawnHolds ==
  ASSUME NEW zone \in Seq(Rectangle), NEW single \in Rectangle \cup {NoZone}, NEW mode
  PROVE  ZonesAsDrawn(zone, single, mode)
<1> DEFINE drawn == ZonesOf(zone, single)
           options == [i \in DOMAIN drawn |-> ZoneOption(drawn[i], i)]
           items == ZoneCleanPayload(drawn, mode).items
<1>1. drawn \in Seq(Rectangle)
  BY DEF ZonesOf
<1>2. \A i \in DOMAIN drawn : drawn[i] \in Rectangle
  BY <1>1
<1> HIDE DEF drawn
<1>3. items = [i \in DOMAIN options |-> [option |-> options[i], param |-> Param(mode), order |-> i]]
  BY DEF ZoneCleanPayload, Task
<1>4. DOMAIN items = DOMAIN drawn /\ \A i \in DOMAIN drawn : items[i].option = ZoneOption(drawn[i], i)
  BY <1>3
<1> HIDE DEF items, options
<1>5. ASSUME NEW i \in DOMAIN drawn
      PROVE  LET o == items[i].option
                 shown == ActiveZones(drawn)[i]
             IN /\ {v[1] : v \in Range(o.vertices)} = {shown[1], shown[3]}
                /\ {v[2] : v \in Range(o.vertices)} = {shown[2], shown[4]}
                /\ IsSerpentine(o.coverage, shown[1] .. shown[3], shown[2] .. shown[4])
  <2> DEFINE o == items[i].option
             shown == ActiveZones(drawn)[i]
  <2>1. shown = <<Left(drawn[i]), Bottom(drawn[i]), Right(drawn[i]), Top(drawn[i])>>
    BY DEF ActiveZones
  <2>2. /\ shown[1] = Left(drawn[i]) /\ shown[2] = Bottom(drawn[i])
        /\ shown[3] = Right(drawn[i]) /\ shown[4] = Top(drawn[i])
    BY <2>1
  <2>3. o = ZoneOption(drawn[i], i)
    BY <1>4
  <2> HIDE DEF o, shown
  <2>4. /\ {v[1] : v \in Range(o.vertices)} = {shown[1], shown[3]}
        /\ {v[2] : v \in Range(o.vertices)} = {shown[2], shown[4]}
        /\ IsSerpentine(o.coverage, shown[1] .. shown[3], shown[2] .. shown[4])
    BY <1>2, <2>2, <2>3, ZoneIsAsDrawn
  <2> QED BY <2>4 DEF o, shown
<1> QED BY <1>4, <1>5 DEF ZonesAsDrawn, drawn, items

\* ZonesAreWalked of Algorithms, for any rectangles (client.py:1507 and :1532): the
\* border the robot gets is the one that is shown, and the path, one row after the
\* other, goes by single steps within a row and by two to the next, stays inside and
\* comes within a step of every row.
THEOREM ZonesAreWalkedHolds ==
  ASSUME NEW zone \in Seq(Rectangle), NEW single \in Rectangle \cup {NoZone}, NEW mode \in CleanMode,
         job = [kind |-> "zone", zone |-> zone, single |-> single, mode |-> mode]
  PROVE  ZonesAreWalked
BY ZonesAsDrawnHolds DEF ZonesAreWalked
=============================================================================
