--------------------------- MODULE DiscoveryProofs ---------------------------
(***************************************************************************)
(* What Discovery guarantees for any list of known keys, any key of the    *)
(* robot, any model the user may choose and any timeouts: its types, that  *)
(* an entry names the robot, and that a robot heard is asked by its name.  *)
(***************************************************************************)
EXTENDS Discovery, SequenceTheorems, TLAPS

\* While the flow talks to the robot its prefix is one of the known keys.
Asks == stage \in {"connecting", "listening", "draining", "asking"}

TypeInv == TypeOK /\ (Asks => prefix \in 1..NumKeys)

LEMMA ConstantTypes ==
  /\ NumKeys \in Nat \ {0} /\ BatchSize \in Nat \ {0} /\ Deadline \in Nat \ {0}
  /\ Silence \in Nat \ {0} /\ MaxFlows \in Nat \ {0} /\ MaxRejects \in Nat
  /\ RobotKeys \subseteq 1..NumKeys /\ Models \subseteq 0..NumKeys
  /\ 1..NumKeys \subseteq Frames /\ Bare \in Frames /\ Default \in 1..NumKeys
BY DiscoveryAssumption DEF Frames, Default

\* One frame for each known key, and the bare one.
LEMMA WakeFramesType ==
  ASSUME prefix \in 1..NumKeys
  PROVE  WakeFrames \in Seq(Frames) /\ Len(WakeFrames) = NumKeys + 1
<1> DEFINE others == [i \in 1..NumKeys - 1 |-> IF i < prefix THEN i ELSE i + 1]
<1>1. NumKeys \in Nat /\ NumKeys >= 1 /\ NumKeys - 1 \in Nat
  BY ConstantTypes
<1>2. \A i \in 1..NumKeys - 1 : i \in 1..NumKeys /\ i + 1 \in 1..NumKeys
  BY <1>1
<1>3. others \in [1..NumKeys - 1 -> Frames]
  BY <1>2, ConstantTypes
<1>4. others \in Seq(Frames) /\ Len(others) = NumKeys - 1
  BY <1>1, <1>3
<1>5. <<prefix, Bare>> \in Seq(Frames) /\ Len(<<prefix, Bare>>) = 2
  BY ConstantTypes
<1> HIDE DEF others
<1>6. WakeFrames = <<prefix, Bare>> \o others
  BY DEF WakeFrames, others
<1>. QED  BY <1>1, <1>4, <1>5, <1>6

LEMMA MinOfTwo ==
  ASSUME NEW a \in Nat, NEW b \in Nat
  PROVE  Min({a, b}) \in Nat /\ Min({a, b}) <= a /\ Min({a, b}) <= b
<1>1. \E x \in {a, b} : \A y \in {a, b} : x <= y
  OBVIOUS
<1>2. Min({a, b}) \in {a, b} /\ \A y \in {a, b} : Min({a, b}) <= y
  BY <1>1 DEF Min
<1>. QED  BY <1>2

LEMMA FirstFrames ==
  ASSUME prefix \in 1..NumKeys, toRobot' = SubSeq(WakeFrames, 1, Min({BatchSize, Len(WakeFrames)}))
  PROVE  toRobot' \in Seq(Frames) /\ Range(toRobot') \subseteq Frames
<1>1. WakeFrames \in Seq(Frames) /\ Len(WakeFrames) \in Nat
  BY WakeFramesType, ConstantTypes
<1>2. /\ Min({BatchSize, Len(WakeFrames)}) \in Nat
      /\ Min({BatchSize, Len(WakeFrames)}) <= Len(WakeFrames)
  BY <1>1, MinOfTwo, ConstantTypes
<1>3. toRobot' \in Seq(Frames)
  <2>1. Min({BatchSize, Len(WakeFrames)}) \in 0..Len(WakeFrames)
    BY <1>1, <1>2
  <2> DEFINE m == Min({BatchSize, Len(WakeFrames)})
  <2>2. m \in 0..Len(WakeFrames)
    BY <2>1
  <2> HIDE DEF m
  <2>3. SubSeq(WakeFrames, 1, m) \in Seq(Frames)
    BY <1>1, <2>2
  <2>. QED  BY <2>3 DEF m
<1>4. \A s \in Seq(Frames) : \A i \in DOMAIN s : s[i] \in Frames
  OBVIOUS
<1>. QED  BY <1>3, <1>4 DEF Range

\* A silence takes time off, and the next frame is one of the list.
LEMMA SilenceTypes ==
  ASSUME TypeInv, Silent
  PROVE  /\ WakeFrames[wakeIndex + 1] \in Frames
         /\ left' \in 0..Deadline /\ wakeIndex' \in 0..NumKeys
<1>1. prefix \in 1..NumKeys /\ wakeIndex \in 0..NumKeys /\ left \in 0..Deadline
  BY DEF TypeInv, TypeOK, FlowTypes, Asks, Silent
<1>2. NumKeys \in Nat /\ Deadline \in Nat /\ Silence \in Nat
  BY ConstantTypes
<1>3. WakeFrames \in Seq(Frames) /\ Len(WakeFrames) = NumKeys + 1
  BY <1>1, WakeFramesType
<1>4. wakeIndex + 1 \in 1..Len(WakeFrames)
  BY <1>1, <1>2, <1>3
<1>5. WakeFrames[wakeIndex + 1] \in Frames
  BY <1>3, <1>4
<1>6. wakeIndex' = (wakeIndex + 1) % (NumKeys + 1)
  BY <1>3 DEF Silent
<1>7. wakeIndex' \in 0..NumKeys
  BY <1>1, <1>2, <1>6
<1>8. Patience \in Nat /\ Patience <= left /\ left \in Nat
  BY <1>1, <1>2, MinOfTwo DEF Patience
<1>9. left' = left - Patience
  BY DEF Silent
<1>10. left' \in 0..Deadline
  BY <1>1, <1>2, <1>8, <1>9
<1>. QED  BY <1>5, <1>7, <1>10

\* What comes from the socket is a message, and what is left are messages.
LEMMA FirstMessage ==
  ASSUME TypeInv, toClient # <<>>
  PROVE  /\ Head(toClient) \in Messages /\ Tail(toClient) \in Seq(Messages)
         /\ Head(toClient).key \in Frames
         /\ Head(toClient).id \in {RobotId, ""}
         /\ Head(toClient).kind = "broadcast" => Head(toClient).key \in 1..NumKeys
<1>1. toClient \in Seq(Messages)
  BY DEF TypeInv, TypeOK, WireTypes
<1>2. Head(toClient) \in Messages /\ Tail(toClient) \in Seq(Messages)
  BY <1>1
<1>3. ASSUME NEW m \in Messages
      PROVE  /\ m.key \in Frames /\ m.id \in {RobotId, ""}
             /\ m.kind = "broadcast" => m.key \in 1..NumKeys
  <2>1. CASE m \in Answer
    BY <2>1, ConstantTypes DEF Answer
  <2>2. CASE m = Rejection
    BY <2>2, ConstantTypes DEF Rejection
  <2>3. CASE m \in Broadcasts
    BY <2>3, ConstantTypes DEF Broadcasts
  <2>. QED  BY <1>3, <2>1, <2>2, <2>3 DEF Messages
<1>. QED  BY <1>2, <1>3

LEMMA FlowType ==
  ASSUME TypeInv, Submit \/ Again \/ ConnectFails \/ SocketLost \/ Flow
  PROVE  TypeInv'
<1> USE DEF client, robot, Asks
<1>0. /\ FlowTypes /\ WireTypes /\ RobotTypes /\ EntryTypes
      /\ Asks => prefix \in 1..NumKeys
  BY DEF TypeInv, TypeOK
<1>1. SUFFICES /\ FlowTypes' /\ WireTypes' /\ RobotTypes' /\ EntryTypes'
               /\ (Asks => prefix \in 1..NumKeys)'
  BY DEF TypeInv, TypeOK
<1>2. RobotTypes'
  <2>1. UNCHANGED robot
    BY DEF Submit, Again, ConnectFails, SocketLost, Flow, Connects, HearAnswer,
           HearBroadcast, Silent, GivesUp, Drain, Ask, SkipBroadcast, Told,
           AskTimesOut, Fails
  <2>. QED  BY <1>0, <2>1 DEF RobotTypes
<1>3. CASE Submit
  <2>1. choice' \in Models /\ choice' \in 0..NumKeys
    BY <1>3, ConstantTypes DEF Submit
  <2>2. prefix' \in 1..NumKeys
    <3>1. NumKeys \in Nat /\ Default \in 1..NumKeys
      BY ConstantTypes
    <3>2. choice' # 0 => choice' \in 1..NumKeys
      BY <2>1, <3>1
    <3>3. prefix' = IF choice' = 0 THEN Default ELSE choice'
      BY <1>3 DEF Submit, AutoDetect
    <3>. QED  BY <3>1, <3>2, <3>3
  <2>3. prefix' \in Frames /\ deviceId' = "" /\ stage' = "connecting"
        /\ wakeIndex' = 0 /\ left' = 0 /\ probed' = {} /\ found' = "no"
    BY <1>3, <2>2, ConstantTypes DEF Submit
  <2>4. 0 \in 0..NumKeys /\ 0 \in 0..Deadline
    BY ConstantTypes
  <2>5. FlowTypes'
    BY <2>1, <2>3, <2>4 DEF FlowTypes, Stages
  <2>6. flows \in 0..MaxFlows /\ flows < MaxFlows /\ flows' = flows + 1
    BY <1>0, <1>3 DEF Submit, EntryTypes
  <2>7. flows' \in 0..MaxFlows
    BY <2>6, ConstantTypes
  <2>8. WireTypes' /\ EntryTypes'
    BY <1>0, <1>3, <2>7 DEF Submit, WireTypes, EntryTypes
  <2>. QED  BY <1>2, <2>2, <2>5, <2>8
<1>4. CASE Again
  <2>1. FlowTypes'
    BY <1>0, <1>4 DEF Again, FlowTypes, Stages
  <2>2. WireTypes' /\ EntryTypes'
    BY <1>0, <1>4 DEF Again, WireTypes, EntryTypes
  <2>. QED  BY <1>2, <1>4, <2>1, <2>2 DEF Again
<1>5. CASE ConnectFails \/ SocketLost \/ GivesUp \/ AskTimesOut
  <2>1. Fails
    BY <1>5 DEF ConnectFails, SocketLost, GivesUp, AskTimesOut
  <2>2. FlowTypes'
    BY <1>0, <2>1 DEF Fails, FlowTypes, Stages
  <2>3. WireTypes' /\ EntryTypes'
    BY <1>0, <2>1 DEF Fails, Disconnected, WireTypes, EntryTypes
  <2>. QED  BY <1>2, <2>1, <2>2, <2>3 DEF Fails
<1>6. CASE Connects
  <2>1. prefix \in 1..NumKeys
    BY <1>0, <1>6 DEF Connects
  <2>2. toRobot' \in Seq(Frames) /\ probed' \subseteq Frames
    BY <1>6, <2>1, FirstFrames DEF Connects
  <2>3. Deadline \in 0..Deadline
    BY ConstantTypes
  <2>4. FlowTypes'
    BY <1>0, <1>6, <2>2, <2>3 DEF Connects, FlowTypes, Stages
  <2>5. WireTypes' /\ EntryTypes'
    BY <1>0, <1>6, <2>2 DEF Connects, WireTypes, EntryTypes
  <2>. QED  BY <1>2, <1>6, <2>1, <2>4, <2>5 DEF Connects
<1>7. CASE HearAnswer \/ HearBroadcast \/ SkipBroadcast
  <2>1. /\ toClient' \in Seq(Messages)
        /\ Head(toClient).id \in {RobotId, ""}
        /\ HearBroadcast => Head(toClient).key \in 1..NumKeys
    BY <1>7, FirstMessage DEF HearAnswer, HearBroadcast, SkipBroadcast, Arrived
  <2>2. WireTypes' /\ EntryTypes'
    BY <1>0, <1>7, <2>1
    DEF HearAnswer, HearBroadcast, SkipBroadcast, WireTypes, EntryTypes
  <2>3. CASE HearAnswer
    <3>1. FlowTypes'
      BY <1>0, <2>1, <2>3 DEF HearAnswer, FlowTypes, Stages
    <3>. QED  BY <1>0, <1>2, <2>2, <2>3, <3>1 DEF HearAnswer
  <2>4. CASE HearBroadcast
    <3>1. prefix' \in 1..NumKeys /\ prefix' \in Frames
      BY <2>1, <2>4, ConstantTypes DEF HearBroadcast
    <3>2. FlowTypes'
      BY <1>0, <2>1, <2>4, <3>1 DEF HearBroadcast, FlowTypes, Stages
    <3>. QED  BY <1>2, <2>2, <3>1, <3>2
  <2>5. CASE SkipBroadcast
    <3>1. UNCHANGED <<stage, client>>
      BY <2>5 DEF SkipBroadcast
    <3>. QED  BY <1>0, <1>2, <2>2, <3>1 DEF FlowTypes
  <2>. QED  BY <1>7, <2>3, <2>4, <2>5
<1>8. CASE Silent
  <2>1. toRobot' \in Seq(Frames) /\ probed' \subseteq Frames
    <3>1. toRobot \in Seq(Frames) /\ probed \subseteq Frames
      BY <1>0 DEF WireTypes, FlowTypes
    <3>2. \A f \in Frames : Append(toRobot, f) \in Seq(Frames)
      BY <3>1
    <3>. QED  BY <1>8, <3>1, <3>2, SilenceTypes DEF Silent
  <2>2. FlowTypes'
    BY <1>0, <1>8, <2>1, SilenceTypes DEF Silent, FlowTypes, Stages
  <2>3. WireTypes' /\ EntryTypes'
    BY <1>0, <1>8, <2>1 DEF Silent, WireTypes, EntryTypes
  <2>. QED  BY <1>0, <1>2, <1>8, <2>2, <2>3 DEF Silent
<1>9. CASE Drain \/ Ask
  <2>1. FlowTypes' /\ (Asks => prefix \in 1..NumKeys)'
    BY <1>0, <1>9 DEF Drain, Ask, FlowTypes, Stages
  <2>2. Append(toRobot, prefix) \in Seq(Frames)
    <3>1. toRobot \in Seq(Frames) /\ prefix \in Frames
      BY <1>0 DEF FlowTypes, WireTypes
    <3>2. \A s \in Seq(Frames), f \in Frames : Append(s, f) \in Seq(Frames)
      OBVIOUS
    <3>. QED  BY <3>1, <3>2
  <2>3. WireTypes' /\ EntryTypes'
    <3>1. CASE Drain
      BY <1>0, <3>1 DEF Drain, WireTypes, EntryTypes
    <3>2. CASE Ask
      BY <1>0, <2>2, <3>2 DEF Ask, WireTypes, EntryTypes
    <3>. QED  BY <1>9, <3>1, <3>2
  <2>. QED  BY <1>2, <2>1, <2>3
<1>10. CASE Told
  <2>1. Head(toClient).key \in Frames /\ Head(toClient).id \in {RobotId, ""}
    BY <1>10, FirstMessage DEF Told, Arrived
  <2>2. (Head(toClient) # Rejection) \in BOOLEAN
    OBVIOUS
  <2>3. [key |-> ResolvedKey(Head(toClient).key), id |-> Head(toClient).id,
         told |-> Head(toClient) # Rejection] \in Entries
    BY <2>1, <2>2 DEF Entries, ResolvedKey
  <2>4. EntryTypes'
    BY <1>0, <1>10, <2>3 DEF Told, EntryTypes
  <2>5. WireTypes'
    BY <1>10 DEF Told, Disconnected, WireTypes
  <2>6. FlowTypes'
    BY <1>0, <1>10, <2>1 DEF Told, FlowTypes, Stages
  <2>7. stage' \in {"created", "aborted"}
    BY <1>10 DEF Told
  <2>. QED  BY <1>2, <2>4, <2>5, <2>6, <2>7
<1>. QED
  BY <1>3, <1>4, <1>5, <1>6, <1>7, <1>8, <1>9, <1>10 DEF Flow

LEMMA RobotType ==
  ASSUME TypeInv, Robot \/ RobotBroadcasts \/ RobotSleeps
  PROVE  TypeInv'
<1>0. /\ FlowTypes /\ WireTypes /\ RobotTypes /\ EntryTypes
      /\ Asks => prefix \in 1..NumKeys
  BY DEF TypeInv, TypeOK
<1>1. robotKey \in 1..NumKeys
  BY <1>0, ConstantTypes DEF RobotTypes
<1>2. /\ [kind |-> "answer", key |-> robotKey, id |-> RobotId] \in Messages
      /\ [kind |-> "broadcast", key |-> robotKey, id |-> RobotId] \in Messages
      /\ Rejection \in Messages
  BY <1>1 DEF Messages, Answer, Broadcasts
<1>3. UNCHANGED <<stage, client, entries, flows>>
  BY DEF Robot, RobotAnswers, RobotIgnores, RobotRejects, RobotBroadcasts, RobotSleeps
<1>4. FlowTypes' /\ EntryTypes' /\ (Asks => prefix \in 1..NumKeys)'
  BY <1>0, <1>3 DEF FlowTypes, EntryTypes, Asks, client
<1>5. WireTypes'
  <2>1. toClient \in Seq(Messages) /\ toRobot \in Seq(Frames)
    BY <1>0 DEF WireTypes
  <2>2. \A m \in Messages : Append(toClient, m) \in Seq(Messages)
    BY <2>1
  <2>3. toRobot # <<>> => Tail(toRobot) \in Seq(Frames)
    BY <2>1
  <2>. QED
    BY <1>2, <2>1, <2>2, <2>3
    DEF Robot, RobotAnswers, RobotIgnores, RobotRejects, RobotBroadcasts,
        RobotSleeps, WireTypes
<1>6. RobotTypes'
  <2>1. rejects \in 0..MaxRejects /\ robotKey \in RobotKeys /\ awake \in BOOLEAN
    BY <1>0 DEF RobotTypes
  <2>2. rejects < MaxRejects => rejects + 1 \in 0..MaxRejects
    BY <2>1, ConstantTypes
  <2>. QED
    BY <2>1, <2>2
    DEF Robot, RobotAnswers, RobotIgnores, RobotRejects, RobotBroadcasts,
        RobotSleeps, RobotTypes, robot
<1>. QED  BY <1>4, <1>5, <1>6 DEF TypeInv, TypeOK

\* The variables keep their types, and the flow never asks without a known key.
THEOREM TypeInductive == Spec => []TypeInv
<1>1. Init => TypeInv
  <2> SUFFICES ASSUME Init PROVE TypeInv
    OBVIOUS
  <2>1. 0 \in 0..NumKeys /\ 0 \in 0..Deadline /\ 0 \in 0..MaxFlows /\ 0 \in 0..MaxRejects
    BY ConstantTypes
  <2>2. FlowTypes
    BY <2>1, ConstantTypes DEF Init, FlowTypes, Stages
  <2>3. WireTypes /\ ~Asks
    <3>1. toRobot = <<>> /\ toClient = <<>> /\ stage = "form"
      BY DEF Init
    <3>2. <<>> \in Seq(Frames) /\ <<>> \in Seq(Messages)
      OBVIOUS
    <3>. QED  BY <3>1, <3>2 DEF WireTypes, Asks
  <2>4. RobotTypes
    BY <2>1 DEF Init, RobotTypes
  <2>5. EntryTypes
    BY <2>1 DEF Init, EntryTypes
  <2>. QED  BY <2>2, <2>3, <2>4, <2>5 DEF TypeInv, TypeOK
<1>2. TypeInv /\ [Next]_vars => TypeInv'
  <2> SUFFICES ASSUME TypeInv, [Next]_vars PROVE TypeInv'
    OBVIOUS
  <2>1. CASE UNCHANGED vars
    BY <2>1
    DEF vars, client, robot, TypeInv, TypeOK, FlowTypes, WireTypes, RobotTypes,
        EntryTypes, Asks
  <2>. QED  BY <2>1, FlowType, RobotType DEF Next
<1>. QED  BY <1>1, <1>2, PTL DEF Spec

\* Every variable of Discovery stays in its type, for any keys and any timeouts.
THEOREM TypeCorrect == Spec => []TypeOK
BY TypeInductive, PTL DEF TypeInv
-----------------------------------------------------------------------------
(***************************************************************************)
(* What the flow hears is what the robot says of itself.                   *)
(***************************************************************************)

\* A message that names the robot, and none of a robot that sleeps.
TrueMessage(m) ==
  /\ m # Rejection => m.key = robotKey /\ m.id = RobotId
  /\ m.kind = "broadcast" => awake

Talks == stage \in {"listening", "draining", "asking"}

LEMMA RejectionKind == Rejection.kind = "answer"
BY DEF Rejection

\* Nothing is on the wire when nobody is connected, and every message is true.
WireInv == /\ ~Talks => toRobot = <<>> /\ toClient = <<>>
           /\ \A i \in DOMAIN toClient : TrueMessage(toClient[i])

\* A robot that was heard is awake and goes by the prefix of the flow.
PrefixInv ==
  /\ found = "broadcast" /\ stage \in {"draining", "asking"} => prefix = robotKey /\ awake
  /\ stage \in {"connecting", "listening"} => found = "no"

HeardInv == WireInv /\ PrefixInv /\ HeardIsAnswered /\ EntryNamesTheRobot

\* What a step leaves on the wire to the client.
LEMMA TailIsTrue ==
  ASSUME TypeInv, WireInv, toClient # <<>>
  PROVE  /\ TrueMessage(Head(toClient))
         /\ \A i \in DOMAIN Tail(toClient) : TrueMessage(Tail(toClient)[i])
<1>1. toClient \in Seq(Messages)
  BY DEF TypeInv, TypeOK, WireTypes
<1>2. /\ DOMAIN toClient = 1..Len(toClient) /\ Len(toClient) \in Nat /\ Len(toClient) > 0
      /\ DOMAIN Tail(toClient) = 1..Len(toClient) - 1
      /\ \A i \in 1..Len(toClient) - 1 : Tail(toClient)[i] = toClient[i + 1]
      /\ Head(toClient) = toClient[1]
  BY <1>1
<1>3. 1 \in 1..Len(toClient) /\ \A i \in 1..Len(toClient) - 1 : i + 1 \in 1..Len(toClient)
  BY <1>2
<1>. QED  BY <1>2, <1>3 DEF WireInv

LEMMA AppendIsTrue ==
  ASSUME TypeInv, WireInv, NEW m \in Messages, TrueMessage(m)
  PROVE  \A i \in DOMAIN Append(toClient, m) : TrueMessage(Append(toClient, m)[i])
<1>1. toClient \in Seq(Messages)
  BY DEF TypeInv, TypeOK, WireTypes
<1>2. /\ DOMAIN toClient = 1..Len(toClient) /\ Len(toClient) \in Nat
      /\ DOMAIN Append(toClient, m) = 1..Len(toClient) + 1
      /\ \A i \in 1..Len(toClient) : Append(toClient, m)[i] = toClient[i]
      /\ Append(toClient, m)[Len(toClient) + 1] = m
  BY <1>1
<1>3. 1..Len(toClient) + 1 = 1..Len(toClient) \cup {Len(toClient) + 1}
  BY <1>2
<1>. QED  BY <1>2, <1>3 DEF WireInv

\* The robot says who it is.
LEMMA RobotSaysTrue ==
  ASSUME TypeInv
  PROVE  /\ [kind |-> "answer", key |-> robotKey, id |-> RobotId] \in Messages
         /\ [kind |-> "broadcast", key |-> robotKey, id |-> RobotId] \in Messages
         /\ Rejection \in Messages
         /\ TrueMessage([kind |-> "answer", key |-> robotKey, id |-> RobotId])
         /\ awake => TrueMessage([kind |-> "broadcast", key |-> robotKey, id |-> RobotId])
         /\ TrueMessage(Rejection)
<1>1. robotKey \in 1..NumKeys
  BY ConstantTypes DEF TypeInv, TypeOK, RobotTypes
<1>. QED  BY <1>1 DEF Messages, Answer, Broadcasts, Rejection, TrueMessage

\* The robot keeps its key, and goes to sleep only when nobody talks to it.
LEMMA RobotStays ==
  ASSUME TypeInv, [Next]_vars
  PROVE  /\ robotKey' = robotKey
         /\ awake' # awake => awake' = TRUE \/ (~Talks /\ ~Talks')
<1>1. CASE Submit \/ Again \/ ConnectFails \/ SocketLost \/ Flow \/ UNCHANGED vars
  <2>1. UNCHANGED robot
    BY <1>1
    DEF Submit, Again, ConnectFails, SocketLost, Flow, Connects, HearAnswer,
        HearBroadcast, Silent, GivesUp, Drain, Ask, SkipBroadcast, Told,
        AskTimesOut, Fails, vars
  <2>. QED  BY <2>1 DEF robot
<1>2. CASE Robot \/ RobotBroadcasts
  BY <1>2 DEF Robot, RobotAnswers, RobotIgnores, RobotRejects, RobotBroadcasts, robot
<1>3. CASE RobotSleeps
  BY <1>3 DEF RobotSleeps, Talks
<1>. QED  BY <1>1, <1>2, <1>3 DEF Next

\* The wire is true, and empty when nobody is connected.
LEMMA WireStep ==
  ASSUME TypeInv, WireInv, [Next]_vars
  PROVE  WireInv'
<1> DEFINE AllTrue(s) == \A i \in DOMAIN s : TrueMessage(s[i])
<1>1. AllTrue(toClient)
  BY DEF WireInv
<1>2. ~Talks => toRobot = <<>> /\ toClient = <<>>
  BY DEF WireInv
<1>3. AllTrue(<<>>)
  OBVIOUS
<1>4. toClient # <<>> => AllTrue(Tail(toClient))
  BY TailIsTrue
<1>5. \A m \in Messages : TrueMessage(m) => AllTrue(Append(toClient, m))
  BY AppendIsTrue
<1>6. AllTrue(toClient')
  <2>1. CASE \/ Submit \/ Again \/ ConnectFails \/ SocketLost \/ UNCHANGED vars
             \/ Connects \/ Silent \/ GivesUp \/ Drain \/ Ask \/ Told \/ AskTimesOut
             \/ RobotIgnores \/ RobotSleeps
    <3>1. toClient' \in {toClient, <<>>}
      BY <2>1
      DEF Submit, Again, ConnectFails, SocketLost, vars, Connects, Silent, GivesUp,
          Drain, Ask, Told, AskTimesOut, Fails, Disconnected, RobotIgnores, RobotSleeps
    <3>. QED  BY <1>1, <1>3, <3>1
  <2>2. CASE HearAnswer \/ HearBroadcast \/ SkipBroadcast
    BY <1>4, <2>2 DEF HearAnswer, HearBroadcast, SkipBroadcast, Arrived
  <2>3. CASE RobotAnswers \/ RobotRejects \/ RobotBroadcasts
    BY <1>5, <2>3, RobotSaysTrue DEF RobotAnswers, RobotRejects, RobotBroadcasts
  <2>. QED  BY <2>1, <2>2, <2>3 DEF Next, Flow, Robot
<1>7. ~Talks' => toRobot' = <<>> /\ toClient' = <<>>
  <2>1. CASE ConnectFails \/ SocketLost \/ GivesUp \/ AskTimesOut \/ Told
    BY <2>1 DEF ConnectFails, SocketLost, GivesUp, AskTimesOut, Told, Fails, Disconnected
  <2>2. CASE Submit \/ Again \/ RobotSleeps \/ UNCHANGED vars
    BY <1>2, <2>2 DEF Submit, Again, RobotSleeps, vars, Talks
  <2>3. CASE \/ Connects \/ HearAnswer \/ HearBroadcast \/ Silent \/ Drain \/ Ask
             \/ SkipBroadcast \/ RobotBroadcasts
    BY <2>3
    DEF Connects, HearAnswer, HearBroadcast, Silent, Drain, Ask, SkipBroadcast,
        RobotBroadcasts, Talks
  <2>4. CASE Robot
    BY <1>2, <2>4 DEF Robot, RobotAnswers, RobotIgnores, RobotRejects, Talks
  <2>. QED  BY <2>1, <2>2, <2>3, <2>4 DEF Next, Flow
<1> HIDE DEF AllTrue
<1>8. ASSUME NEW i \in DOMAIN toClient'
      PROVE  /\ toClient'[i] # Rejection =>
                  toClient'[i].key = robotKey' /\ toClient'[i].id = RobotId
             /\ toClient'[i].kind = "broadcast" => awake'
  <2>1. /\ toClient'[i] # Rejection => toClient'[i].key = robotKey /\ toClient'[i].id = RobotId
        /\ toClient'[i].kind = "broadcast" => awake
    BY <1>6 DEF AllTrue, TrueMessage
  <2>2. ~Talks' => toClient' = <<>>
    BY <1>7
  <2>3. Talks'
    BY <2>2
  <2>4. awake => awake'
    BY <2>3, RobotStays DEF TypeInv, TypeOK, RobotTypes
  <2>. QED  BY <2>1, <2>4, RobotStays
<1>. QED  BY <1>7, <1>8 DEF WireInv, TrueMessage

\* The prefix of a flow that heard the robot is the robot's.
LEMMA PrefixStep ==
  ASSUME TypeInv, WireInv, PrefixInv, [Next]_vars
  PROVE  PrefixInv'
<1>1. robotKey' = robotKey /\ (Talks /\ awake => awake')
  BY RobotStays DEF TypeInv, TypeOK, RobotTypes
<1>2. CASE HearBroadcast
  <2>1. TrueMessage(Head(toClient)) /\ Head(toClient).kind = "broadcast"
    BY <1>2, TailIsTrue DEF HearBroadcast, Arrived
  <2>2. Head(toClient).key = robotKey /\ awake
    <3>1. Head(toClient) # Rejection
      BY <2>1, RejectionKind
    <3>. QED  BY <2>1, <3>1 DEF TrueMessage
  <2>. QED  BY <1>1, <1>2, <2>2 DEF HearBroadcast, PrefixInv, Talks
<1>3. CASE HearAnswer
  BY <1>3 DEF HearAnswer, PrefixInv
<1>4. CASE \/ Submit \/ Again \/ ConnectFails \/ SocketLost \/ GivesUp \/ AskTimesOut
           \/ Told
  BY <1>4 DEF Submit, Again, ConnectFails, SocketLost, GivesUp, AskTimesOut, Told,
              Fails, PrefixInv
<1>5. CASE Connects \/ Silent \/ Drain \/ Ask \/ SkipBroadcast
  BY <1>1, <1>5
  DEF Connects, Silent, Drain, Ask, SkipBroadcast, PrefixInv, client, Talks
<1>6. CASE Robot \/ RobotBroadcasts \/ RobotSleeps \/ UNCHANGED vars
  <2>1. UNCHANGED <<stage, prefix, found>>
    BY <1>6
    DEF Robot, RobotAnswers, RobotIgnores, RobotRejects, RobotBroadcasts,
        RobotSleeps, vars, client
  <2>. QED  BY <1>1, <2>1 DEF PrefixInv, Talks
<1>. QED  BY <1>2, <1>3, <1>4, <1>5, <1>6 DEF Next, Flow

\* A request under the key of an awake robot stays on the wire until it is answered.
LEMMA HeardStep ==
  ASSUME TypeInv, WireInv, PrefixInv, HeardIsAnswered, [Next]_vars
  PROVE  HeardIsAnswered'
<1> SUFFICES ASSUME (stage = "asking" /\ found = "broadcast")'
             PROVE  (Answered \/ Contains(toRobot, robotKey))'
  BY DEF HeardIsAnswered
<1>1. robotKey' = robotKey
  BY RobotStays
<1>2. toRobot \in Seq(Frames) /\ toClient \in Seq(Messages) /\ prefix \in Frames
  BY DEF TypeInv, TypeOK, WireTypes, FlowTypes
<1>3. CASE Ask
  <2>1. prefix = robotKey /\ toRobot' = Append(toRobot, prefix)
    BY <1>3 DEF Ask, PrefixInv, client
  <2>2. /\ Len(toRobot) + 1 \in 1..Len(toRobot')
        /\ toRobot'[Len(toRobot) + 1] = robotKey
    BY <1>2, <2>1
  <2>. QED  BY <1>1, <2>2 DEF Contains
<1>4. CASE ~Ask
  <2>1. stage = "asking" /\ found = "broadcast"
    BY <1>4
    DEF Next, Flow, Submit, Again, ConnectFails, SocketLost, Connects, HearAnswer,
        HearBroadcast, Silent, GivesUp, Drain, SkipBroadcast, Told, AskTimesOut,
        Fails, Robot, RobotAnswers, RobotIgnores, RobotRejects, RobotBroadcasts,
        RobotSleeps, vars, client
  <2>2. (Answered \/ Contains(toRobot, robotKey)) /\ awake
    BY <2>1 DEF HeardIsAnswered, PrefixInv
  <2>3. CASE UNCHANGED <<toRobot, toClient>>
    BY <1>1, <2>2, <2>3 DEF Answered, Contains
  <2>4. CASE SkipBroadcast
    <3>1. /\ toClient # <<>> /\ toClient' = Tail(toClient) /\ toRobot' = toRobot
          /\ Head(toClient).kind # "answer"
      BY <2>4 DEF SkipBroadcast, Arrived
    <3>2. ASSUME NEW i \in DOMAIN toClient, toClient[i].kind = "answer"
          PROVE  Answered'
      <4>1. i \in 1..Len(toClient) /\ Len(toClient) \in Nat /\ i # 1
        BY <1>2, <3>1, <3>2
      <4>2. i - 1 \in DOMAIN toClient' /\ toClient'[i - 1] = toClient[i]
        BY <1>2, <3>1, <4>1
      <4>. QED  BY <3>2, <4>2 DEF Answered
    <3>. QED  BY <1>1, <2>2, <3>1, <3>2 DEF Answered, Contains
  <2>5. CASE RobotAnswers \/ RobotRejects \/ RobotBroadcasts
    <3>1. PICK m \in Messages : toClient' = Append(toClient, m)
      BY <2>5, RobotSaysTrue DEF RobotAnswers, RobotRejects, RobotBroadcasts
    <3>2. /\ Len(toClient) + 1 \in DOMAIN toClient'
          /\ toClient'[Len(toClient) + 1] = m
          /\ \A i \in DOMAIN toClient : i \in DOMAIN toClient' /\ toClient'[i] = toClient[i]
      BY <1>2, <3>1
    <3>3. CASE RobotBroadcasts
      BY <1>1, <2>2, <3>2, <3>3 DEF RobotBroadcasts, Answered, Contains
    <3>4. CASE RobotAnswers \/ RobotRejects
      <4>1. m.kind = "answer"
        <5>1. \A e \in Messages : Append(toClient, e)[Len(toClient) + 1] = e
          BY <1>2
        <5>2. PICK e \in {[kind |-> "answer", key |-> robotKey, id |-> RobotId], Rejection} :
                toClient' = Append(toClient, e)
          BY <3>4 DEF RobotAnswers, RobotRejects
        <5>3. m = e
          BY <3>2, <5>1, <5>2, RobotSaysTrue
        <5>4. [kind |-> "answer", key |-> robotKey, id |-> RobotId].kind = "answer"
          OBVIOUS
        <5>. QED  BY <5>2, <5>3, <5>4, RejectionKind
      <4>. QED  BY <3>2, <4>1 DEF Answered
    <3>. QED  BY <2>5, <3>3, <3>4
  <2>6. CASE RobotIgnores
    <3>1. /\ toRobot # <<>> /\ toRobot' = Tail(toRobot) /\ toClient' = toClient
          /\ Head(toRobot) # robotKey
      BY <2>2, <2>6 DEF RobotIgnores
    <3>2. ASSUME NEW i \in 1..Len(toRobot), toRobot[i] = robotKey
          PROVE  Contains(toRobot, robotKey)'
      <4>1. Len(toRobot) \in Nat /\ i # 1
        BY <1>2, <3>1, <3>2
      <4>2. i - 1 \in 1..Len(toRobot') /\ toRobot'[i - 1] = toRobot[i]
        BY <1>2, <3>1, <4>1
      <4>. QED  BY <1>1, <3>2, <4>2 DEF Contains
    <3>. QED  BY <2>2, <3>1, <3>2 DEF Answered, Contains
  <2>7. \/ UNCHANGED <<toRobot, toClient>> \/ SkipBroadcast
        \/ RobotAnswers \/ RobotRejects \/ RobotBroadcasts \/ RobotIgnores
    BY <1>4, <2>1
    DEF Next, Flow, Submit, Again, ConnectFails, SocketLost, Connects, HearAnswer,
        HearBroadcast, Silent, GivesUp, Drain, Told, AskTimesOut, Fails, Robot,
        RobotSleeps, vars
  <2>. QED  BY <2>3, <2>4, <2>5, <2>6, <2>7
<1>. QED  BY <1>3, <1>4

\* The entry is made of the answer.
LEMMA EntryStep ==
  ASSUME TypeInv, WireInv, EntryNamesTheRobot, [Next]_vars
  PROVE  EntryNamesTheRobot'
<1>1. robotKey' = robotKey
  BY RobotStays
<1>2. CASE Told
  <2>1. Head(toClient) # Rejection =>
          Head(toClient).key = robotKey /\ Head(toClient).id = RobotId
    BY <1>2, TailIsTrue DEF Told, Arrived, TrueMessage
  <2>2. entries' \subseteq entries \cup
          {[key |-> Head(toClient).key, id |-> Head(toClient).id,
            told |-> Head(toClient) # Rejection]}
    BY <1>2 DEF Told, ResolvedKey
  <2>3. ASSUME NEW e \in entries', e.told
        PROVE  e.key = robotKey /\ e.id = RobotId
    <3>1. CASE e \in entries
      BY <2>3, <3>1 DEF EntryNamesTheRobot
    <3>2. CASE e = [key |-> Head(toClient).key, id |-> Head(toClient).id,
                    told |-> Head(toClient) # Rejection]
      <4>1. e.told = (Head(toClient) # Rejection)
        BY <3>2
      <4>. QED  BY <2>1, <2>3, <3>2, <4>1
    <3>. QED  BY <2>2, <3>1, <3>2
  <2>. QED  BY <1>1, <2>3 DEF EntryNamesTheRobot
<1>3. CASE ~Told
  <2>1. UNCHANGED entries
    BY <1>3
    DEF Next, Flow, Submit, Again, ConnectFails, SocketLost, Connects, HearAnswer,
        HearBroadcast, Silent, GivesUp, Drain, Ask, SkipBroadcast, AskTimesOut, Fails,
        Robot, RobotAnswers, RobotIgnores, RobotRejects, RobotBroadcasts, RobotSleeps,
        vars
  <2>. QED  BY <1>1, <2>1 DEF EntryNamesTheRobot
<1>. QED  BY <1>2, <1>3

\* What the flow hears, asks and writes down is about the robot it talks to.
THEOREM HeardInductive == Spec => []HeardInv
<1>1. Init => HeardInv
  <2> SUFFICES ASSUME Init PROVE HeardInv
    OBVIOUS
  <2>1. /\ stage = "form" /\ found = "no" /\ entries = {}
        /\ toRobot = <<>> /\ toClient = <<>>
    BY DEF Init
  <2>2. DOMAIN <<>> = {}
    OBVIOUS
  <2>. QED
    BY <2>1, <2>2 DEF HeardInv, WireInv, PrefixInv, HeardIsAnswered, EntryNamesTheRobot
<1>2. TypeInv /\ HeardInv /\ [Next]_vars => HeardInv'
  BY WireStep, PrefixStep, HeardStep, EntryStep DEF HeardInv
<1>. QED  BY <1>1, <1>2, TypeInductive, PTL DEF Spec

\* An entry has the key and the id of the robot.
THEOREM EntryNamesTheRobotHolds == Spec => []EntryNamesTheRobot
BY HeardInductive, PTL DEF HeardInv

\* A robot heard by its broadcast is asked under its own key.
THEOREM HeardIsAnsweredHolds == Spec => []HeardIsAnswered
BY HeardInductive, PTL DEF HeardInv
=============================================================================
