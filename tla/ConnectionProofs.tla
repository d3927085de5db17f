-------------------------- MODULE ConnectionProofs --------------------------
(***************************************************************************)
(* For any number of sockets, delays and faults: the types of Connection,  *)
(* that no flag outlives its reader, that there is one connection at a     *)
(* time, and that a shutdown is final.                                     *)
(***************************************************************************)
EXTENDS Connection, FiniteSetTheorems, TLAPS

\* What a step does with the flags and the loop in each of its parts.
LEMMA FinallyFacts ==
  ASSUME Finally
  PROVE  /\ ~listenerActive' /\ ~awake' /\ ~connected' /\ ~keepalive'
         /\ loop' \in {"backoff", "ended"}
BY DEF Finally

LEMMA IterationFacts ==
  ASSUME BeginIteration
  PROVE  /\ delay' = InitialDelay /\ wakeFailures' = 0
         /\ open' = open /\ ws' = ws /\ age' = age /\ closing' = closing
         /\ waker' = waker /\ heard' = heard
         /\ \/ /\ ws \in open /\ loop' = "recv" /\ listenerActive' = TRUE
               /\ keepalive' = connected /\ awake' = awake /\ connected' = connected
            \/ /\ ws \notin open /\ loop' \in {"backoff", "ended"}
               /\ ~listenerActive' /\ ~awake' /\ ~connected' /\ ~keepalive'
               /\ {listenerActive', awake', connected', keepalive'} \subseteq BOOLEAN
BY DEF BeginIteration, Finally, wakerVars
-----------------------------------------------------------------------------
\* The parameters are positive.
LEMMA Parameters ==
  /\ NoSocket \notin Sockets
  /\ InitialDelay \in Nat /\ InitialDelay >= 1
  /\ Factor \in Nat /\ Factor >= 1
  /\ MaxDelay \in Nat /\ InitialDelay <= MaxDelay
  /\ WakeThreshold \in Nat /\ WakeThreshold >= 1
  /\ MaxFaults \in Nat
<1>1. {InitialDelay, Factor, MaxDelay, WakeThreshold} \subseteq Nat \ {0}
  BY ConnectionAssumption DEF ConnectionAssumption
<1>2. /\ InitialDelay \in Nat \ {0} /\ Factor \in Nat \ {0}
      /\ MaxDelay \in Nat \ {0} /\ WakeThreshold \in Nat \ {0}
  BY <1>1
<1> QED BY <1>2, ConnectionAssumption DEF ConnectionAssumption

\* TypeOK in two parts, which most steps disturb one at a time.
Flags == /\ connected \in BOOLEAN /\ shouldReconnect \in BOOLEAN
         /\ listenerActive \in BOOLEAN /\ keepalive \in BOOLEAN
         /\ awake \in BOOLEAN /\ heard \in BOOLEAN
         /\ loop \in {"off", "connecting", "burst", "recv", "backoff", "ended"}
         /\ closing \in {"no", "begun", "done"}
         /\ waker \in {"idle", "polling", "true", "false", "raised"}

Values == /\ open \subseteq Sockets
          /\ ws \in Sockets \cup {NoSocket}
          /\ delay \in Nat /\ InitialDelay <= delay /\ delay <= MaxDelay
          /\ wakeFailures \in Nat /\ wakeFailures < WakeThreshold
          /\ age \in {0, 1, 2}
          /\ faults \in Nat /\ faults <= MaxFaults

LEMMA TypeParts == TypeOK <=> Flags /\ Values
<1>1. {connected, shouldReconnect, listenerActive, keepalive, awake, heard}
        \subseteq BOOLEAN
      <=> /\ connected \in BOOLEAN /\ shouldReconnect \in BOOLEAN
          /\ listenerActive \in BOOLEAN /\ keepalive \in BOOLEAN
          /\ awake \in BOOLEAN /\ heard \in BOOLEAN
  OBVIOUS
<1>2. delay \in InitialDelay .. MaxDelay
      <=> delay \in Nat /\ InitialDelay <= delay /\ delay <= MaxDelay
  BY Parameters
<1>3. wakeFailures \in 0 .. WakeThreshold - 1
      <=> wakeFailures \in Nat /\ wakeFailures < WakeThreshold
  BY Parameters
<1>4. age \in 0 .. 2 <=> age \in {0, 1, 2}
  OBVIOUS
<1>5. faults \in 0 .. MaxFaults <=> faults \in Nat /\ faults <= MaxFaults
  BY Parameters
<1> QED BY <1>1, <1>2, <1>3, <1>4, <1>5 DEF TypeOK, Flags, Values

LEMMA TypeInit == Init => TypeOK
<1>1. Init => Flags
  BY DEF Init, Flags
<1>2. Init => Values
  BY Parameters DEF Init, Values
<1> QED BY <1>1, <1>2, TypeParts

LEMMA FlagsTyped == TypeOK /\ [Next]_vars => Flags'
<1> SUFFICES ASSUME Flags, [Next]_vars PROVE Flags'
  BY TypeParts
<1> USE DEF Flags, socketVars, loopVars, aliveVars, wakerVars
<1>1. CASE Start
  BY <1>1, IterationFacts DEF Start
<1>2. CASE BurstSent
  BY <1>2, IterationFacts DEF BurstSent
<1>3. CASE IterationEnds \/ ConnectFails \/ ListenerCollides \/ HandlerRaises
  BY <1>3 DEF IterationEnds, ConnectFails, ListenerCollides, HandlerRaises, Finally
<1>4. CASE BackoffOver \/ ConnectSucceeds \/ Broadcast
  BY <1>4 DEF BackoffOver, ConnectSucceeds, Broadcast
<1>5. CASE KeepaliveStep
  <2>1. CASE KeepaliveHeartbeat
    <3>1. (ws \in open) \in BOOLEAN
      OBVIOUS
    <3>2. keepalive' \in BOOLEAN
      BY <2>1, <3>1, Zenon DEF KeepaliveHeartbeat
    <3> QED BY <2>1, <3>2 DEF KeepaliveHeartbeat
  <2>2. CASE KeepaliveBurst
    BY <2>2 DEF KeepaliveBurst
  <2> QED BY <1>5, <2>1, <2>2 DEF KeepaliveStep
<1>6. CASE DisconnectStep
  BY <1>6 DEF DisconnectStep, DisconnectBegins, DisconnectEnds, DisconnectAtOnce,
              OwnerCancels, NotListening
<1>7. CASE EnsureAwake
  <2>1. heard' \in BOOLEAN
    BY <1>7 DEF EnsureAwake
  <2>2. waker' \in {"true", "raised", "polling"}
    BY <1>7 DEF EnsureAwake
  <2> QED BY <1>7, <2>1, <2>2 DEF EnsureAwake
<1>8. CASE WakeSeesFlag \/ WakeGivesUp
  BY <1>8 DEF WakeSeesFlag, WakeGivesUp
<1>9. CASE SocketCloses \/ TimePasses \/ UNCHANGED vars
  BY <1>9 DEF SocketCloses, TimePasses, vars
<1> QED BY <1>1, <1>2, <1>3, <1>4, <1>5, <1>6, <1>7, <1>8, <1>9
        DEF Next, ListenerStep, WakerStep

LEMMA ValuesTyped == TypeOK /\ [Next]_vars => Values'
<1> SUFFICES ASSUME Values, [Next]_vars PROVE Values'
  BY TypeParts
<1> USE Parameters DEF Values, socketVars, loopVars, aliveVars, wakerVars
<1>1. CASE Start
  <2>1. CASE Connected
    <3>1. BeginIteration /\ UNCHANGED faults
      BY <1>1, <2>1 DEF Start
    <3> QED BY <3>1, IterationFacts
  <2>2. CASE ~Connected
    BY <1>1, <2>2 DEF Start
  <2> QED BY <2>1, <2>2
<1>2. CASE BurstSent
  BY <1>2, IterationFacts DEF BurstSent
<1>3. CASE IterationEnds \/ ConnectFails
  BY <1>3 DEF IterationEnds, ConnectFails
<1>4. CASE ListenerCollides \/ HandlerRaises
  BY <1>4 DEF ListenerCollides, HandlerRaises
<1>5. CASE BackoffOver
  <2>1. delay' \in Nat /\ InitialDelay <= delay' /\ delay' <= MaxDelay
    <3>1. delay * Factor \in Nat /\ delay * Factor >= delay
      <4>1. \A f \in Nat : f >= 1 => delay * f \in Nat /\ delay * f >= delay
        OBVIOUS
      <4> QED BY <4>1
    <3> QED BY <1>5, <3>1 DEF BackoffOver
  <2> QED BY <1>5, <2>1 DEF BackoffOver
<1>6. CASE ConnectSucceeds \/ Broadcast
  BY <1>6 DEF ConnectSucceeds, Broadcast
<1>7. CASE KeepaliveStep
  BY <1>7 DEF KeepaliveStep, KeepaliveHeartbeat, KeepaliveBurst, Stale
<1>8. CASE DisconnectStep
  BY <1>8 DEF DisconnectStep, DisconnectBegins, DisconnectEnds, DisconnectAtOnce
<1>9. CASE WakerStep \/ SocketCloses \/ TimePasses \/ UNCHANGED vars
  BY <1>9 DEF WakerStep, EnsureAwake, WakeSeesFlag, WakeGivesUp, SocketCloses,
              TimePasses, vars
<1> QED BY <1>1, <1>2, <1>3, <1>4, <1>5, <1>6, <1>7, <1>8, <1>9
        DEF Next, ListenerStep

LEMMA TypeStep == TypeOK /\ [Next]_vars => TypeOK'
BY FlagsTyped, ValuesTyped, TypeParts, PTL

\* Every variable keeps its type.
THEOREM TypeCorrect == Spec => []TypeOK
BY TypeInit, TypeStep, PTL DEF Spec
-----------------------------------------------------------------------------
LEMMA FlagsStep == FlagsNeedReader /\ [Next]_vars => FlagsNeedReader'
<1> SUFFICES ASSUME FlagsNeedReader, [Next]_vars PROVE FlagsNeedReader'
  OBVIOUS
<1> USE DEF FlagsNeedReader, socketVars, loopVars, aliveVars, wakerVars
<1>1. CASE Start \/ BurstSent
  BY <1>1, IterationFacts DEF Start, BurstSent
<1>2. CASE IterationEnds \/ ConnectFails \/ ListenerCollides \/ HandlerRaises
  BY <1>2 DEF IterationEnds, ConnectFails, ListenerCollides, HandlerRaises, Finally
<1>3. CASE BackoffOver \/ ConnectSucceeds \/ Broadcast
  BY <1>3 DEF BackoffOver, ConnectSucceeds, Broadcast
<1>4. CASE KeepaliveStep \/ DisconnectStep
  BY <1>4 DEF KeepaliveStep, KeepaliveHeartbeat, KeepaliveBurst, DisconnectStep,
              DisconnectBegins, DisconnectEnds, DisconnectAtOnce, OwnerCancels, NotListening
<1>5. CASE WakerStep \/ SocketCloses \/ TimePasses \/ UNCHANGED vars
  BY <1>5 DEF WakerStep, EnsureAwake, WakeSeesFlag, WakeGivesUp, SocketCloses, TimePasses, vars
<1> QED BY <1>1, <1>2, <1>3, <1>4, <1>5 DEF Next, ListenerStep

\* A command that sees _listener_active or _robot_awake has a listener that
\* reads the socket.
THEOREM FlagsNeedReaderHolds == Spec => []FlagsNeedReader
<1>1. Init => FlagsNeedReader
  BY DEF Init, FlagsNeedReader
<1> QED BY <1>1, FlagsStep, PTL DEF Spec
-----------------------------------------------------------------------------
\* Without faults _ws is the one connection there may be, and there is none
\* whenever the listener is about to open one.  After disconnect() nobody is left
\* who could.
LinkInv ==
  /\ keepalive => loop = "recv"
  /\ closing = "done" => ws = NoSocket /\ loop \in {"off", "ended"}
  /\ loop = "off" /\ closing = "no" => Connected \/ open = {}
  /\ faults = 0 => open \subseteq {ws} /\ (loop \in {"connecting", "backoff"} => open = {})

LEMMA LinkStep == TypeOK /\ LinkInv /\ [Next]_vars => LinkInv'
<1> SUFFICES ASSUME TypeOK, LinkInv, [Next]_vars PROVE LinkInv'
  OBVIOUS
<1> USE ConnectionAssumption DEF ConnectionAssumption, TypeOK, LinkInv, Connected,
        socketVars, loopVars, aliveVars, wakerVars
<1>1. CASE Start
  BY <1>1, IterationFacts DEF Start
<1>2. CASE BurstSent
  BY <1>2, IterationFacts DEF BurstSent
<1>3. CASE IterationEnds
  BY <1>3 DEF IterationEnds, Finally
<1>4. CASE ConnectFails
  BY <1>4 DEF ConnectFails, Finally
<1>5. CASE ListenerCollides \/ HandlerRaises
  BY <1>5 DEF ListenerCollides, HandlerRaises, Finally
<1>6. CASE BackoffOver \/ Broadcast
  BY <1>6 DEF BackoffOver, Broadcast
<1>7. CASE ConnectSucceeds
  BY <1>7 DEF ConnectSucceeds
<1>8. CASE KeepaliveHeartbeat \/ KeepaliveBurst
  BY <1>8 DEF KeepaliveHeartbeat, KeepaliveBurst, Stale
<1>9. CASE DisconnectBegins
  BY <1>9 DEF DisconnectBegins
<1>10. CASE DisconnectEnds
  BY <1>10 DEF DisconnectEnds, OwnerCancels, NotListening
<1>11. CASE DisconnectAtOnce
  BY <1>11 DEF DisconnectAtOnce, OwnerCancels, NotListening
<1>12. CASE WakerStep \/ SocketCloses \/ TimePasses \/ UNCHANGED vars
  BY <1>12 DEF WakerStep, EnsureAwake, WakeSeesFlag, WakeGivesUp, SocketCloses, TimePasses, vars
<1> QED BY <1>1, <1>2, <1>3, <1>4, <1>5, <1>6, <1>7, <1>8, <1>9, <1>10, <1>11, <1>12
        DEF Next, ListenerStep, KeepaliveStep, DisconnectStep

\* LinkInv is an inductive invariant, given the types.
THEOREM LinkInductive == Spec => []LinkInv
<1>1. Init => LinkInv
  BY ConnectionAssumption DEF Init, LinkInv, Connected, ConnectionAssumption
<1> QED BY <1>1, LinkStep, TypeCorrect, PTL DEF Spec

\* Without faults the client has at most one connection open.
THEOREM OneConnectionHolds == Spec => []OneConnection
<1>1. ASSUME LinkInv PROVE OneConnection
  <2> SUFFICES ASSUME faults = 0 PROVE Cardinality(open) <= 1
    BY DEF OneConnection
  <2>1. open = {} \/ open = {ws}
    BY <1>1 DEF LinkInv
  <2>2. Cardinality({}) = 0 /\ Cardinality({ws}) = 1
    BY FS_EmptySet, FS_Singleton
  <2> QED BY <2>1, <2>2
<1> QED BY <1>1, LinkInductive, PTL

\* After a shutdown the listener is gone, the connection closed, and it stays so.
THEOREM ShutdownIsFinalHolds == Spec => []ShutdownIsFinal
<1>1. ASSUME TypeOK, LinkInv PROVE ShutdownIsFinal
  BY <1>1, ConnectionAssumption DEF LinkInv, ShutdownIsFinal, Connected, TypeOK, ConnectionAssumption
<1> QED BY <1>1, TypeCorrect, LinkInductive, PTL
=============================================================================
