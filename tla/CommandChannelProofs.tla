------------------------ MODULE CommandChannelProofs ------------------------
(***************************************************************************)
(* What CommandChannel guarantees for any set of commands and any number   *)
(* of socket losses and wake bursts: its types, mutual exclusion of the    *)
(* exchanges, at most one execution of a command that is not idempotent,   *)
(* the contract of module CommandContract, and that an answer taken for    *)
(* the wrong command was adrift before.                                    *)
(***************************************************************************)
EXTENDS CommandChannel, TLAPS

\* What the types need to be inductive: a sent or queued call has an attempt
\* number, the waiting call heads the lock queue, and a call that awaits the
\* connection has an error to fall back on.
CallOK ==
  \A c \in Commands :
    /\ pc[c] # "idle" => attempt[c] \in {1, 2}
    /\ pc[c] \in Waiting => lockQ # <<>> /\ Head(lockQ) = c
    /\ pc[c] = "reconnect" => firstError[c] \in Errors

TypeInv == TypeOK /\ CallOK

LEMMA FrameSets == /\ Commands \X {1, 2} \subseteq Frames
                   /\ <<Query, 0>> \in Frames
                   /\ \A f \in Frames : f[1] \in Sources
                   /\ \A f \in Frames : f # <<Query, 0>> => f \in Commands \X {1, 2}
BY DEF Frames, Sources

\* Both outcomes of an exception keep the call well typed.
LEMMA RaiseType ==
  ASSUME TypeInv, NEW c \in Commands, NEW n \in {1, 2}, NEW e \in Errors,
         NEW s \in BOOLEAN, Raise(c, n, e, s)
  PROVE  /\ CallTypes'
         /\ attempt' = [attempt EXCEPT ![c] = n]
         /\ pc'[c] \in {"reconnect", "done"}
         /\ pc'[c] = "reconnect" => firstError'[c] = e
         /\ \A d \in Commands \ {c} : /\ pc'[d] = pc[d]
                                      /\ firstError'[d] = firstError[d]
BY DEF TypeInv, TypeOK, CallTypes, Raise, Settle

\* The send, and its two failures, when nobody awaits a response.
LEMMA TransmitType ==
  ASSUME TypeInv, NEW c \in Commands, NEW n \in {1, 2},
         NEW held \in Seq(Commands), held # <<>>, Head(held) = c,
         Transmit(c, n, held),
         \A d \in Commands : pc[d] \notin Waiting
  PROVE  TypeInv'
<1>0. /\ queue' = <<>>
      /\ UNCHANGED <<socket, connected, loop, fromRobot, orphans, runs, drops,
                     bursts>>
  BY DEF Transmit, linkVars, boundVars
<1>1. LinkTypes'
  BY <1>0 DEF TypeInv, TypeOK, LinkTypes
<1>2. CASE socket = "open"
  <2>1. <<c, n>> \in Frames
    BY DEF Frames
  <2>2. /\ toRobot' = Append(toRobot, <<c, n>>)
        /\ lockQ' = held
        /\ pc' \in {[pc EXCEPT ![c] = w] : w \in Waiting}
        /\ attempt' = [attempt EXCEPT ![c] = n]
        /\ UNCHANGED <<firstError, outcome, answer>>
    BY <1>2 DEF Transmit, Waiting
  <2>3. CallTypes'
    BY <2>2 DEF TypeInv, TypeOK, CallTypes, Waiting
  <2>4. QueueTypes'
    BY <1>0, <2>1, <2>2 DEF TypeInv, TypeOK, QueueTypes
  <2>5. CallOK'
    BY <2>2 DEF TypeInv, TypeOK, CallTypes, CallOK, Waiting
  <2>. QED  BY <1>1, <2>3, <2>4, <2>5 DEF TypeInv, TypeOK
<1>3. CASE socket = "dead"
  <2>1. Raise(c, n, "sendFailed", FALSE) /\ lockQ' = Tail(held)
        /\ UNCHANGED toRobot
    BY <1>3 DEF Transmit
  <2>2. "sendFailed" \in Errors  BY DEF Errors
  <2>3. QueueTypes'
    BY <1>0, <2>1 DEF TypeInv, TypeOK, QueueTypes
  <2>4. /\ CallTypes'
        /\ attempt' = [attempt EXCEPT ![c] = n]
        /\ pc'[c] \in {"reconnect", "done"}
        /\ pc'[c] = "reconnect" => firstError'[c] = "sendFailed"
        /\ \A d \in Commands \ {c} : /\ pc'[d] = pc[d]
                                     /\ firstError'[d] = firstError[d]
    BY <2>1, <2>2, RaiseType
  <2>5. CallOK'
    BY <2>2, <2>4 DEF TypeInv, TypeOK, CallTypes, CallOK, Waiting
  <2>. QED  BY <1>1, <2>3, <2>4, <2>5 DEF TypeInv, TypeOK
<1>4. CASE socket = "none"
  <2>1. /\ Settle(c, "crashed")
        /\ attempt' = [attempt EXCEPT ![c] = n]
        /\ lockQ' = Tail(held)
        /\ UNCHANGED <<toRobot, firstError, answer>>
    BY <1>4 DEF Transmit
  <2>2. CallTypes'
    BY <2>1 DEF TypeInv, TypeOK, CallTypes, Settle
  <2>3. QueueTypes'
    BY <1>0, <2>1 DEF TypeInv, TypeOK, QueueTypes
  <2>4. CallOK'
    BY <2>1 DEF TypeInv, TypeOK, CallTypes, CallOK, Settle, Waiting
  <2>. QED  BY <1>1, <2>2, <2>3, <2>4 DEF TypeInv, TypeOK
<1>. QED  BY <1>2, <1>3, <1>4 DEF TypeInv, TypeOK, LinkTypes

\* At most one call awaits a response: it heads the lock queue.
LEMMA OneWaiter ==
  ASSUME CallOK, NEW c \in Commands, pc[c] \in Waiting
  PROVE  \A d \in Commands : pc[d] \in Waiting => d = c
BY DEF CallOK

LEMMA ReleaseType ==
  ASSUME TypeInv, NEW c \in Commands, pc[c] \in Waiting, Release,
         pc'[c] \in {"reconnect", "done"},
         \A d \in Commands \ {c} : pc'[d] = pc[d]
  PROVE  /\ lockQ' \in Seq(Commands)
         /\ \A d \in Commands : pc'[d] \notin Waiting
<1>1. lockQ # <<>>
  BY DEF TypeInv, CallOK
<1>. QED  BY <1>1, OneWaiter DEF TypeInv, TypeOK, QueueTypes, Release, Waiting

\* The one frame a burst appends, or none.
LEMMA BurstType ==
  ASSUME TypeInv, Burst
  PROVE  toRobot' \in Seq(Frames) /\ bursts' \in Nat
<1>1. <<Query, 0>> \in Frames /\ toRobot \in Seq(Frames) /\ bursts \in Nat
  BY FrameSets DEF TypeInv, TypeOK, QueueTypes, LinkTypes
<1>2. CASE toRobot' = Append(toRobot, <<Query, 0>>) /\ bursts' = bursts + 1
  <2>1. \A f \in Frames : Append(toRobot, f) \in Seq(Frames)
    BY <1>1
  <2>. QED  BY <1>1, <1>2, <2>1
<1>3. CASE UNCHANGED <<toRobot, bursts>>
  BY <1>1, <1>3
<1>. QED  BY <1>2, <1>3 DEF Burst

\* Frames of a lost connection: commands only.
LEMMA AbandonType ==
  ASSUME TypeInv, Abandon(toRobot)
  PROVE  orphans' \subseteq Commands \X {1, 2}
<1>1. toRobot \in Seq(Frames) /\ orphans \subseteq Commands \X {1, 2}
  BY DEF TypeInv, TypeOK, QueueTypes, LinkTypes
<1>2. \A i \in DOMAIN toRobot : toRobot[i] \in Frames
  BY <1>1
<1>. QED  BY <1>1, <1>2, FrameSets DEF Abandon

\* A caller's step keeps the types.
LEMMA CallerType ==
  ASSUME TypeInv, NEW c \in Commands, CallerStep(c)
  PROVE  TypeInv'
<1>1. ASSUME NEW n \in {1, 2}, PreflightFails(c, n)
      PROVE  TypeInv'
  <2>1. "notConnected" \in Errors  BY DEF Errors
  <2>2. Raise(c, n, "notConnected", FALSE)
    BY <1>1 DEF PreflightFails
  <2>3. /\ CallTypes'
        /\ attempt' = [attempt EXCEPT ![c] = n]
        /\ pc'[c] \in {"reconnect", "done"}
        /\ pc'[c] = "reconnect" => firstError'[c] = "notConnected"
        /\ \A d \in Commands \ {c} : /\ pc'[d] = pc[d]
                                     /\ firstError'[d] = firstError[d]
    BY <2>1, <2>2, RaiseType
  <2>4. UNCHANGED <<lockQ, queue, linkVars, wireVars, runs, boundVars>>
    BY <1>1 DEF PreflightFails
  <2>5. QueueTypes' /\ LinkTypes'
    BY <2>4 DEF TypeInv, TypeOK, QueueTypes, LinkTypes, linkVars, wireVars, boundVars
  <2>6. CallOK'
    BY <2>1, <2>3, <2>4 DEF TypeInv, TypeOK, CallTypes, CallOK, Waiting
  <2>. QED  BY <2>3, <2>5, <2>6 DEF TypeInv, TypeOK
<1>2. ASSUME NEW n \in {1, 2}, SendAtOnce(c, n)
      PROVE  TypeInv'
  <2>1. \A d \in Commands : pc[d] \notin Waiting
    BY <1>2 DEF SendAtOnce, TypeInv, CallOK
  <2>2. /\ <<c>> \in Seq(Commands)
        /\ <<c>> # <<>>
        /\ Head(<<c>>) = c
    OBVIOUS
  <2>. QED  BY <1>2, <2>1, <2>2, TransmitType DEF SendAtOnce
<1>3. ASSUME NEW n \in {1, 2}, WaitForLock(c, n)
      PROVE  TypeInv'
  <2>1. /\ lockQ # <<>>
        /\ lockQ' = Append(lockQ, c)
        /\ pc' = [pc EXCEPT ![c] = "acquire"]
        /\ attempt' = [attempt EXCEPT ![c] = n]
        /\ UNCHANGED <<firstError, outcome, answer>>
        /\ UNCHANGED <<queue, linkVars, wireVars, runs, boundVars>>
    BY <1>3 DEF WaitForLock
  <2>2. CallTypes'
    BY <2>1 DEF TypeInv, TypeOK, CallTypes
  <2>3. lockQ' \in Seq(Commands) /\ lockQ' # <<>> /\ Head(lockQ') = Head(lockQ)
    BY <2>1 DEF TypeInv, TypeOK, QueueTypes
  <2>4. QueueTypes' /\ LinkTypes'
    BY <2>1, <2>3 DEF TypeInv, TypeOK, QueueTypes, LinkTypes, linkVars, wireVars, boundVars
  <2>5. CallOK'
    BY <2>1, <2>3 DEF TypeInv, TypeOK, CallTypes, CallOK, Waiting
  <2>. QED  BY <2>2, <2>4, <2>5 DEF TypeInv, TypeOK
<1>4. ASSUME SendAfterLock(c)
      PROVE  TypeInv'
  <2>1. \A d \in Commands : pc[d] \notin Waiting
    BY <1>4 DEF SendAfterLock, TypeInv, CallOK, Waiting
  <2>2. attempt[c] \in {1, 2}
    BY <1>4 DEF SendAfterLock, TypeInv, CallOK
  <2>3. lockQ \in Seq(Commands)
    BY DEF TypeInv, TypeOK, QueueTypes
  <2>. QED  BY <1>4, <2>1, <2>2, <2>3, TransmitType DEF SendAfterLock
<1>5. ASSUME TakeFromQueue(c) \/ ReceiveDirectly(c)
      PROVE  TypeInv'
  <2>1. PICK f : /\ Answered(c, f)
                 /\ \/ f = Head(queue) /\ queue # <<>>
                    \/ f = Head(fromRobot) /\ fromRobot # <<>>
    BY <1>5 DEF TakeFromQueue, ReceiveDirectly
  <2>2. f \in Frames
    BY <2>1 DEF TypeInv, TypeOK, QueueTypes
  <2>3. f[1] \in Sources
    BY <2>2, FrameSets
  <2>4. /\ pc' = [pc EXCEPT ![c] = "done"]
        /\ outcome' = [outcome EXCEPT ![c] = "answered"]
        /\ answer' = [answer EXCEPT ![c] = f[1]]
        /\ Release
        /\ UNCHANGED <<attempt, firstError, linkVars, toRobot, orphans, runs,
                       boundVars>>
    BY <2>1 DEF Answered, Settle
  <2>5. CallTypes'
    BY <2>3, <2>4 DEF TypeInv, TypeOK, CallTypes
  <2>6. pc[c] \in Waiting
    BY <1>5 DEF TakeFromQueue, ReceiveDirectly, Waiting
  <2>7. lockQ' \in Seq(Commands) /\ \A d \in Commands : pc'[d] \notin Waiting
    BY <2>4, <2>6, ReleaseType DEF TypeInv, TypeOK, CallTypes
  <2>8. \/ queue # <<>> /\ queue' = Tail(queue) /\ fromRobot' = fromRobot
        \/ fromRobot # <<>> /\ fromRobot' = Tail(fromRobot) /\ queue' = queue
    BY <1>5 DEF TakeFromQueue, ReceiveDirectly
  <2>9. LinkTypes'
    BY <2>4 DEF TypeInv, TypeOK, LinkTypes, linkVars, boundVars
  <2>10. QueueTypes'
    <3>1. CASE queue # <<>> /\ queue' = Tail(queue) /\ fromRobot' = fromRobot
      BY <2>4, <2>7, <3>1 DEF TypeInv, TypeOK, QueueTypes
    <3>2. CASE fromRobot # <<>> /\ fromRobot' = Tail(fromRobot) /\ queue' = queue
      BY <2>4, <2>7, <3>2 DEF TypeInv, TypeOK, QueueTypes
    <3>. QED  BY <2>8, <3>1, <3>2
  <2>11. CallOK'
    BY <2>4, <2>6, <2>7 DEF TypeInv, TypeOK, CallTypes, CallOK, Waiting
  <2>. QED  BY <2>5, <2>9, <2>10, <2>11 DEF TypeInv, TypeOK
<1>6. ASSUME ResponseTimeout(c) \/ ConnectionLost(c)
      PROVE  TypeInv'
  <2>1. PICK e \in Errors : GiveUp(c, e)
    BY <1>6 DEF ResponseTimeout, ConnectionLost, Errors
  <2>2. pc[c] \in Waiting
    BY <1>6 DEF ResponseTimeout, ConnectionLost, Waiting
  <2>3. attempt[c] \in {1, 2}
    BY <2>2 DEF TypeInv, CallOK, Waiting
  <2>4. Raise(c, attempt[c], e, TRUE)
    BY <2>1 DEF GiveUp
  <2>5. /\ CallTypes'
        /\ attempt' = [attempt EXCEPT ![c] = attempt[c]]
        /\ pc'[c] \in {"reconnect", "done"}
        /\ pc'[c] = "reconnect" => firstError'[c] = e
        /\ \A d \in Commands \ {c} : /\ pc'[d] = pc[d]
                                     /\ firstError'[d] = firstError[d]
    BY <2>3, <2>4, RaiseType
  <2>6. Release /\ UNCHANGED <<queue, linkVars, wireVars, runs, boundVars>>
    BY <2>1 DEF GiveUp
  <2>7. lockQ' \in Seq(Commands) /\ \A d \in Commands : pc'[d] \notin Waiting
    BY <2>2, <2>5, <2>6, ReleaseType
  <2>8. QueueTypes' /\ LinkTypes'
    BY <2>6, <2>7 DEF TypeInv, TypeOK, QueueTypes, LinkTypes, linkVars, wireVars, boundVars
  <2>9. CallOK'
    BY <2>1, <2>3, <2>5, <2>7 DEF TypeInv, TypeOK, CallTypes, CallOK
  <2>. QED  BY <2>5, <2>8, <2>9 DEF TypeInv, TypeOK
<1>7. ASSUME \/ ConnectionBack(c) \/ ReconnectTimeout(c)
             \/ WakeRefused(c) \/ WakeBurst(c)
      PROVE  TypeInv'
  <2>1. /\ CallTypes'
        /\ CallOK'
    BY <1>7 DEF ConnectionBack, ReconnectTimeout, WakeRefused, WakeBurst,
                Settle, TypeInv, TypeOK, CallTypes, CallOK, Waiting, Errors
  <2>2. /\ UNCHANGED <<lockQ, queue, linkVars, fromRobot, orphans, runs, drops>>
        /\ Burst \/ UNCHANGED <<toRobot, bursts>>
    BY <1>7 DEF ConnectionBack, ReconnectTimeout, WakeRefused, WakeBurst,
                wireVars, boundVars
  <2>3. QueueTypes' /\ LinkTypes'
    BY <2>2, BurstType DEF TypeInv, TypeOK, QueueTypes, LinkTypes, linkVars
  <2>. QED  BY <2>1, <2>3 DEF TypeInv, TypeOK
<1>. QED
  BY <1>1, <1>2, <1>3, <1>4, <1>5, <1>6, <1>7 DEF CallerStep

\* The link and the robot leave the calls alone and keep the types.
LEMMA EnvironmentType ==
  ASSUME TypeInv, LinkStep \/ RobotStep
  PROVE  TypeInv'
<1>1. UNCHANGED <<callVars, lockQ>>
  BY DEF LinkStep, RobotStep, EnterReceiveLoop, ListenerDelivers, SocketDies,
         ListenerEnds, Reconnect, ReconnectBurst, KeepaliveBurst, Disconnect,
         Disconnected, RobotExecutes, RobotIgnores, RobotExecutesOrphan
<1>2. CallTypes' /\ CallOK'
  BY <1>1 DEF TypeInv, TypeOK, CallTypes, CallOK, callVars
<1>3. SUFFICES QueueTypes' /\ LinkTypes'
  BY <1>2 DEF TypeInv, TypeOK
<1> USE DEF TypeInv, TypeOK, QueueTypes, LinkTypes, linkVars, wireVars, boundVars
<1>4. CASE EnterReceiveLoop
  BY <1>1, <1>4 DEF EnterReceiveLoop
<1>5. CASE ListenerDelivers
  BY <1>1, <1>5 DEF ListenerDelivers
<1>6. CASE SocketDies
  <2>1. CASE fromRobot' = fromRobot
    BY <1>1, <1>6, <2>1, AbandonType DEF SocketDies
  <2>2. CASE fromRobot' = <<>>
    BY <1>1, <1>6, <2>2, AbandonType DEF SocketDies
  <2>. QED  BY <1>6, <2>1, <2>2 DEF SocketDies
<1>7. CASE ListenerEnds
  <2>1. drops' = drops \/ drops' = drops + 1
    BY <1>7 DEF ListenerEnds
  <2>2. drops' \in Nat
    BY <2>1
  <2>. QED  BY <1>1, <1>7, <2>2 DEF ListenerEnds
<1>8. CASE Reconnect
  BY <1>1, <1>8, AbandonType DEF Reconnect
<1>9. CASE ReconnectBurst
  BY <1>1, <1>9, BurstType DEF ReconnectBurst
<1>10. CASE KeepaliveBurst
  BY <1>1, <1>10, BurstType DEF KeepaliveBurst
<1>11. CASE Disconnect
  <2>1. QueueTypes'
    BY <1>1, <1>11 DEF Disconnect
  <2>2. LinkTypes'
    BY <1>11, AbandonType DEF Disconnect
  <2>. QED  BY <2>1, <2>2
<1>12. CASE Disconnected
  BY <1>1, <1>12 DEF Disconnected
<1>13. CASE RobotExecutes
  <2>1. Head(toRobot) \in Frames /\ Tail(toRobot) \in Seq(Frames)
    BY <1>13 DEF RobotExecutes
  <2>2. CASE fromRobot' = fromRobot
    BY <1>1, <1>13, <2>1, <2>2 DEF RobotExecutes, Execute
  <2>3. CASE fromRobot' = Append(fromRobot, Head(toRobot))
    BY <1>1, <1>13, <2>1, <2>3 DEF RobotExecutes, Execute
  <2>. QED  BY <1>13, <2>2, <2>3 DEF RobotExecutes
<1>14. CASE RobotIgnores
  BY <1>1, <1>14 DEF RobotIgnores
<1>15. CASE RobotExecutesOrphan
  BY <1>1, <1>15 DEF RobotExecutesOrphan, Execute
<1>. QED
  BY <1>4, <1>5, <1>6, <1>7, <1>8, <1>9, <1>10, <1>11, <1>12, <1>13, <1>14,
     <1>15 DEF LinkStep, RobotStep

\* Every variable keeps its type, the call that awaits a response holds the
\* command lock, and a call that awaits the connection has an error to raise.
THEOREM TypeInductive == Spec => []TypeInv
<1>1. Init => TypeInv
  BY DEF Init, TypeInv, TypeOK, CallTypes, QueueTypes, LinkTypes, CallOK, Waiting
<1>2. TypeInv /\ [Next]_vars => TypeInv'
  <2> SUFFICES ASSUME TypeInv, [Next]_vars PROVE TypeInv'
    OBVIOUS
  <2>1. CASE UNCHANGED vars
    BY <2>1 DEF TypeInv, TypeOK, CallTypes, QueueTypes, LinkTypes, CallOK,
                vars, callVars, linkVars, wireVars, boundVars
  <2>. QED  BY <2>1, CallerType, EnvironmentType DEF Next
<1>. QED  BY <1>1, <1>2, PTL DEF Spec

\* Every variable of the command path keeps its type.
THEOREM TypeCorrect == Spec => []TypeOK
<1>1. TypeInv => TypeOK
  BY DEF TypeInv
<1>. QED  BY <1>1, TypeInductive, PTL
-----------------------------------------------------------------------------
(***************************************************************************)
(* At most one execution.  A command that is not idempotent has at most    *)
(* one frame in the world: it is sent once, and it is re-sent only when    *)
(* the first attempt put nothing on the wire.                              *)
(***************************************************************************)

Unsent(c) == runs[c] = 0 /\ ~OnWire(c)

OneFrame(c) ==
  /\ runs[c] <= 1
  /\ runs[c] = 1 => ~OnWire(c)
  /\ \A i, j \in DOMAIN toRobot :
       toRobot[i][1] = c /\ toRobot[j][1] = c => i = j
  /\ \A i \in DOMAIN toRobot : \A f \in orphans :
       ~(toRobot[i][1] = c /\ f[1] = c)
  /\ \A f, g \in orphans : f[1] = c /\ g[1] = c => f = g

OnceOK(c) ==
  /\ pc[c] \in {"idle", "acquire", "reconnect", "waking", "woken"} => Unsent(c)
  /\ outcome[c] \in Refusals => Unsent(c)
  /\ outcome[c] = "open" <=> pc[c] # "done"
  /\ OneFrame(c)

OnceInv == \A c \in Commands \ Idempotent : OnceOK(c)

\* Nothing happens on the wire.
LEMMA WireUnchanged ==
  ASSUME NEW c \in Commands, UNCHANGED <<toRobot, orphans, runs>>
  PROVE  /\ Unsent(c) => Unsent(c)'
         /\ OneFrame(c) => OneFrame(c)'
BY DEF Unsent, OneFrame, OnWire

\* Somebody else's frame is sent.
LEMMA WireOther ==
  ASSUME TypeInv, NEW c \in Commands, NEW f \in Frames, f[1] # c,
         toRobot' = Append(toRobot, f), UNCHANGED <<orphans, runs>>
  PROVE  /\ Unsent(c) => Unsent(c)'
         /\ OneFrame(c) => OneFrame(c)'
<1>1. toRobot \in Seq(Frames)
  BY DEF TypeInv, TypeOK, QueueTypes
<1>2. \A i \in DOMAIN toRobot' : /\ i \in DOMAIN toRobot => toRobot'[i] = toRobot[i]
                                 /\ i \notin DOMAIN toRobot => toRobot'[i] = f
  BY <1>1
<1>. QED  BY <1>2 DEF Unsent, OneFrame, OnWire

\* The first frame of c is sent.
LEMMA WireFirst ==
  ASSUME TypeInv, NEW c \in Commands, NEW n \in {1, 2}, Unsent(c),
         toRobot' = Append(toRobot, <<c, n>>), UNCHANGED <<orphans, runs>>
  PROVE  OneFrame(c)'
<1>1. toRobot \in Seq(Frames) /\ <<c, n>> \in Frames
  BY DEF TypeInv, TypeOK, QueueTypes, Frames
<1>2. /\ DOMAIN toRobot' = 1 .. Len(toRobot) + 1
      /\ \A i \in DOMAIN toRobot' :
           i # Len(toRobot) + 1 => i \in DOMAIN toRobot /\ toRobot'[i] = toRobot[i]
  BY <1>1
<1>. QED  BY <1>2 DEF Unsent, OneFrame, OnWire

\* The connection is lost: frames in flight become orphans.
LEMMA WireLost ==
  ASSUME TypeInv, NEW c \in Commands, Abandon(toRobot), toRobot' = <<>>,
         UNCHANGED runs
  PROVE  /\ Unsent(c) => Unsent(c)'
         /\ OneFrame(c) => OneFrame(c)'
<1>1. DOMAIN toRobot' = {}
  OBVIOUS
<1>2. \A f \in orphans' : f \in orphans \/ \E i \in DOMAIN toRobot : f = toRobot[i]
  BY DEF Abandon
<1>. QED  BY <1>1, <1>2 DEF Unsent, OneFrame, OnWire

\* The robot takes the next frame off the wire, and may execute it.
LEMMA WireTaken ==
  ASSUME TypeInv, NEW c \in Commands, toRobot # <<>>, toRobot' = Tail(toRobot),
         UNCHANGED orphans,
         runs' = runs \/ Execute(Head(toRobot)[1])
  PROVE  /\ Unsent(c) => Unsent(c)'
         /\ OneFrame(c) => OneFrame(c)'
<1>1. /\ toRobot \in Seq(Frames)
      /\ runs \in [Commands -> Nat]
  BY DEF TypeInv, TypeOK, QueueTypes, LinkTypes
<1>2. /\ 1 \in DOMAIN toRobot /\ Head(toRobot) = toRobot[1]
      /\ \A i \in DOMAIN toRobot' : /\ i + 1 \in DOMAIN toRobot
                                    /\ i + 1 # 1
                                    /\ toRobot'[i] = toRobot[i + 1]
      /\ \A i, j \in DOMAIN toRobot' : i + 1 = j + 1 => i = j
  BY <1>1
<1>3. /\ toRobot[1][1] # c => runs'[c] = runs[c]
      /\ toRobot[1][1] = c => runs'[c] \in {runs[c], runs[c] + 1}
  BY <1>1, <1>2 DEF Execute
<1>4. Unsent(c) => Unsent(c)'
  BY <1>2, <1>3 DEF Unsent, OnWire
<1>5. ASSUME OneFrame(c) PROVE OneFrame(c)'
  <2>1. CASE toRobot[1][1] = c
    <3>1. runs[c] = 0
      BY <1>1, <1>2, <1>5, <2>1 DEF OneFrame, OnWire
    <3>2. runs'[c] <= 1
      BY <1>3, <2>1, <3>1
    <3>3. ~OnWire(c)'
      BY <1>2, <1>5, <2>1 DEF OneFrame, OnWire
    <3>. QED  BY <3>2, <3>3 DEF OneFrame, OnWire
  <2>2. CASE toRobot[1][1] # c
    BY <1>2, <1>3, <1>5, <2>2 DEF OneFrame, OnWire
  <2>. QED  BY <2>1, <2>2
<1>. QED  BY <1>4, <1>5

\* The robot executes a frame of a lost connection.
LEMMA WireOrphan ==
  ASSUME TypeInv, NEW c \in Commands, RobotExecutesOrphan
  PROVE  /\ Unsent(c) => Unsent(c)'
         /\ OneFrame(c) => OneFrame(c)'
<1>1. PICK f \in orphans : /\ Execute(f[1])
                           /\ orphans' = orphans \ {f}
                           /\ UNCHANGED toRobot
  BY DEF RobotExecutesOrphan
<1>2. runs \in [Commands -> Nat]
  BY DEF TypeInv, TypeOK, LinkTypes
<1>3. runs'[c] = IF f[1] = c THEN runs[c] + 1 ELSE runs[c]
  BY <1>1, <1>2 DEF Execute
<1>. QED  BY <1>1, <1>2, <1>3 DEF Unsent, OneFrame, OnWire

\* An exception of attempt n: c is retried only when it is still unsent, and
\* is refused only when it is unsent.
LEMMA RaiseOnce ==
  ASSUME TypeInv, NEW c \in Commands \ Idempotent, OnceOK(c),
         NEW n \in {1, 2}, NEW e \in Errors, NEW sent \in BOOLEAN,
         Raise(c, n, e, sent), pc[c] # "done",
         sent \/ Unsent(c),
         sent => e \notin Refusals,
         UNCHANGED <<toRobot, orphans, runs>>
  PROVE  OnceOK(c)'
<1>1. (Unsent(c) => Unsent(c)') /\ OneFrame(c)'
  BY WireUnchanged DEF OnceOK
<1>2. \/ ~sent /\ pc'[c] = "reconnect" /\ outcome'[c] = "open"
      \/ pc'[c] = "done" /\ outcome'[c] = e
  BY DEF Raise, Settle, MayRepeat, TypeInv, TypeOK, CallTypes, OnceOK
<1>3. e # "open"
  BY DEF Errors
<1>. QED  BY <1>1, <1>2, <1>3 DEF OnceOK, Refusals

LEMMA TransmitOnce ==
  ASSUME TypeInv, NEW c \in Commands \ Idempotent, OnceOK(c),
         NEW n \in {1, 2}, NEW held, Transmit(c, n, held),
         pc[c] \in {"idle", "woken", "acquire"}
  PROVE  OnceOK(c)'
<1>1. Unsent(c) /\ pc[c] # "done" /\ outcome[c] = "open"
  BY DEF OnceOK
<1>2. UNCHANGED <<orphans, runs>>
  BY DEF Transmit
<1>3. CASE socket = "open"
  <2>1. /\ toRobot' = Append(toRobot, <<c, n>>)
        /\ pc'[c] \in Waiting
        /\ outcome'[c] = "open"
    BY <1>1, <1>3 DEF Transmit, Waiting, TypeInv, TypeOK, CallTypes
  <2>2. OneFrame(c)'
    BY <1>1, <1>2, <2>1, WireFirst
  <2>. QED  BY <2>1, <2>2 DEF OnceOK, Waiting, Refusals
<1>4. CASE socket = "dead"
  <2>1. Raise(c, n, "sendFailed", FALSE) /\ UNCHANGED toRobot
    BY <1>4 DEF Transmit
  <2>2. "sendFailed" \in Errors
    BY DEF Errors
  <2>. QED  BY <1>1, <1>2, <2>1, <2>2, RaiseOnce
<1>5. CASE socket = "none"
  <2>1. /\ UNCHANGED toRobot
        /\ pc'[c] = "done"
        /\ outcome'[c] = "crashed"
    BY <1>5 DEF Transmit, Settle, TypeInv, TypeOK, CallTypes
  <2>. QED  BY <1>1, <1>2, <2>1, WireUnchanged DEF OnceOK
<1>. QED  BY <1>3, <1>4, <1>5 DEF TypeInv, TypeOK, LinkTypes

\* A burst adds a frame of its own, never one of a command.
LEMMA BurstOnce ==
  ASSUME TypeInv, NEW c \in Commands, Burst, UNCHANGED <<orphans, runs>>
  PROVE  /\ Unsent(c) => Unsent(c)'
         /\ OneFrame(c) => OneFrame(c)'
<1>1. <<Query, 0>> \in Frames /\ <<Query, 0>>[1] # c
  BY FrameSets, ConstantsOK
<1>2. \/ toRobot' = Append(toRobot, <<Query, 0>>)
      \/ UNCHANGED toRobot
  BY DEF Burst
<1>. QED  BY <1>1, <1>2, WireOther, WireUnchanged

\* A step of c's own caller.
LEMMA OwnStepOnce ==
  ASSUME TypeInv, NEW c \in Commands \ Idempotent, OnceOK(c), CallerStep(c)
  PROVE  OnceOK(c)'
<1>1. ASSUME NEW n \in {1, 2}, PreflightFails(c, n)
      PROVE  OnceOK(c)'
  <2>1. /\ pc[c] \in {"idle", "woken"}
        /\ Raise(c, n, "notConnected", FALSE)
        /\ UNCHANGED <<toRobot, orphans, runs>>
    BY <1>1 DEF PreflightFails, Entering, wireVars
  <2>2. "notConnected" \in Errors
    BY DEF Errors
  <2>3. Unsent(c)
    BY <2>1 DEF OnceOK
  <2>. QED  BY <2>1, <2>2, <2>3, RaiseOnce
<1>2. ASSUME NEW n \in {1, 2}, SendAtOnce(c, n)
      PROVE  OnceOK(c)'
  BY <1>2, TransmitOnce DEF SendAtOnce, Entering
<1>3. ASSUME NEW n \in {1, 2}, WaitForLock(c, n)
      PROVE  OnceOK(c)'
  BY <1>3, WireUnchanged
  DEF WaitForLock, Entering, wireVars, OnceOK, TypeInv, TypeOK, CallTypes
<1>4. ASSUME SendAfterLock(c)
      PROVE  OnceOK(c)'
  <2>1. attempt[c] \in {1, 2} /\ pc[c] = "acquire"
    BY <1>4 DEF SendAfterLock, TypeInv, CallOK
  <2>2. PICK held : Transmit(c, attempt[c], held)
    BY <1>4 DEF SendAfterLock
  <2>. QED  BY <2>1, <2>2, TransmitOnce
<1>5. ASSUME TakeFromQueue(c) \/ ReceiveDirectly(c)
      PROVE  OnceOK(c)'
  <2>1. PICK f : Answered(c, f)
    BY <1>5 DEF TakeFromQueue, ReceiveDirectly
  <2>2. /\ UNCHANGED <<toRobot, orphans, runs>>
        /\ pc'[c] = "done"
        /\ outcome'[c] = "answered"
    BY <2>1 DEF Answered, Settle, TypeInv, TypeOK, CallTypes
  <2>. QED  BY <2>2, WireUnchanged DEF OnceOK, Refusals
<1>6. ASSUME ResponseTimeout(c) \/ ConnectionLost(c)
      PROVE  OnceOK(c)'
  <2>1. PICK e \in {"timeout", "lost"} : GiveUp(c, e)
    BY <1>6 DEF ResponseTimeout, ConnectionLost
  <2>2. pc[c] \in Waiting
    BY <1>6 DEF ResponseTimeout, ConnectionLost, Waiting
  <2>3. attempt[c] \in {1, 2} /\ pc[c] # "done"
    BY <2>2 DEF TypeInv, CallOK, Waiting
  <2>4. Raise(c, attempt[c], e, TRUE) /\ UNCHANGED <<toRobot, orphans, runs>>
    BY <2>1 DEF GiveUp, wireVars
  <2>5. e \in Errors /\ e \notin Refusals
    BY DEF Errors, Refusals
  <2>. QED  BY <2>3, <2>4, <2>5, RaiseOnce
<1>7. ASSUME ConnectionBack(c)
      PROVE  OnceOK(c)'
  BY <1>7, WireUnchanged
  DEF ConnectionBack, wireVars, OnceOK, TypeInv, TypeOK, CallTypes
<1>8. ASSUME ReconnectTimeout(c)
      PROVE  OnceOK(c)'
  <2>1. /\ UNCHANGED <<toRobot, orphans, runs>>
        /\ pc'[c] = "done"
        /\ outcome'[c] = firstError[c]
        /\ firstError[c] # "open"
        /\ pc[c] = "reconnect"
    BY <1>8 DEF ReconnectTimeout, Settle, wireVars, TypeInv, TypeOK, CallTypes, Errors
  <2>. QED  BY <2>1, WireUnchanged DEF OnceOK
<1>9. ASSUME WakeBurst(c)
      PROVE  OnceOK(c)'
  <2>1. /\ Burst
        /\ UNCHANGED <<orphans, runs, outcome>>
        /\ pc[c] \in {"waking", "woken"}
        /\ pc'[c] = "woken"
    BY <1>9 DEF WakeBurst, TypeInv, TypeOK, CallTypes
  <2>. QED  BY <2>1, BurstOnce DEF OnceOK
<1>10. ASSUME WakeRefused(c)
       PROVE  OnceOK(c)'
  <2>1. /\ UNCHANGED <<toRobot, orphans, runs>>
        /\ pc'[c] = "done"
        /\ outcome'[c] = "notConnected"
        /\ Unsent(c)
    BY <1>10 DEF WakeRefused, Settle, wireVars, TypeInv, TypeOK, CallTypes, OnceOK
  <2>. QED  BY <2>1, WireUnchanged DEF OnceOK
<1>. QED
  BY <1>1, <1>2, <1>3, <1>4, <1>5, <1>6, <1>7, <1>8, <1>9, <1>10
  DEF CallerStep

\* A step of another call: it does not touch c, and its frame is not c's.
LEMMA OtherStepOnce ==
  ASSUME TypeInv, NEW c \in Commands \ Idempotent, OnceOK(c),
         NEW d \in Commands, d # c, CallerStep(d)
  PROVE  OnceOK(c)'
<1>1. /\ pc'[c] = pc[c] /\ outcome'[c] = outcome[c]
      /\ UNCHANGED <<orphans, runs>>
  BY DEF CallerStep, PreflightFails, SendAtOnce, WaitForLock, SendAfterLock,
         TakeFromQueue, ReceiveDirectly, ResponseTimeout, ConnectionLost,
         ConnectionBack, ReconnectTimeout, WakeRefused, WakeBurst, Transmit, Raise, Settle,
         Answered, GiveUp, wireVars, TypeInv, TypeOK, CallTypes
<1>2. \/ UNCHANGED toRobot
      \/ \E n \in {1, 2} : toRobot' = Append(toRobot, <<d, n>>)
      \/ Burst
  <2>1. pc[d] = "acquire" => attempt[d] \in {1, 2}
    BY DEF TypeInv, CallOK
  <2>. QED
    BY <2>1
    DEF CallerStep, PreflightFails, SendAtOnce, WaitForLock, SendAfterLock,
        TakeFromQueue, ReceiveDirectly, ResponseTimeout, ConnectionLost,
        ConnectionBack, ReconnectTimeout, WakeRefused, WakeBurst, Transmit, Answered,
        GiveUp, wireVars
<1>3. \A n \in {1, 2} : <<d, n>> \in Frames /\ <<d, n>>[1] # c
  BY DEF Frames
<1>4. (Unsent(c) => Unsent(c)') /\ OneFrame(c)'
  BY <1>1, <1>2, <1>3, WireUnchanged, WireOther, BurstOnce DEF OnceOK
<1>. QED  BY <1>1, <1>4 DEF OnceOK

LEMMA EnvironmentOnce ==
  ASSUME TypeInv, NEW c \in Commands \ Idempotent, OnceOK(c),
         LinkStep \/ RobotStep
  PROVE  OnceOK(c)'
<1>1. UNCHANGED <<pc, outcome>>
  BY DEF LinkStep, RobotStep, EnterReceiveLoop, ListenerDelivers, SocketDies,
         ListenerEnds, Reconnect, ReconnectBurst, KeepaliveBurst, Disconnect,
         Disconnected, RobotExecutes, RobotIgnores, RobotExecutesOrphan, callVars
<1>2. CASE SocketDies \/ Reconnect \/ Disconnect
  BY <1>1, <1>2, WireLost DEF SocketDies, Reconnect, Disconnect, OnceOK
<1>3. CASE ReconnectBurst \/ KeepaliveBurst
  BY <1>1, <1>3, BurstOnce DEF ReconnectBurst, KeepaliveBurst, OnceOK
<1>4. CASE RobotExecutes \/ RobotIgnores
  BY <1>1, <1>4, WireTaken DEF RobotExecutes, RobotIgnores, OnceOK
<1>5. CASE RobotExecutesOrphan
  BY <1>1, <1>5, WireOrphan DEF OnceOK
<1>6. CASE EnterReceiveLoop \/ ListenerDelivers \/ ListenerEnds \/ Disconnected
  BY <1>1, <1>6, WireUnchanged
  DEF EnterReceiveLoop, ListenerDelivers, ListenerEnds, Disconnected, wireVars,
      OnceOK
<1>. QED
  BY <1>2, <1>3, <1>4, <1>5, <1>6 DEF LinkStep, RobotStep

\* A command that is not idempotent has at most one frame in the world, and
\* none at all while it is still to be sent or after it was refused: the
\* strengthening of AtMostOnce and RefusedNeverRuns that is inductive.
THEOREM OnceInductive == Spec => []OnceInv
<1>1. Init => OnceInv
  <2> SUFFICES ASSUME Init, NEW c \in Commands \ Idempotent PROVE OnceOK(c)
    BY DEF OnceInv
  <2>1. DOMAIN toRobot = {} /\ orphans = {} /\ runs[c] = 0
    BY DEF Init
  <2>2. Unsent(c) /\ OneFrame(c)
    BY <2>1 DEF Unsent, OneFrame, OnWire
  <2>3. pc[c] = "idle" /\ outcome[c] = "open"
    BY DEF Init
  <2>. QED  BY <2>2, <2>3 DEF OnceOK
<1>2. TypeInv /\ OnceInv /\ [Next]_vars => OnceInv'
  <2> SUFFICES ASSUME TypeInv, OnceInv, [Next]_vars,
                      NEW c \in Commands \ Idempotent
               PROVE  OnceOK(c)'
    BY DEF OnceInv
  <2>1. OnceOK(c)
    BY DEF OnceInv
  <2>2. CASE UNCHANGED vars
    BY <2>1, <2>2, WireUnchanged DEF vars, callVars, wireVars, OnceOK
  <2>3. ASSUME NEW d \in Commands, CallerStep(d) PROVE OnceOK(c)'
    BY <2>1, <2>3, OwnStepOnce, OtherStepOnce
  <2>. QED  BY <2>1, <2>2, <2>3, EnvironmentOnce DEF Next
<1>. QED  BY <1>1, <1>2, TypeInductive, PTL DEF Spec

\* Whatever the socket does between the two attempts, the robot executes a
\* command outside IDEMPOTENT_COMMANDS at most once.
THEOREM AtMostOnceHolds == Spec => []AtMostOnce
<1>1. OnceInv => AtMostOnce
  BY DEF OnceInv, OnceOK, OneFrame, AtMostOnce
<1>. QED  BY <1>1, OnceInductive, PTL

\* A command that was refused has not been executed and never will be.
THEOREM RefusedNeverRunsHolds == Spec => []RefusedNeverRuns
<1>1. OnceInv => RefusedNeverRuns
  BY DEF OnceInv, OnceOK, Unsent, RefusedNeverRuns
<1>. QED  BY <1>1, OnceInductive, PTL
-----------------------------------------------------------------------------
(***************************************************************************)
(* The contract.  Attempt n of a call puts one frame, <<c, n>>, on the     *)
(* wire at most, and the robot acts on a frame at most once: so a call is  *)
(* executed at most as often as it was sent.                               *)
(***************************************************************************)

Out(f) == f \in orphans \/ \E i \in DOMAIN toRobot : toRobot[i] = f

Weight(f) == IF Out(f) THEN 1 ELSE 0

\* What the robot has executed of c and what it may still execute.
Load(c) == runs[c] + Weight(<<c, 1>>) + Weight(<<c, 2>>)

\* How many frames of c have been sent at most.
Sent(c) == IF pc[c] = "acquire" THEN attempt[c] - 1 ELSE attempt[c]

FramesApart(c) ==
  \A n \in {1, 2} :
    /\ \A i, j \in DOMAIN toRobot :
         toRobot[i] = <<c, n>> /\ toRobot[j] = <<c, n>> => i = j
    /\ \A i \in DOMAIN toRobot : toRobot[i] = <<c, n>> => <<c, n>> \notin orphans

TwiceOK(c) ==
  /\ pc[c] = "idle" => attempt[c] = 0
  /\ pc[c] \in {"reconnect", "waking", "woken"} => attempt[c] = 1
  /\ \A n \in {1, 2} : Out(<<c, n>>) => n <= Sent(c)
  /\ Load(c) <= Sent(c)
  /\ FramesApart(c)

TwiceInv == \A c \in Commands : TwiceOK(c)

\* What every step but a send of c does with the frames of c.
LoadKept(c) == /\ FramesApart(c)'
               /\ Load(c)' <= Load(c)
               /\ \A n \in {1, 2} : Out(<<c, n>>)' => Out(<<c, n>>)

LEMMA LoadNat ==
  ASSUME TypeInv, NEW c \in Commands
  PROVE  /\ runs[c] \in Nat /\ Load(c) \in Nat /\ runs[c] <= Load(c)
         /\ Load(c) = runs[c] => ~Out(<<c, 1>>) /\ ~Out(<<c, 2>>)
BY DEF Load, Weight, TypeInv, TypeOK, LinkTypes

LEMMA LoadUnchanged ==
  ASSUME TypeInv, NEW c \in Commands, FramesApart(c),
         UNCHANGED <<toRobot, orphans, runs>>
  PROVE  LoadKept(c)
<1>1. Load(c)' = Load(c) /\ \A n \in {1, 2} : Out(<<c, n>>)' = Out(<<c, n>>)
  BY DEF Load, Weight, Out
<1>. QED  BY <1>1, LoadNat DEF LoadKept, FramesApart

\* Out decides the weights, so the load cannot grow when no frame of c comes out.
LEMMA LoadFalls ==
  ASSUME TypeInv, NEW c \in Commands, runs'[c] = runs[c],
         \A n \in {1, 2} : Out(<<c, n>>)' => Out(<<c, n>>)
  PROVE  Load(c)' <= Load(c)
<1>1. /\ Weight(<<c, 1>>) \in {0, 1} /\ Weight(<<c, 2>>) \in {0, 1}
      /\ Weight(<<c, 1>>)' \in {0, 1} /\ Weight(<<c, 2>>)' \in {0, 1}
      /\ Weight(<<c, 1>>)' <= Weight(<<c, 1>>)
      /\ Weight(<<c, 2>>)' <= Weight(<<c, 2>>)
  BY DEF Weight
<1>2. runs[c] \in Nat
  BY LoadNat
<1>. QED  BY <1>1, <1>2 DEF Load

\* Somebody else's frame is sent.
LEMMA LoadOther ==
  ASSUME TypeInv, NEW c \in Commands, FramesApart(c), NEW f \in Frames, f[1] # c,
         toRobot' = Append(toRobot, f), UNCHANGED <<orphans, runs>>
  PROVE  LoadKept(c)
<1>1. toRobot \in Seq(Frames)
  BY DEF TypeInv, TypeOK, QueueTypes
<1>2. \A i \in DOMAIN toRobot' : /\ i \in DOMAIN toRobot => toRobot'[i] = toRobot[i]
                                 /\ i \notin DOMAIN toRobot => toRobot'[i] = f
  BY <1>1
<1>3. \A n \in {1, 2} : <<c, n>> # f
  OBVIOUS
<1>4. \A n \in {1, 2} : Out(<<c, n>>)' => Out(<<c, n>>)
  BY <1>2, <1>3 DEF Out
<1>5. FramesApart(c)'
  <2>1. \A n \in {1, 2} : \A i \in DOMAIN toRobot' :
          toRobot'[i] = <<c, n>> => i \in DOMAIN toRobot /\ toRobot[i] = <<c, n>>
    BY <1>2, <1>3
  <2> SUFFICES ASSUME NEW n \in {1, 2}
               PROVE  /\ \A i, j \in DOMAIN toRobot' :
                           toRobot'[i] = <<c, n>> /\ toRobot'[j] = <<c, n>> => i = j
                      /\ \A i \in DOMAIN toRobot' :
                           toRobot'[i] = <<c, n>> => <<c, n>> \notin orphans'
    BY DEF FramesApart
  <2>2. /\ \A i, j \in DOMAIN toRobot :
             toRobot[i] = <<c, n>> /\ toRobot[j] = <<c, n>> => i = j
        /\ \A i \in DOMAIN toRobot : toRobot[i] = <<c, n>> => <<c, n>> \notin orphans
    BY DEF FramesApart
  <2>. QED  BY <2>1, <2>2
<1>. QED  BY <1>4, <1>5, LoadFalls DEF LoadKept

\* A frame of c is sent that was not out.
LEMMA LoadSent ==
  ASSUME TypeInv, NEW c \in Commands, FramesApart(c), NEW n \in {1, 2},
         ~Out(<<c, n>>), toRobot' = Append(toRobot, <<c, n>>),
         UNCHANGED <<orphans, runs>>
  PROVE  /\ FramesApart(c)'
         /\ Load(c)' = Load(c) + 1
         /\ \A m \in {1, 2} : Out(<<c, m>>)' => m = n \/ Out(<<c, m>>)
<1>1. toRobot \in Seq(Frames) /\ <<c, n>> \in Frames
  BY DEF TypeInv, TypeOK, QueueTypes, Frames
<1>2. /\ DOMAIN toRobot' = 1 .. Len(toRobot) + 1 /\ DOMAIN toRobot = 1 .. Len(toRobot)
      /\ toRobot'[Len(toRobot) + 1] = <<c, n>>
      /\ Len(toRobot) \in Nat
      /\ \A i \in DOMAIN toRobot : i \in DOMAIN toRobot' /\ toRobot'[i] = toRobot[i]
      /\ \A i \in DOMAIN toRobot' : i # Len(toRobot) + 1 => i \in DOMAIN toRobot
  BY <1>1
<1>3. \A m \in {1, 2} : m # n => <<c, m>> # <<c, n>>
  OBVIOUS
<1>4. Out(<<c, n>>)' /\ \A m \in {1, 2} : m # n => Out(<<c, m>>)' = Out(<<c, m>>)
  <2>1. Len(toRobot) + 1 \in DOMAIN toRobot'
    BY <1>2
  <2>2. Out(<<c, n>>)'
    BY <1>2, <2>1 DEF Out
  <2>3. ASSUME NEW m \in {1, 2}, m # n PROVE Out(<<c, m>>)' = Out(<<c, m>>)
    BY <1>2, <1>3, <2>3 DEF Out
  <2>. QED  BY <2>2, <2>3
<1>5. FramesApart(c)'
  <2> SUFFICES ASSUME NEW m \in {1, 2}
               PROVE  /\ \A i, j \in DOMAIN toRobot' :
                           toRobot'[i] = <<c, m>> /\ toRobot'[j] = <<c, m>> => i = j
                      /\ \A i \in DOMAIN toRobot' :
                           toRobot'[i] = <<c, m>> => <<c, m>> \notin orphans'
    BY DEF FramesApart
  <2>1. CASE m = n
    BY <1>2, <2>1 DEF Out
  <2>2. CASE m # n
    <3>1. \A i \in DOMAIN toRobot' :
            toRobot'[i] = <<c, m>> => i \in DOMAIN toRobot /\ toRobot[i] = <<c, m>>
      BY <1>2, <1>3, <2>2
    <3>. QED  BY <3>1 DEF FramesApart
  <2>. QED  BY <2>1, <2>2
<1>6. Load(c)' = Load(c) + 1
  <2>1. Weight(<<c, n>>) = 0 /\ Weight(<<c, n>>)' = 1
    BY <1>4 DEF Weight
  <2>2. \A m \in {1, 2} : m # n => Weight(<<c, m>>)' = Weight(<<c, m>>)
    BY <1>4 DEF Weight
  <2>3. \A m \in {1, 2} : Weight(<<c, m>>) \in {0, 1}
    BY DEF Weight
  <2>4. runs[c] \in Nat /\ runs'[c] = runs[c]
    BY LoadNat
  <2>5. CASE n = 1
    BY <2>1, <2>2, <2>3, <2>4, <2>5 DEF Load
  <2>6. CASE n = 2
    BY <2>1, <2>2, <2>3, <2>4, <2>6 DEF Load
  <2>. QED  BY <2>5, <2>6
<1>. QED  BY <1>4, <1>5, <1>6

\* The connection is lost: frames in flight become orphans.
LEMMA LoadLost ==
  ASSUME TypeInv, NEW c \in Commands, FramesApart(c), Abandon(toRobot),
         toRobot' = <<>>, UNCHANGED runs
  PROVE  LoadKept(c)
<1>1. DOMAIN toRobot' = {}
  OBVIOUS
<1>2. \A f \in orphans' : f \in orphans \/ \E i \in DOMAIN toRobot : toRobot[i] = f
  BY DEF Abandon
<1>3. \A n \in {1, 2} : Out(<<c, n>>)' => Out(<<c, n>>)
  BY <1>1, <1>2 DEF Out
<1>4. FramesApart(c)'
  BY <1>1 DEF FramesApart
<1>. QED  BY <1>3, <1>4, LoadFalls DEF LoadKept

\* The robot takes the next frame off the wire, and may execute it.
LEMMA LoadTaken ==
  ASSUME TypeInv, NEW c \in Commands, FramesApart(c), toRobot # <<>>,
         toRobot' = Tail(toRobot), UNCHANGED orphans,
         runs' = runs \/ Execute(Head(toRobot)[1])
  PROVE  LoadKept(c)
<1>1. toRobot \in Seq(Frames) /\ runs \in [Commands -> Nat]
  BY DEF TypeInv, TypeOK, QueueTypes, LinkTypes
<1>2. /\ 1 \in DOMAIN toRobot /\ Head(toRobot) = toRobot[1] /\ toRobot[1] \in Frames
      /\ \A i \in DOMAIN toRobot' : /\ i + 1 \in DOMAIN toRobot
                                    /\ i + 1 # 1
                                    /\ toRobot'[i] = toRobot[i + 1]
      /\ \A i, j \in DOMAIN toRobot' : i + 1 = j + 1 => i = j
  BY <1>1
<1>3. FramesApart(c)'
  <2> SUFFICES ASSUME NEW n \in {1, 2}
               PROVE  /\ \A i, j \in DOMAIN toRobot' :
                           toRobot'[i] = <<c, n>> /\ toRobot'[j] = <<c, n>> => i = j
                      /\ \A i \in DOMAIN toRobot' :
                           toRobot'[i] = <<c, n>> => <<c, n>> \notin orphans'
    BY DEF FramesApart
  <2>1. /\ \A i, j \in DOMAIN toRobot :
             toRobot[i] = <<c, n>> /\ toRobot[j] = <<c, n>> => i = j
        /\ \A i \in DOMAIN toRobot : toRobot[i] = <<c, n>> => <<c, n>> \notin orphans
    BY DEF FramesApart
  <2>2. ASSUME NEW i \in DOMAIN toRobot', NEW j \in DOMAIN toRobot',
               toRobot'[i] = <<c, n>>, toRobot'[j] = <<c, n>>
        PROVE  i = j
    <3>1. /\ i + 1 \in DOMAIN toRobot /\ toRobot[i + 1] = <<c, n>>
          /\ j + 1 \in DOMAIN toRobot /\ toRobot[j + 1] = <<c, n>>
      BY <1>2, <2>2
    <3>2. i + 1 = j + 1
      BY <2>1, <3>1
    <3>. QED  BY <1>2, <3>2
  <2>3. \A i \in DOMAIN toRobot' : toRobot'[i] = <<c, n>> => <<c, n>> \notin orphans'
    BY <1>2, <2>1
  <2>. QED  BY <2>2, <2>3
<1>4. \A n \in {1, 2} : Out(<<c, n>>)' => Out(<<c, n>>)
  BY <1>2 DEF Out
<1>5. CASE runs'[c] = runs[c]
  BY <1>3, <1>4, <1>5, LoadFalls DEF LoadKept
<1>6. CASE toRobot[1][1] = c /\ runs'[c] = runs[c] + 1
  <2>1. PICK n \in {1, 2} : toRobot[1] = <<c, n>>
    BY <1>2, <1>6, ConstantsOK DEF Frames
  <2>2. Out(<<c, n>>)
    BY <1>2, <2>1 DEF Out
  <2>3. ~Out(<<c, n>>)'
    BY <1>2, <2>1 DEF Out, FramesApart
  <2>4. /\ Weight(<<c, n>>) = 1 /\ Weight(<<c, n>>)' = 0
        /\ \A m \in {1, 2} : /\ Weight(<<c, m>>) \in {0, 1} /\ Weight(<<c, m>>)' \in {0, 1}
                             /\ Weight(<<c, m>>)' <= Weight(<<c, m>>)
    BY <1>4, <2>2, <2>3 DEF Weight
  <2>5. runs[c] \in Nat
    BY <1>1
  <2>6. Load(c)' <= Load(c)
    <3>1. CASE n = 1
      BY <1>6, <2>4, <2>5, <3>1 DEF Load
    <3>2. CASE n = 2
      BY <1>6, <2>4, <2>5, <3>2 DEF Load
    <3>. QED  BY <3>1, <3>2
  <2>. QED  BY <1>3, <1>4, <2>6 DEF LoadKept
<1>. QED  BY <1>1, <1>2, <1>5, <1>6 DEF Execute

\* The robot executes a frame of a lost connection.
LEMMA LoadOrphan ==
  ASSUME TypeInv, NEW c \in Commands, FramesApart(c), RobotExecutesOrphan
  PROVE  LoadKept(c)
<1>1. PICK f \in orphans : /\ Execute(f[1])
                           /\ orphans' = orphans \ {f}
                           /\ UNCHANGED toRobot
  BY DEF RobotExecutesOrphan
<1>2. runs \in [Commands -> Nat] /\ f \in Commands \X {1, 2}
  BY DEF TypeInv, TypeOK, LinkTypes
<1>3. runs'[c] = IF f[1] = c THEN runs[c] + 1 ELSE runs[c]
  BY <1>1, <1>2 DEF Execute
<1>4. FramesApart(c)' /\ \A n \in {1, 2} : Out(<<c, n>>)' => Out(<<c, n>>)
  BY <1>1 DEF FramesApart, Out
<1>5. CASE f[1] # c
  BY <1>3, <1>4, <1>5, LoadFalls DEF LoadKept
<1>6. CASE f[1] = c
  <2>1. PICK n \in {1, 2} : f = <<c, n>>
    BY <1>2, <1>6
  <2>2. Out(<<c, n>>) /\ ~Out(<<c, n>>)'
    BY <1>1, <2>1 DEF Out, FramesApart
  <2>3. /\ Weight(<<c, n>>) = 1 /\ Weight(<<c, n>>)' = 0
        /\ \A m \in {1, 2} : /\ Weight(<<c, m>>) \in {0, 1} /\ Weight(<<c, m>>)' \in {0, 1}
                             /\ Weight(<<c, m>>)' <= Weight(<<c, m>>)
    BY <1>4, <2>2 DEF Weight
  <2>4. runs[c] \in Nat /\ runs'[c] = runs[c] + 1
    BY <1>2, <1>3, <1>6
  <2>5. Load(c)' <= Load(c)
    <3>1. CASE n = 1
      BY <2>3, <2>4, <3>1 DEF Load
    <3>2. CASE n = 2
      BY <2>3, <2>4, <3>2 DEF Load
    <3>. QED  BY <3>1, <3>2
  <2>. QED  BY <1>4, <2>5 DEF LoadKept
<1>. QED  BY <1>5, <1>6

LEMMA LoadBurst ==
  ASSUME TypeInv, NEW c \in Commands, FramesApart(c), Burst,
         UNCHANGED <<orphans, runs>>
  PROVE  LoadKept(c)
<1>1. <<Query, 0>> \in Frames /\ <<Query, 0>>[1] # c
  BY FrameSets, ConstantsOK
<1>2. toRobot' = Append(toRobot, <<Query, 0>>) \/ UNCHANGED toRobot
  BY DEF Burst
<1>. QED  BY <1>1, <1>2, LoadOther, LoadUnchanged

\* A step of c's own caller: attempt n goes out in a state in which n - 1 frames
\* at most have been sent.
LEMMA TransmitTwice ==
  ASSUME TypeInv, NEW c \in Commands, TwiceOK(c), NEW n \in {1, 2}, NEW held,
         Transmit(c, n, held),
         \/ pc[c] = "idle" /\ n = 1
         \/ pc[c] = "woken" /\ n = 2
         \/ pc[c] = "acquire" /\ n = attempt[c]
  PROVE  TwiceOK(c)'
<1>1. Sent(c) = n - 1 /\ FramesApart(c) /\ UNCHANGED <<orphans, runs>>
  BY DEF TwiceOK, Sent, Transmit
<1>2. attempt'[c] = n
  BY DEF Transmit, Raise, TypeInv, TypeOK, CallTypes
<1>3. CASE socket = "open"
  <2>1. /\ toRobot' = Append(toRobot, <<c, n>>)
        /\ pc'[c] \in Waiting
    BY <1>3 DEF Transmit, Waiting, TypeInv, TypeOK, CallTypes
  <2>2. ~Out(<<c, n>>)
    BY <1>1 DEF TwiceOK
  <2>3. /\ FramesApart(c)'
        /\ Load(c)' = Load(c) + 1
        /\ \A m \in {1, 2} : Out(<<c, m>>)' => m = n \/ Out(<<c, m>>)
    BY <1>1, <2>1, <2>2, LoadSent
  <2>4. Sent(c)' = n
    BY <1>2, <2>1 DEF Sent, Waiting
  <2>5. Load(c)' <= n
    BY <1>1, <2>3, LoadNat DEF TwiceOK
  <2>6. \A m \in {1, 2} : Out(<<c, m>>)' => m <= n
    BY <1>1, <2>3 DEF TwiceOK
  <2>. QED  BY <2>1, <2>3, <2>4, <2>5, <2>6 DEF TwiceOK, Waiting
<1>4. CASE socket # "open"
  <2>1. /\ UNCHANGED toRobot
        /\ pc'[c] \in {"reconnect", "done"}
        /\ pc'[c] = "reconnect" => n = 1
    BY <1>4 DEF Transmit, Raise, Settle, TypeInv, TypeOK, CallTypes
  <2>2. LoadKept(c)
    BY <1>1, <2>1, LoadUnchanged
  <2>3. Sent(c)' = n
    BY <1>2, <2>1 DEF Sent
  <2>4. Load(c)' <= n /\ \A m \in {1, 2} : Out(<<c, m>>)' => m <= n
    <3>1. Load(c)' \in Nat /\ Load(c) \in Nat
      BY <1>1, <2>1, LoadNat DEF Load, Weight, Out, TypeInv, TypeOK, LinkTypes
    <3>. QED  BY <1>1, <2>2, <3>1 DEF TwiceOK, LoadKept
  <2>. QED  BY <1>2, <2>1, <2>2, <2>3, <2>4 DEF TwiceOK, LoadKept
<1>. QED  BY <1>3, <1>4

\* Any other step: the load falls or stays and the attempts do not fall.
LEMMA KeptTwice ==
  ASSUME TypeInv, TypeInv', NEW c \in Commands, TwiceOK(c), LoadKept(c),
         Sent(c) <= Sent(c)',
         pc'[c] = "idle" => attempt'[c] = 0,
         pc'[c] \in {"reconnect", "waking", "woken"} => attempt'[c] = 1
  PROVE  TwiceOK(c)'
<1>1. Sent(c) \in Nat /\ Sent(c)' \in Nat
  BY DEF Sent, TypeInv, TypeOK, CallTypes, CallOK
<1>2. Load(c) \in Nat /\ Load(c)' \in Nat
  <2>1. Load(c) \in Nat
    BY LoadNat
  <2>2. runs'[c] \in Nat
    BY DEF TypeInv, TypeOK, LinkTypes
  <2>3. Load(c)' \in Nat
    BY <2>2 DEF Load, Weight
  <2>. QED  BY <2>1, <2>3
<1>. QED  BY <1>1, <1>2 DEF TwiceOK, LoadKept

LEMMA CallerTwice ==
  ASSUME TypeInv, TypeInv', NEW c \in Commands, TwiceOK(c), CallerStep(c)
  PROVE  TwiceOK(c)'
<1> FramesApart(c)
  BY DEF TwiceOK
<1>0. /\ attempt \in [Commands -> {0, 1, 2}]
      /\ DOMAIN pc = Commands
  BY DEF TypeInv, TypeOK, CallTypes
<1>1. ASSUME NEW n \in {1, 2}, PreflightFails(c, n)
      PROVE  TwiceOK(c)'
  <2>1. LoadKept(c)
    BY <1>1, LoadUnchanged DEF PreflightFails, wireVars
  <2>2. pc[c] \in {"idle", "woken"} /\ attempt[c] = n - 1
    BY <1>1 DEF PreflightFails, Entering, TwiceOK
  <2>3. Raise(c, n, "notConnected", FALSE)
    BY <1>1 DEF PreflightFails
  <2>4. /\ attempt'[c] = n
        /\ pc'[c] \in {"reconnect", "done"}
        /\ pc'[c] = "reconnect" => n = 1
    BY <1>0, <2>3 DEF Raise, Settle
  <2>5. Sent(c) <= Sent(c)'
    BY <2>2, <2>4 DEF Sent
  <2>. QED  BY <2>1, <2>4, <2>5, KeptTwice
<1>2. ASSUME NEW n \in {1, 2}, SendAtOnce(c, n)
      PROVE  TwiceOK(c)'
  BY <1>2, TransmitTwice DEF SendAtOnce, Entering
<1>3. ASSUME NEW n \in {1, 2}, WaitForLock(c, n)
      PROVE  TwiceOK(c)'
  <2>1. LoadKept(c)
    BY <1>3, LoadUnchanged DEF WaitForLock, wireVars
  <2>2. /\ pc[c] \in {"idle", "woken"} /\ attempt[c] = n - 1
        /\ attempt'[c] = n /\ pc'[c] = "acquire"
    BY <1>0, <1>3 DEF WaitForLock, Entering, TwiceOK
  <2>3. Sent(c) <= Sent(c)'
    BY <2>2 DEF Sent
  <2>. QED  BY <2>1, <2>2, <2>3, KeptTwice
<1>4. ASSUME SendAfterLock(c)
      PROVE  TwiceOK(c)'
  <2>1. attempt[c] \in {1, 2} /\ pc[c] = "acquire"
    BY <1>4 DEF SendAfterLock, TypeInv, CallOK
  <2>2. PICK held : Transmit(c, attempt[c], held)
    BY <1>4 DEF SendAfterLock
  <2>. QED  BY <2>1, <2>2, TransmitTwice
<1>5. ASSUME TakeFromQueue(c) \/ ReceiveDirectly(c)
      PROVE  TwiceOK(c)'
  <2>1. PICK f : Answered(c, f)
    BY <1>5 DEF TakeFromQueue, ReceiveDirectly
  <2>2. /\ UNCHANGED <<toRobot, orphans, runs, attempt>>
        /\ pc'[c] = "done" /\ pc[c] \in Waiting
    BY <1>0, <1>5, <2>1 DEF Answered, Settle, TakeFromQueue, ReceiveDirectly, Waiting
  <2>3. Sent(c) <= Sent(c)'
    BY <1>0, <2>2 DEF Sent, Waiting
  <2>. QED  BY <2>2, <2>3, LoadUnchanged, KeptTwice
<1>6. ASSUME ResponseTimeout(c) \/ ConnectionLost(c)
      PROVE  TwiceOK(c)'
  <2>1. PICK e \in {"timeout", "lost"} : GiveUp(c, e)
    BY <1>6 DEF ResponseTimeout, ConnectionLost
  <2>2. /\ UNCHANGED <<toRobot, orphans, runs>> /\ pc[c] \in Waiting
        /\ attempt'[c] = attempt[c]
        /\ pc'[c] \in {"reconnect", "done"}
        /\ pc'[c] = "reconnect" => attempt[c] = 1
    BY <1>0, <1>6, <2>1 DEF ResponseTimeout, ConnectionLost, GiveUp, Raise, Settle,
                            wireVars, Waiting
  <2>3. Sent(c) <= Sent(c)'
    BY <1>0, <2>2 DEF Sent, Waiting
  <2>4. LoadKept(c)
    BY <2>2, LoadUnchanged
  <2>. QED  BY <2>2, <2>3, <2>4, KeptTwice
<1>7. ASSUME ConnectionBack(c) \/ ReconnectTimeout(c) \/ WakeRefused(c)
      PROVE  TwiceOK(c)'
  <2>1. /\ UNCHANGED <<toRobot, orphans, runs, attempt>>
        /\ pc[c] \in {"reconnect", "waking"} /\ pc'[c] \in {"waking", "done"}
    BY <1>0, <1>7 DEF ConnectionBack, ReconnectTimeout, WakeRefused, Settle, wireVars
  <2>2. Sent(c) <= Sent(c)' /\ (pc'[c] = "waking" => attempt'[c] = 1)
    BY <1>0, <2>1 DEF Sent, TwiceOK
  <2>. QED  BY <2>1, <2>2, LoadUnchanged, KeptTwice
<1>8. ASSUME WakeBurst(c)
      PROVE  TwiceOK(c)'
  <2>1. /\ Burst /\ UNCHANGED <<orphans, runs, attempt>>
        /\ pc[c] \in {"waking", "woken"} /\ pc'[c] = "woken"
    BY <1>0, <1>8 DEF WakeBurst
  <2>2. Sent(c) <= Sent(c)' /\ attempt'[c] = 1
    BY <1>0, <2>1 DEF Sent, TwiceOK
  <2>. QED  BY <2>1, <2>2, LoadBurst, KeptTwice
<1>. QED
  BY <1>1, <1>2, <1>3, <1>4, <1>5, <1>6, <1>7, <1>8 DEF CallerStep

\* The step of one call changes nothing of another one, and executes nothing.
LEMMA StepIsOwn ==
  ASSUME TypeInv, NEW d \in Commands, CallerStep(d)
  PROVE  /\ UNCHANGED <<orphans, runs>>
         /\ \A c \in Commands \ {d} :
              /\ pc'[c] = pc[c] /\ attempt'[c] = attempt[c]
              /\ firstError'[c] = firstError[c]
              /\ outcome'[c] = outcome[c] /\ answer'[c] = answer[c]
<1> USE DEF TypeInv, TypeOK, CallTypes, wireVars
<1>1. ASSUME NEW n, NEW e, NEW s, Raise(d, n, e, s)
      PROVE  \A c \in Commands \ {d} :
              /\ pc'[c] = pc[c] /\ attempt'[c] = attempt[c]
              /\ firstError'[c] = firstError[c]
              /\ outcome'[c] = outcome[c] /\ answer'[c] = answer[c]
  BY <1>1 DEF Raise, Settle
<1>2. ASSUME NEW n, NEW held, Transmit(d, n, held)
      PROVE  /\ UNCHANGED <<orphans, runs>>
             /\ \A c \in Commands \ {d} :
                  /\ pc'[c] = pc[c] /\ attempt'[c] = attempt[c]
                  /\ firstError'[c] = firstError[c]
                  /\ outcome'[c] = outcome[c] /\ answer'[c] = answer[c]
  BY <1>1, <1>2 DEF Transmit, Settle
<1>3. CASE \E n \in {1, 2} : PreflightFails(d, n)
  BY <1>1, <1>3 DEF PreflightFails
<1>4. CASE \/ \E n \in {1, 2} : SendAtOnce(d, n)
           \/ SendAfterLock(d)
  BY <1>2, <1>4 DEF SendAtOnce, SendAfterLock
<1>5. CASE \E n \in {1, 2} : WaitForLock(d, n)
  BY <1>5 DEF WaitForLock
<1>6. CASE TakeFromQueue(d) \/ ReceiveDirectly(d)
  BY <1>6 DEF TakeFromQueue, ReceiveDirectly, Answered, Settle
<1>7. CASE ResponseTimeout(d) \/ ConnectionLost(d)
  BY <1>1, <1>7 DEF ResponseTimeout, ConnectionLost, GiveUp
<1>8. CASE ConnectionBack(d) \/ ReconnectTimeout(d) \/ WakeRefused(d) \/ WakeBurst(d)
  BY <1>8 DEF ConnectionBack, ReconnectTimeout, WakeRefused, WakeBurst, Settle
<1>. QED
  BY <1>3, <1>4, <1>5, <1>6, <1>7, <1>8 DEF CallerStep

\* Everybody else leaves the call alone.
LEMMA OthersTwice ==
  ASSUME TypeInv, TypeInv', NEW c \in Commands, TwiceOK(c), LoadKept(c),
         pc'[c] = pc[c], attempt'[c] = attempt[c]
  PROVE  TwiceOK(c)'
<1>1. Sent(c)' = Sent(c) /\ Sent(c) \in Nat
  BY DEF Sent, TypeInv, TypeOK, CallTypes, CallOK
<1>. QED  BY <1>1, KeptTwice DEF TwiceOK

LEMMA OtherCallerTwice ==
  ASSUME TypeInv, TypeInv', NEW c \in Commands, TwiceOK(c),
         NEW d \in Commands, d # c, CallerStep(d)
  PROVE  TwiceOK(c)'
<1> FramesApart(c)
  BY DEF TwiceOK
<1>1. /\ pc'[c] = pc[c] /\ attempt'[c] = attempt[c]
      /\ UNCHANGED <<orphans, runs>>
  BY StepIsOwn
<1>2. \/ UNCHANGED toRobot
      \/ \E n \in {1, 2} : toRobot' = Append(toRobot, <<d, n>>)
      \/ Burst
  <2>1. pc[d] = "acquire" => attempt[d] \in {1, 2}
    BY DEF TypeInv, CallOK
  <2>. QED
    BY <2>1
    DEF CallerStep, PreflightFails, SendAtOnce, WaitForLock, SendAfterLock,
        TakeFromQueue, ReceiveDirectly, ResponseTimeout, ConnectionLost,
        ConnectionBack, ReconnectTimeout, WakeRefused, WakeBurst, Transmit, Answered,
        GiveUp, wireVars
<1>3. \A n \in {1, 2} : <<d, n>> \in Frames /\ <<d, n>>[1] # c
  BY DEF Frames
<1>4. LoadKept(c)
  BY <1>1, <1>2, <1>3, LoadUnchanged, LoadOther, LoadBurst
<1>. QED  BY <1>1, <1>4, OthersTwice

LEMMA EnvironmentTwice ==
  ASSUME TypeInv, TypeInv', NEW c \in Commands, TwiceOK(c), LinkStep \/ RobotStep
  PROVE  TwiceOK(c)'
<1> FramesApart(c)
  BY DEF TwiceOK
<1>1. UNCHANGED <<pc, attempt>>
  BY DEF LinkStep, RobotStep, EnterReceiveLoop, ListenerDelivers, SocketDies,
         ListenerEnds, Reconnect, ReconnectBurst, KeepaliveBurst, Disconnect,
         Disconnected, RobotExecutes, RobotIgnores, RobotExecutesOrphan, callVars
<1>2. LoadKept(c)
  <2>1. CASE SocketDies \/ Reconnect \/ Disconnect
    BY <2>1, LoadLost DEF SocketDies, Reconnect, Disconnect
  <2>2. CASE ReconnectBurst \/ KeepaliveBurst
    BY <2>2, LoadBurst DEF ReconnectBurst, KeepaliveBurst
  <2>3. CASE RobotExecutes \/ RobotIgnores
    BY <2>3, LoadTaken DEF RobotExecutes, RobotIgnores
  <2>4. CASE RobotExecutesOrphan
    BY <2>4, LoadOrphan
  <2>5. CASE EnterReceiveLoop \/ ListenerDelivers \/ ListenerEnds \/ Disconnected
    BY <2>5, LoadUnchanged
    DEF EnterReceiveLoop, ListenerDelivers, ListenerEnds, Disconnected, wireVars
  <2>. QED
    BY <2>1, <2>2, <2>3, <2>4, <2>5 DEF LinkStep, RobotStep
<1>. QED  BY <1>1, <1>2, OthersTwice

\* A call is executed at most as often as it has been sent, which is twice at most.
THEOREM TwiceInductive == Spec => []TwiceInv
<1>1. Init => TwiceInv
  <2> SUFFICES ASSUME Init, NEW c \in Commands PROVE TwiceOK(c)
    BY DEF TwiceInv
  <2>1. /\ DOMAIN toRobot = {} /\ orphans = {} /\ runs[c] = 0
        /\ pc[c] = "idle" /\ attempt[c] = 0
    BY DEF Init
  <2>. QED  BY <2>1 DEF TwiceOK, FramesApart, Load, Weight, Out, Sent
<1>2. TypeInv /\ TypeInv' /\ TwiceInv /\ [Next]_vars => TwiceInv'
  <2> SUFFICES ASSUME TypeInv, TypeInv', TwiceInv, [Next]_vars, NEW c \in Commands
               PROVE  TwiceOK(c)'
    BY DEF TwiceInv
  <2>1. TwiceOK(c)
    BY DEF TwiceInv
  <2>2. CASE UNCHANGED vars
    <3>1. UNCHANGED <<toRobot, orphans, runs, pc, attempt>>
      BY <2>2 DEF vars, callVars, wireVars
    <3>. QED  BY <2>1, <3>1, LoadUnchanged, OthersTwice DEF TwiceOK
  <2>3. ASSUME NEW d \in Commands, CallerStep(d) PROVE TwiceOK(c)'
    BY <2>1, <2>3, CallerTwice, OtherCallerTwice
  <2>. QED  BY <2>1, <2>2, <2>3, EnvironmentTwice DEF Next
<1>. QED  BY <1>1, <1>2, TypeInductive, PTL DEF Spec
-----------------------------------------------------------------------------
(***************************************************************************)
(* The refinement: what a step means to the contract.                      *)
(***************************************************************************)

\* A call has a result when, and only when, it has come back.
OpenOK == \A c \in Commands : outcome[c] = "open" <=> pc[c] # "done"

LEMMA CallerOpen ==
  ASSUME TypeInv, NEW c \in Commands, CallerStep(c), outcome[c] = "open"
  PROVE  outcome'[c] = "open" <=> pc'[c] # "done"
<1> USE DEF TypeInv, TypeOK, CallTypes
<1>1. ASSUME NEW n, NEW e \in Errors, NEW s, Raise(c, n, e, s)
      PROVE  outcome'[c] = "open" <=> pc'[c] # "done"
  BY <1>1 DEF Raise, Settle, Errors
<1>2. ASSUME NEW n, NEW held, Transmit(c, n, held)
      PROVE  outcome'[c] = "open" <=> pc'[c] # "done"
  <2>1. CASE socket = "open"
    BY <1>2, <2>1 DEF Transmit
  <2>2. CASE socket = "dead"
    BY <1>1, <1>2, <2>2 DEF Transmit, Errors
  <2>3. CASE socket = "none"
    BY <1>2, <2>3 DEF Transmit, Settle
  <2>. QED  BY <2>1, <2>2, <2>3 DEF LinkTypes
<1>3. CASE \E n \in {1, 2} : PreflightFails(c, n)
  BY <1>1, <1>3 DEF PreflightFails, Errors
<1>4. CASE \/ \E n \in {1, 2} : SendAtOnce(c, n)
           \/ SendAfterLock(c)
  BY <1>2, <1>4 DEF SendAtOnce, SendAfterLock
<1>5. CASE \/ \E n \in {1, 2} : WaitForLock(c, n)
           \/ ConnectionBack(c) \/ WakeBurst(c)
  BY <1>5 DEF WaitForLock, ConnectionBack, WakeBurst
<1>6. CASE TakeFromQueue(c) \/ ReceiveDirectly(c)
  BY <1>6 DEF TakeFromQueue, ReceiveDirectly, Answered, Settle
<1>7. CASE ResponseTimeout(c) \/ ConnectionLost(c)
  BY <1>1, <1>7 DEF ResponseTimeout, ConnectionLost, GiveUp, Errors
<1>8. CASE ReconnectTimeout(c)
  BY <1>8 DEF ReconnectTimeout, Settle, CallOK, Errors
<1>9. CASE WakeRefused(c)
  BY <1>9 DEF WakeRefused, Settle
<1>. QED
  BY <1>3, <1>4, <1>5, <1>6, <1>7, <1>8, <1>9 DEF CallerStep

\* No step is left to a call that has come back.
LEMMA DoneIsOver ==
  ASSUME NEW c \in Commands, CallerStep(c)
  PROVE  pc[c] # "done"
BY DEF CallerStep, PreflightFails, SendAtOnce, WaitForLock, Entering, SendAfterLock,
       TakeFromQueue, ReceiveDirectly, ResponseTimeout, ConnectionLost,
       ConnectionBack, ReconnectTimeout, WakeRefused, WakeBurst

\* A call has an outcome as soon as it has come back, and none before: send_command
\* returns or raises once.
THEOREM OpenInductive == Spec => []OpenOK
<1>1. Init => OpenOK
  BY DEF Init, OpenOK
<1>2. TypeInv /\ OpenOK /\ [Next]_vars => OpenOK'
  <2> SUFFICES ASSUME TypeInv, OpenOK, [Next]_vars PROVE OpenOK'
    OBVIOUS
  <2>1. ASSUME NEW d \in Commands, CallerStep(d) PROVE OpenOK'
    BY <2>1, CallerOpen, DoneIsOver, StepIsOwn DEF OpenOK
  <2>2. CASE LinkStep \/ RobotStep \/ UNCHANGED vars
    <3>1. UNCHANGED <<pc, outcome>>
      BY <2>2
      DEF LinkStep, RobotStep, EnterReceiveLoop, ListenerDelivers, SocketDies,
          ListenerEnds, Reconnect, ReconnectBurst, KeepaliveBurst, Disconnect,
          Disconnected, RobotExecutes, RobotIgnores, RobotExecutesOrphan, vars, callVars
    <3>. QED  BY <3>1 DEF OpenOK
  <2>. QED  BY <2>1, <2>2 DEF Next
<1>. QED  BY <1>1, <1>2, TypeInductive, PTL DEF Spec

\* A call whose state changes comes back, once, with a result of the contract.
LEMMA CallerFinishes ==
  ASSUME TypeInv, OpenOK, OnceInv', NEW c \in Commands, CallerStep(c)
  PROVE  \/ UNCHANGED <<outcome, runs>>
         \/ \E r \in Contract!Refused \cup Contract!Undecided : Contract!Finish(c, r)
<1>1. UNCHANGED runs
  BY StepIsOwn DEF CallerStep, PreflightFails, SendAtOnce, WaitForLock, SendAfterLock,
         TakeFromQueue, ReceiveDirectly, ResponseTimeout, ConnectionLost,
         ConnectionBack, ReconnectTimeout, WakeRefused, WakeBurst
<1>2. outcome \in [Commands -> Errors \cup {"open", "answered", "crashed"}]
  BY DEF TypeInv, TypeOK, CallTypes
<1>3. Errors \cup {"answered", "crashed"} = Contract!Refused \cup Contract!Undecided
  BY DEF Errors, Contract!Refused, Contract!Undecided
<1>4. ASSUME NEW n, NEW e \in Errors, NEW s, Raise(c, n, e, s)
      PROVE  \/ UNCHANGED outcome
             \/ \E r \in Errors \cup {"answered", "crashed"} :
                  outcome' = [outcome EXCEPT ![c] = r]
  BY <1>4 DEF Raise, Settle
<1>5. ASSUME NEW n, NEW held, Transmit(c, n, held)
      PROVE  \/ UNCHANGED outcome
             \/ \E r \in Errors \cup {"answered", "crashed"} :
                  outcome' = [outcome EXCEPT ![c] = r]
  BY <1>4, <1>5 DEF Transmit, Settle, Errors
<1>6. \/ UNCHANGED outcome
      \/ \E r \in Errors \cup {"answered", "crashed"} :
           outcome' = [outcome EXCEPT ![c] = r]
  <2>1. CASE \E n \in {1, 2} : PreflightFails(c, n)
    BY <1>4, <2>1 DEF PreflightFails, Errors
  <2>2. CASE \/ \E n \in {1, 2} : SendAtOnce(c, n)
             \/ SendAfterLock(c)
    BY <1>5, <2>2 DEF SendAtOnce, SendAfterLock
  <2>3. CASE \E n \in {1, 2} : WaitForLock(c, n)
    BY <2>3 DEF WaitForLock
  <2>4. CASE TakeFromQueue(c) \/ ReceiveDirectly(c)
    BY <2>4 DEF TakeFromQueue, ReceiveDirectly, Answered, Settle
  <2>5. CASE ResponseTimeout(c) \/ ConnectionLost(c)
    BY <1>4, <2>5 DEF ResponseTimeout, ConnectionLost, GiveUp, Errors
  <2>6. CASE ReconnectTimeout(c)
    <3>1. firstError[c] \in Errors
      BY <2>6 DEF ReconnectTimeout, TypeInv, CallOK
    <3>. QED  BY <2>6, <3>1 DEF ReconnectTimeout, Settle
  <2>7. CASE ConnectionBack(c) \/ WakeRefused(c) \/ WakeBurst(c)
    BY <2>7 DEF ConnectionBack, WakeRefused, WakeBurst, Settle, Errors
  <2>. QED
    BY <2>1, <2>2, <2>3, <2>4, <2>5, <2>6, <2>7 DEF CallerStep
<1>7. CASE \E r \in Errors \cup {"answered", "crashed"} :
             outcome' = [outcome EXCEPT ![c] = r]
  <2>1. PICK r \in Errors \cup {"answered", "crashed"} :
             outcome' = [outcome EXCEPT ![c] = r]
    BY <1>7
  <2>2. outcome'[c] = r
    BY <1>2, <2>1
  <2>3. CASE outcome[c] = "open"
    <3>1. c \in Commands \ Idempotent /\ r \in Contract!Refused => runs[c] = 0
      <4> SUFFICES ASSUME c \in Commands \ Idempotent, r \in Contract!Refused
                   PROVE  runs[c] = 0
        OBVIOUS
      <4>1. Unsent(c)'
        BY <2>2 DEF OnceInv, OnceOK, Contract!Refused, Refusals
      <4>. QED  BY <1>1, <4>1 DEF Unsent
    <3>. QED  BY <1>1, <1>3, <2>1, <2>3, <3>1 DEF Contract!Finish
  <2>. QED  BY <2>3, DoneIsOver DEF OpenOK
<1>. QED  BY <1>1, <1>6, <1>7

\* The robot acts on a frame of a command that may be executed once more, and on
\* the frame of a wake burst.
LEMMA RobotRuns ==
  ASSUME TypeInv, OnceInv, TwiceInv, NEW f \in Frames, Execute(f[1]),
         f = <<Query, 0>> \/ Out(f), UNCHANGED outcome
  PROVE  \/ UNCHANGED <<outcome, runs>>
         \/ \E c \in Commands : Contract!Run(c)
<1>1. runs \in [Commands -> Nat]
  BY DEF TypeInv, TypeOK, LinkTypes
<1>2. CASE f = <<Query, 0>>
  <2>1. runs' = runs
    BY <1>1, <1>2, ConstantsOK DEF Execute
  <2>. QED  BY <2>1
<1>3. CASE f # <<Query, 0>>
  <2>1. PICK c \in Commands, n \in {1, 2} : f = <<c, n>>
    BY <1>3, FrameSets
  <2>2. Out(<<c, n>>)
    BY <1>3, <2>1
  <2>3. runs' = [runs EXCEPT ![c] = @ + 1]
    BY <1>1, <2>1 DEF Execute
  <2>4. runs[c] + 1 <= Sent(c) /\ Sent(c) <= 2
    <3>1. Weight(<<c, n>>) = 1 /\ \A m \in {1, 2} : Weight(<<c, m>>) \in {0, 1}
      BY <2>2 DEF Weight
    <3>2. Load(c) <= Sent(c)
      BY DEF TwiceInv, TwiceOK
    <3>3. runs[c] \in Nat /\ Sent(c) \in Nat /\ Sent(c) <= 2
      BY <1>1 DEF Sent, TypeInv, TypeOK, CallTypes, CallOK
    <3>4. Load(c) >= runs[c] + 1
      <4>1. CASE n = 1
        BY <3>1, <3>3, <4>1 DEF Load
      <4>2. CASE n = 2
        BY <3>1, <3>3, <4>2 DEF Load
      <4>. QED  BY <4>1, <4>2
    <3>5. Load(c) \in Nat
      BY LoadNat
    <3>. QED  BY <3>2, <3>3, <3>4, <3>5
  <2>5. OnWire(c)
    BY <2>2 DEF Out, OnWire
  <2>6. ASSUME c \in Commands \ Idempotent
        PROVE  runs[c] < 1 /\ outcome[c] \notin Contract!Refused
    <3>1. OnceOK(c)
      BY <2>6 DEF OnceInv
    <3>2. runs[c] \in Nat /\ runs[c] <= 1 /\ runs[c] # 1
      BY <1>1, <2>5, <3>1 DEF OnceOK, OneFrame
    <3>3. outcome[c] \notin Refusals
      BY <2>5, <3>1 DEF OnceOK, Unsent
    <3>. QED  BY <3>2, <3>3 DEF Refusals, Contract!Refused
  <2>7. runs[c] < Contract!Limit(c)
    <3>1. runs[c] < 2
      BY <1>1, <2>4 DEF Sent, TypeInv, TypeOK, CallTypes, CallOK
    <3>. QED  BY <2>6, <3>1 DEF Contract!Limit
  <2>. QED  BY <2>3, <2>6, <2>7 DEF Contract!Run
<1>. QED  BY <1>2, <1>3

\* The link does not show; the robot executes, or nothing happens.
LEMMA EnvironmentRuns ==
  ASSUME TypeInv, OnceInv, TwiceInv, LinkStep \/ RobotStep
  PROVE  \/ UNCHANGED <<outcome, runs>>
         \/ \E c \in Commands : Contract!Run(c)
<1>1. CASE LinkStep \/ RobotIgnores
  BY <1>1
  DEF LinkStep, EnterReceiveLoop, ListenerDelivers, SocketDies, ListenerEnds,
      Reconnect, ReconnectBurst, KeepaliveBurst, Disconnect, Disconnected,
      RobotIgnores, callVars
<1>2. CASE RobotExecutes
  <2>1. toRobot \in Seq(Frames) /\ toRobot # <<>>
    BY <1>2 DEF RobotExecutes, TypeInv, TypeOK, QueueTypes
  <2>2. Head(toRobot) \in Frames /\ 1 \in DOMAIN toRobot /\ toRobot[1] = Head(toRobot)
    BY <2>1
  <2>3. Out(Head(toRobot))
    BY <2>2 DEF Out
  <2>4. Execute(Head(toRobot)[1]) /\ UNCHANGED outcome
    BY <1>2 DEF RobotExecutes, callVars
  <2>. QED  BY <2>2, <2>3, <2>4, RobotRuns
<1>3. CASE RobotExecutesOrphan
  <2>1. PICK f \in orphans : Execute(f[1])
    BY <1>3 DEF RobotExecutesOrphan
  <2>2. f \in Frames /\ Out(f) /\ UNCHANGED outcome
    BY <1>3, FrameSets DEF RobotExecutesOrphan, Out, callVars, TypeInv, TypeOK, LinkTypes
  <2>. QED  BY <2>1, <2>2, RobotRuns
<1>. QED  BY <1>1, <1>2, <1>3 DEF RobotStep

\* The command path implements the contract: every call comes back once with a
\* truthful result, and the robot executes it no more often than promised.
THEOREM KeepsContractHolds == Spec => KeepsContract
<1>1. Init => Contract!Init
  BY DEF Init, Contract!Init
<1>2. TypeInv /\ OpenOK /\ OnceInv /\ OnceInv' /\ TwiceInv /\ [Next]_vars
        => [Contract!Next]_<<outcome, runs>>
  <2> SUFFICES ASSUME TypeInv, OpenOK, OnceInv, OnceInv', TwiceInv, [Next]_vars
               PROVE  Contract!Next \/ UNCHANGED <<outcome, runs>>
    OBVIOUS
  <2>1. ASSUME NEW d \in Commands, CallerStep(d)
        PROVE  Contract!Next \/ UNCHANGED <<outcome, runs>>
    BY <2>1, CallerFinishes DEF Contract!Next
  <2>2. CASE LinkStep \/ RobotStep
    BY <2>2, EnvironmentRuns DEF Contract!Next
  <2>3. CASE UNCHANGED vars
    BY <2>3 DEF vars, callVars
  <2>. QED  BY <2>1, <2>2, <2>3 DEF Next
<1>. QED
  BY <1>1, <1>2, TypeInductive, OpenInductive, OnceInductive, TwiceInductive, PTL
  DEF Spec, KeepsContract, Contract!Spec
-----------------------------------------------------------------------------
(***************************************************************************)
(* Answers that are adrift: where the frames of one call may be.           *)
(***************************************************************************)

\* Nothing went wrong with b yet: no error, and no answer but its own.
Clean(b) == firstError[b] = "none" /\ outcome[b] \notin Errors /\ answer[b] \in {b, None}

Never(s, b) == \A i \in DOMAIN s : s[i][1] # b
AtMostOne(s, b) == \A i, j \in DOMAIN s : s[i][1] = b /\ s[j][1] = b => i = j

NoneAdrift(b) == Never(toRobot, b) /\ Never(fromRobot, b) /\ Never(queue, b)

\* The request of b or its answer is in one of the three places.
OneAdrift(b) ==
  /\ AtMostOne(toRobot, b) /\ AtMostOne(fromRobot, b) /\ AtMostOne(queue, b)
  /\ Never(toRobot, b) \/ Never(fromRobot, b)
  /\ Never(toRobot, b) \/ Never(queue, b)
  /\ Never(queue, b) \/ Never(fromRobot, b)

\* A call has no answer before it is done, and an error once it awaits the
\* connection.  While all is well with b nobody else has its answer, at most one
\* frame of b is under way, and that only while b awaits it.
StaleOK(b) ==
  /\ pc[b] # "done" => answer[b] = None
  /\ pc[b] \in {"reconnect", "waking", "woken"} => firstError[b] # "none"
  /\ Clean(b) => /\ \A c \in Commands \ {b} : answer[c] # b
                 /\ OneAdrift(b)
                 /\ pc[b] \in Waiting \/ NoneAdrift(b)

StaleInv == \A b \in Commands : StaleOK(b)

\* What the steps do to a sequence of frames.
LEMMA NeverEmpty == \A b : Never(<<>>, b) /\ AtMostOne(<<>>, b)
BY DEF Never, AtMostOne

LEMMA NeverOne ==
  ASSUME NEW s, NEW b, Never(s, b)
  PROVE  AtMostOne(s, b)
BY DEF Never, AtMostOne

LEMMA NeverAppend ==
  ASSUME NEW s \in Seq(Frames), NEW f \in Frames, NEW b
  PROVE  /\ f[1] # b /\ Never(s, b) => Never(Append(s, f), b)
         /\ f[1] # b /\ AtMostOne(s, b) => AtMostOne(Append(s, f), b)
         /\ Never(s, b) => AtMostOne(Append(s, f), b)
<1>1. /\ DOMAIN s = 1 .. Len(s) /\ Len(s) \in Nat
      /\ DOMAIN Append(s, f) = 1 .. Len(s) + 1
      /\ \A i \in 1 .. Len(s) : Append(s, f)[i] = s[i]
      /\ Append(s, f)[Len(s) + 1] = f
  OBVIOUS
<1>. QED  BY <1>1 DEF Never, AtMostOne

LEMMA NeverTail ==
  ASSUME NEW s \in Seq(Frames), s # <<>>, NEW b
  PROVE  /\ Never(s, b) => Never(Tail(s), b) /\ Head(s)[1] # b
         /\ AtMostOne(s, b) => AtMostOne(Tail(s), b)
         /\ AtMostOne(s, b) /\ Head(s)[1] = b => Never(Tail(s), b)
<1>1. /\ DOMAIN s = 1 .. Len(s) /\ Len(s) \in Nat /\ Len(s) > 0
      /\ DOMAIN Tail(s) = 1 .. Len(s) - 1
      /\ \A i \in 1 .. Len(s) - 1 : Tail(s)[i] = s[i + 1]
      /\ Head(s) = s[1]
  OBVIOUS
<1>2. \A i \in 1 .. Len(s) - 1 : i + 1 \in 1 .. Len(s) /\ i + 1 # 1
  BY <1>1
<1>3. \A i, j \in 1 .. Len(s) - 1 : i + 1 = j + 1 => i = j
  BY <1>1
<1>4. 1 \in 1 .. Len(s)
  BY <1>1
<1>5. Never(s, b) => Never(Tail(s), b) /\ Head(s)[1] # b
  BY <1>1, <1>2, <1>4 DEF Never
<1>6. AtMostOne(s, b) => AtMostOne(Tail(s), b)
  BY <1>1, <1>2, <1>3 DEF AtMostOne
<1>7. AtMostOne(s, b) /\ Head(s)[1] = b => Never(Tail(s), b)
  BY <1>1, <1>2, <1>4 DEF AtMostOne, Never
<1>. QED  BY <1>5, <1>6, <1>7

\* What Transmit leaves under way.
Transmitted(c, n) == /\ toRobot' \in {toRobot, Append(toRobot, <<c, n>>)}
                     /\ UNCHANGED fromRobot /\ queue' = <<>>

\* A step adds nothing of b to what is under way.
DriftKept(b) == (OneAdrift(b) => OneAdrift(b)') /\ (NoneAdrift(b) => NoneAdrift(b)')

\* The first frame goes on to the next place, or is lost.
LEMMA DriftMoves ==
  ASSUME TypeInv, NEW b \in Commands, UNCHANGED toRobot,
         fromRobot # <<>>, queue' = Append(queue, Head(fromRobot)),
         fromRobot' = Tail(fromRobot)
  PROVE  DriftKept(b)
<1>1. /\ queue \in Seq(Frames) /\ fromRobot \in Seq(Frames)
      /\ Head(fromRobot) \in Frames
  BY DEF TypeInv, TypeOK, QueueTypes
<1>2. CASE Head(fromRobot)[1] = b
  <2>1. ~Never(fromRobot, b) /\ (AtMostOne(fromRobot, b) => Never(fromRobot', b))
    BY <1>1, <1>2, NeverTail
  <2>2. Never(queue, b) => AtMostOne(queue', b)
    BY <1>1, NeverAppend
  <2>. QED  BY <2>1, <2>2, NeverOne DEF DriftKept, OneAdrift, NoneAdrift
<1>3. CASE Head(fromRobot)[1] # b
  BY <1>1, <1>3, NeverAppend, NeverTail DEF DriftKept, OneAdrift, NoneAdrift
<1>. QED  BY <1>2, <1>3

LEMMA DriftExecuted ==
  ASSUME TypeInv, NEW b \in Commands, UNCHANGED queue,
         toRobot # <<>>, toRobot' = Tail(toRobot),
         fromRobot' \in {fromRobot, Append(fromRobot, Head(toRobot))}
  PROVE  DriftKept(b)
<1>1. /\ toRobot \in Seq(Frames) /\ fromRobot \in Seq(Frames)
      /\ Head(toRobot) \in Frames
  BY DEF TypeInv, TypeOK, QueueTypes
<1>2. CASE fromRobot' = fromRobot
  BY <1>1, <1>2, NeverTail DEF DriftKept, OneAdrift, NoneAdrift
<1>3. CASE fromRobot' = Append(fromRobot, Head(toRobot)) /\ Head(toRobot)[1] = b
  BY <1>1, <1>3, NeverAppend, NeverTail, NeverOne DEF DriftKept, OneAdrift, NoneAdrift
<1>4. CASE fromRobot' = Append(fromRobot, Head(toRobot)) /\ Head(toRobot)[1] # b
  BY <1>1, <1>4, NeverAppend, NeverTail DEF DriftKept, OneAdrift, NoneAdrift
<1>. QED  BY <1>2, <1>3, <1>4

\* The places are emptied, or left alone.
LEMMA DriftEmptied ==
  ASSUME NEW b \in Commands, toRobot' \in {toRobot, <<>>},
         fromRobot' \in {fromRobot, <<>>}, queue' \in {queue, <<>>}
  PROVE  DriftKept(b)
BY NeverEmpty DEF DriftKept, OneAdrift, NoneAdrift

\* Somebody takes the first of a queue.
LEMMA DriftTaken ==
  ASSUME TypeInv, NEW b \in Commands, UNCHANGED toRobot,
         \/ fromRobot # <<>> /\ fromRobot' = Tail(fromRobot) /\ UNCHANGED queue
         \/ queue # <<>> /\ queue' = Tail(queue) /\ UNCHANGED fromRobot
  PROVE  DriftKept(b)
<1>1. queue \in Seq(Frames) /\ fromRobot \in Seq(Frames)
  BY DEF TypeInv, TypeOK, QueueTypes
<1>2. CASE fromRobot # <<>> /\ fromRobot' = Tail(fromRobot) /\ UNCHANGED queue
  BY <1>1, <1>2, NeverTail DEF DriftKept, OneAdrift, NoneAdrift
<1>3. CASE queue # <<>> /\ queue' = Tail(queue) /\ UNCHANGED fromRobot
  BY <1>1, <1>3, NeverTail DEF DriftKept, OneAdrift, NoneAdrift
<1>. QED  BY <1>2, <1>3

\* A frame of somebody else is sent, after the queue was drained or not.
LEMMA DriftOther ==
  ASSUME TypeInv, NEW b \in Commands, NEW f \in Frames, f[1] # b,
         toRobot' = Append(toRobot, f), UNCHANGED fromRobot,
         queue' \in {queue, <<>>}
  PROVE  DriftKept(b)
<1>1. toRobot \in Seq(Frames)
  BY DEF TypeInv, TypeOK, QueueTypes
<1>. QED  BY <1>1, NeverAppend, NeverEmpty DEF DriftKept, OneAdrift, NoneAdrift

LEMMA DriftBurst ==
  ASSUME TypeInv, NEW b \in Commands, Burst, UNCHANGED <<fromRobot, queue>>
  PROVE  DriftKept(b)
<1>1. <<Query, 0>> \in Frames /\ <<Query, 0>>[1] # b
  BY FrameSets, ConstantsOK
<1>. QED  BY <1>1, DriftOther, DriftEmptied DEF Burst

\* Nothing else of b, or of the answers the others have, changes.
LEMMA OthersStale ==
  ASSUME TypeInv, NEW b \in Commands, StaleOK(b), DriftKept(b),
         pc'[b] = pc[b], firstError'[b] = firstError[b],
         outcome'[b] = outcome[b], answer'[b] = answer[b],
         \A c \in Commands \ {b} : answer'[c] = answer[c] \/ (Clean(b) => answer'[c] # b)
  PROVE  StaleOK(b)'
BY DEF StaleOK, DriftKept, Clean

\* The step of another call: it takes no answer of b while all is well with b.
LEMMA OtherCallerStale ==
  ASSUME TypeInv, NEW b \in Commands, StaleOK(b), NEW d \in Commands, d # b,
         CallerStep(d)
  PROVE  StaleOK(b)'
<1>1. /\ pc'[b] = pc[b] /\ firstError'[b] = firstError[b]
      /\ outcome'[b] = outcome[b] /\ answer'[b] = answer[b]
      /\ \A c \in Commands \ {d} : answer'[c] = answer[c]
  BY StepIsOwn
<1>2. CASE TakeFromQueue(d) \/ ReceiveDirectly(d)
  <2>1. PICK f : /\ Answered(d, f)
                 /\ \/ f = Head(queue) /\ queue # <<>>
                    \/ f = Head(fromRobot) /\ fromRobot # <<>>
    BY <1>2 DEF TakeFromQueue, ReceiveDirectly
  <2>2. pc[d] \in Waiting /\ pc[b] \notin Waiting
    BY <1>2, OneWaiter DEF TakeFromQueue, ReceiveDirectly, Waiting, TypeInv
  <2>3. answer'[d] = f[1]
    BY <2>1 DEF Answered, TypeInv, TypeOK, CallTypes
  <2>4. Clean(b) => f[1] # b
    <3>1. queue \in Seq(Frames) /\ fromRobot \in Seq(Frames)
      BY DEF TypeInv, TypeOK, QueueTypes
    <3>. QED  BY <2>1, <2>2, <3>1, NeverTail DEF StaleOK, NoneAdrift
  <2>5. DriftKept(b)
    BY <1>2, DriftTaken DEF TakeFromQueue, ReceiveDirectly, Answered
  <2>. QED  BY <1>1, <2>3, <2>4, <2>5, OthersStale
<1>3. CASE ~(TakeFromQueue(d) \/ ReceiveDirectly(d))
  <2>1. answer' = answer
    BY <1>3
    DEF CallerStep, PreflightFails, SendAtOnce, WaitForLock, SendAfterLock,
        ResponseTimeout, ConnectionLost, ConnectionBack, ReconnectTimeout,
        WakeRefused, WakeBurst, Transmit, Raise, GiveUp
  <2>2. \/ UNCHANGED <<toRobot, fromRobot, queue>>
        \/ \E n \in {1, 2} : Transmitted(d, n)
        \/ Burst /\ UNCHANGED <<fromRobot, queue>>
    <3>1. pc[d] = "acquire" => attempt[d] \in {1, 2}
      BY DEF TypeInv, CallOK
    <3>. QED
      BY <1>3, <3>1
      DEF CallerStep, PreflightFails, SendAtOnce, WaitForLock, SendAfterLock,
          ResponseTimeout, ConnectionLost, ConnectionBack, ReconnectTimeout,
          WakeRefused, WakeBurst, Transmit, GiveUp, wireVars, Transmitted
  <2>3. \A n \in {1, 2} : <<d, n>> \in Frames /\ <<d, n>>[1] # b
    BY DEF Frames
  <2>4. DriftKept(b)
    BY <2>2, <2>3, DriftEmptied, DriftOther, DriftBurst DEF Transmitted
  <2>. QED  BY <1>1, <2>1, <2>4, OthersStale
<1>. QED  BY <1>2, <1>3

\* The frame of b itself is sent, when nothing of b was under way.
LEMMA DriftSent ==
  ASSUME TypeInv, NEW b \in Commands, NoneAdrift(b), NEW n \in {1, 2},
         Transmitted(b, n)
  PROVE  OneAdrift(b)' /\ (UNCHANGED toRobot => NoneAdrift(b)')
<1>1. toRobot \in Seq(Frames) /\ <<b, n>> \in Frames
  BY DEF TypeInv, TypeOK, QueueTypes, Frames
<1>. QED
  BY <1>1, NeverAppend, NeverEmpty, NeverOne DEF Transmitted, OneAdrift, NoneAdrift

\* Sending, which cannot be a second attempt while all is well with b.
LEMMA TransmitStale ==
  ASSUME TypeInv, NEW b \in Commands, StaleOK(b), NEW n \in {1, 2}, NEW held,
         outcome[b] = "open", Transmit(b, n, held),
         pc[b] \in {"idle", "acquire", "woken"}
  PROVE  StaleOK(b)'
<1> USE DEF TypeInv, TypeOK, CallTypes
<1>1. Transmitted(b, n) /\ UNCHANGED answer
  BY DEF Transmit, Transmitted, Raise
<1>2. CASE socket = "dead"
  <2>1. ~Clean(b)' /\ (pc'[b] = "reconnect" => firstError'[b] # "none")
        /\ pc'[b] \in {"reconnect", "done"}
    BY <1>2 DEF Transmit, Raise, Settle, Clean, Errors
  <2>. QED  BY <1>1, <2>1 DEF StaleOK
<1>3. CASE socket # "dead"
  <2>1. /\ UNCHANGED firstError
        /\ outcome'[b] = outcome[b] \/ outcome'[b] = "crashed"
        /\ pc'[b] \in Waiting \/ (pc'[b] = "done" /\ UNCHANGED toRobot)
    BY <1>3 DEF Transmit, Settle, Waiting, LinkTypes
  <2>2. pc'[b] \notin {"reconnect", "waking", "woken"}
    BY <2>1 DEF Waiting
  <2>3. CASE Clean(b)'
    <3>1. firstError[b] = "none" /\ answer[b] \in {b, None}
      BY <1>1, <2>1, <2>3 DEF Clean
    <3>2. Clean(b)
      BY <3>1 DEF Clean, Errors
    <3>3. NoneAdrift(b)
      BY <3>1, <3>2 DEF StaleOK, Waiting
    <3>. QED  BY <1>1, <2>1, <2>2, <3>2, <3>3, DriftSent DEF StaleOK
  <2>. QED  BY <1>1, <2>2, <2>3 DEF StaleOK
<1>. QED  BY <1>2, <1>3

\* The step of b itself: it takes its own answer, or all is not well any more.
LEMMA CallerStale ==
  ASSUME TypeInv, NEW b \in Commands, StaleOK(b), outcome[b] = "open",
         CallerStep(b)
  PROVE  StaleOK(b)'
<1> USE DEF TypeInv, TypeOK, CallTypes
<1>1. ASSUME NEW n, NEW e \in Errors, NEW s, Raise(b, n, e, s)
      PROVE  StaleOK(b)'
  <2>1. ~Clean(b)' /\ (pc'[b] = "reconnect" => firstError'[b] # "none")
        /\ pc'[b] \in {"reconnect", "done"}
    BY <1>1 DEF Raise, Settle, Clean, Errors
  <2>. QED  BY <1>1, <2>1, DoneIsOver DEF Raise, StaleOK
<1>2. CASE \/ \E n \in {1, 2} : PreflightFails(b, n)
           \/ ResponseTimeout(b) \/ ConnectionLost(b)
  BY <1>1, <1>2 DEF PreflightFails, ResponseTimeout, ConnectionLost, GiveUp, Errors
<1>3. CASE \/ \E n \in {1, 2} : SendAtOnce(b, n)
           \/ SendAfterLock(b)
  <2>1. pc[b] = "acquire" => attempt[b] \in {1, 2}
    BY DEF CallOK
  <2>. QED  BY <1>3, <2>1, TransmitStale DEF SendAtOnce, SendAfterLock, Entering
<1>4. CASE \E n \in {1, 2} : WaitForLock(b, n)
  <2>1. /\ UNCHANGED <<firstError, outcome, answer, toRobot, fromRobot, queue>>
        /\ pc[b] \in {"idle", "woken"} /\ pc'[b] = "acquire"
    BY <1>4 DEF WaitForLock, wireVars, Entering
  <2>. QED  BY <2>1 DEF StaleOK, Clean, OneAdrift, NoneAdrift, Waiting
<1>5. CASE TakeFromQueue(b) \/ ReceiveDirectly(b)
  <2>1. PICK f : /\ Answered(b, f)
                 /\ \/ TakeFromQueue(b) /\ f = Head(queue)
                    \/ ReceiveDirectly(b) /\ f = Head(fromRobot)
    BY <1>5 DEF TakeFromQueue, ReceiveDirectly
  <2>2. /\ pc[b] \in Waiting /\ pc'[b] = "done" /\ UNCHANGED <<firstError, toRobot>>
        /\ answer' = [answer EXCEPT ![b] = f[1]]
    BY <1>5, <2>1 DEF TakeFromQueue, ReceiveDirectly, Answered, Settle, Waiting
  <2>3. queue \in Seq(Frames) /\ fromRobot \in Seq(Frames)
    BY DEF QueueTypes
  <2>4. f \in Frames
    BY <2>1, <2>3 DEF TakeFromQueue, ReceiveDirectly
  <2>5. f[1] # None
    BY <2>4, FrameSets, ConstantsOK DEF Sources
  <2>6. CASE Clean(b) /\ f[1] = b
    <3>1. OneAdrift(b)
      BY <2>6 DEF StaleOK
    <3>2. NoneAdrift(b)'
      <4>1. CASE TakeFromQueue(b) /\ f = Head(queue)
        <5>1. /\ queue # <<>> /\ queue' = Tail(queue)
              /\ UNCHANGED <<fromRobot, toRobot>>
          BY <2>2, <4>1 DEF TakeFromQueue
        <5>2. ~Never(queue, b) /\ Never(queue', b)
          BY <2>3, <2>6, <3>1, <4>1, <5>1, NeverTail DEF OneAdrift
        <5>. QED  BY <3>1, <5>1, <5>2 DEF OneAdrift, NoneAdrift
      <4>2. CASE ReceiveDirectly(b) /\ f = Head(fromRobot)
        <5>1. /\ fromRobot # <<>> /\ fromRobot' = Tail(fromRobot)
              /\ UNCHANGED <<queue, toRobot>>
          BY <2>2, <4>2 DEF ReceiveDirectly
        <5>2. ~Never(fromRobot, b) /\ Never(fromRobot', b)
          BY <2>3, <2>6, <3>1, <4>2, <5>1, NeverTail DEF OneAdrift
        <5>. QED  BY <3>1, <5>1, <5>2 DEF OneAdrift, NoneAdrift
      <4>. QED  BY <2>1, <4>1, <4>2
    <3>3. OneAdrift(b)'
      BY <3>2, NeverOne DEF OneAdrift, NoneAdrift
    <3>. QED  BY <2>2, <2>6, <3>2, <3>3 DEF StaleOK
  <2>7. CASE ~Clean(b) \/ f[1] # b
    <3>1. ~Clean(b)'
      <4>1. CASE f[1] # b
        BY <2>2, <2>5, <4>1 DEF Clean
      <4>2. CASE ~Clean(b) /\ f[1] = b
        <5>1. CASE firstError[b] # "none"
          BY <2>2, <5>1 DEF Clean
        <5>2. CASE answer[b] \notin {b, None}
          BY <2>2, <5>2 DEF StaleOK, Waiting
        <5>3. outcome[b] \notin Errors
          BY DEF Errors
        <5>. QED  BY <4>2, <5>1, <5>2, <5>3 DEF Clean
      <4>. QED  BY <2>7, <4>1, <4>2
    <3>. QED  BY <2>2, <3>1 DEF StaleOK
  <2>. QED  BY <2>6, <2>7
<1>6. CASE ConnectionBack(b) \/ ReconnectTimeout(b) \/ WakeRefused(b) \/ WakeBurst(b)
  <2>1. /\ UNCHANGED firstError /\ pc[b] \in {"reconnect", "waking", "woken"}
    BY <1>6 DEF ConnectionBack, ReconnectTimeout, WakeRefused, WakeBurst
  <2>2. firstError'[b] # "none"
    BY <2>1 DEF StaleOK
  <2>. QED
    BY <1>6, <2>1, <2>2
    DEF ConnectionBack, ReconnectTimeout, WakeRefused, WakeBurst, StaleOK, Clean
<1>. QED
  BY <1>2, <1>3, <1>4, <1>5, <1>6 DEF CallerStep

LEMMA EnvironmentStale ==
  ASSUME TypeInv, NEW b \in Commands, StaleOK(b), LinkStep \/ RobotStep
  PROVE  StaleOK(b)'
<1>1. UNCHANGED <<pc, firstError, outcome, answer>>
  BY DEF LinkStep, RobotStep, EnterReceiveLoop, ListenerDelivers, SocketDies,
         ListenerEnds, Reconnect, ReconnectBurst, KeepaliveBurst, Disconnect,
         Disconnected, RobotExecutes, RobotIgnores, RobotExecutesOrphan, callVars
<1>2. DriftKept(b)
  <2>1. CASE \/ EnterReceiveLoop \/ SocketDies \/ ListenerEnds \/ Reconnect
             \/ Disconnect \/ Disconnected \/ RobotExecutesOrphan
    BY <2>1, DriftEmptied
    DEF EnterReceiveLoop, SocketDies, ListenerEnds, Reconnect, Disconnect,
        Disconnected, RobotExecutesOrphan, wireVars
  <2>2. CASE ListenerDelivers
    BY <2>2, DriftMoves DEF ListenerDelivers
  <2>3. CASE ReconnectBurst \/ KeepaliveBurst
    BY <2>3, DriftBurst DEF ReconnectBurst, KeepaliveBurst
  <2>4. CASE RobotExecutes
    BY <2>4, DriftExecuted DEF RobotExecutes
  <2>5. CASE RobotIgnores
    BY <2>5, DriftExecuted DEF RobotIgnores
  <2>. QED  BY <2>1, <2>2, <2>3, <2>4, <2>5 DEF LinkStep, RobotStep
<1>. QED  BY <1>1, <1>2, OthersStale

\* While nothing went wrong with a call its one frame is where it belongs.
THEOREM StaleInductive == Spec => []StaleInv
<1>1. Init => StaleInv
  <2> SUFFICES ASSUME Init, NEW b \in Commands PROVE StaleOK(b)
    BY DEF StaleInv
  <2>1. /\ pc[b] = "idle" /\ \A c \in Commands : answer[c] = None
        /\ NoneAdrift(b) /\ OneAdrift(b)
    BY NeverEmpty DEF Init, NoneAdrift, OneAdrift
  <2>2. b # None
    BY ConstantsOK
  <2>. QED  BY <2>1, <2>2 DEF StaleOK
<1>2. TypeInv /\ OpenOK /\ StaleInv /\ [Next]_vars => StaleInv'
  <2> SUFFICES ASSUME TypeInv, OpenOK, StaleInv, [Next]_vars, NEW b \in Commands
               PROVE  StaleOK(b)'
    BY DEF StaleInv
  <2>1. StaleOK(b)
    BY DEF StaleInv
  <2>2. CASE UNCHANGED vars
    BY <2>1, <2>2
    DEF vars, callVars, wireVars, StaleOK, Clean, OneAdrift, NoneAdrift
  <2>3. ASSUME CallerStep(b) PROVE StaleOK(b)'
    BY <2>1, <2>3, CallerStale, DoneIsOver DEF OpenOK
  <2>4. ASSUME NEW d \in Commands, CallerStep(d) PROVE StaleOK(b)'
    BY <2>1, <2>3, <2>4, OtherCallerStale
  <2>. QED  BY <2>1, <2>2, <2>4, EnvironmentStale DEF Next
<1>. QED  BY <1>1, <1>2, TypeInductive, OpenInductive, PTL DEF Spec

\* A wrong answer was adrift already: the lock and the drain keep the exchanges
\* of calls apart as long as nothing goes wrong with them.
THEOREM WrongAnswerIsStaleHolds == Spec => []WrongAnswerIsStale
<1>1. StaleInv => WrongAnswerIsStale
  BY DEF StaleInv, StaleOK, Clean, WrongAnswerIsStale
<1>. QED  BY <1>1, StaleInductive, PTL
=============================================================================
