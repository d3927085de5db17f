----------------------------- MODULE Connection -----------------------------
(***************************************************************************)
(* The life of the WebSocket of NarwalClient: connect, the listener loop   *)
(* start_listening with its back-off, the keep-alive that notices silence  *)
(* and forces a fresh connection, wake and ensure_awake, disconnect, and   *)
(* the shutdown of the coordinator that owns the listener task.            *)
(*                                                                         *)
(* Each task is a process; a step is what it does between two awaits.      *)
(* Commands, responses and payloads are left out: CommandChannel has them. *)
(* What remains of a command is that its direct read of the socket can     *)
(* make the listener fail as it starts iterating (ListenerCollides).       *)
(***************************************************************************)
EXTENDS Naturals, FiniteSets

CONSTANTS Sockets,       \* identities of TCP connections, used again when closed
          NoSocket,      \* _ws is None
          InitialDelay,  \* RECONNECT_INITIAL_DELAY
          Factor,        \* RECONNECT_BACKOFF_FACTOR
          MaxDelay,      \* RECONNECT_MAX_DELAY
          WakeThreshold, \* _WAKE_RECONNECT_THRESHOLD
          MaxFaults      \* bound: handler exceptions and collisions

ASSUME ConnectionAssumption ==
  /\ NoSocket \notin Sockets
  /\ {InitialDelay, Factor, MaxDelay, WakeThreshold} \subseteq Nat \ {0}
  /\ InitialDelay <= MaxDelay
  /\ MaxFaults \in Nat

VARIABLES
  open,             \* the TCP connections of this client that are open
  ws,               \* _ws
  connected,        \* the _connected event
  shouldReconnect,  \* _should_reconnect
  listenerActive,   \* _listener_active
  loop,             \* start_listening: "off", "connecting", "burst", "recv",
                    \* "backoff" or "ended"
  delay,            \* retry_delay
  keepalive,        \* _keepalive_task is running
  wakeFailures,     \* consecutive_wake_failures
  awake,            \* _robot_awake
  age,              \* of the last broadcast: 0 up to AWAKE_BROADCAST_MAX_AGE,
                    \* 1 up to BROADCAST_STALE_TIMEOUT, 2 beyond (and before
                    \* the first one, when awake is FALSE and nobody asks)
  closing,          \* disconnect(): "no", "begun" or "done"
  waker,            \* one caller of ensure_awake: "idle", "polling", "true",
                    \* "false" or "raised"
  heard,            \* a broadcast arrived since that call began, or the last
                    \* one was fresh when it did
  faults

socketVars == <<open, ws, connected>>
loopVars   == <<shouldReconnect, listenerActive, loop, delay>>
aliveVars  == <<keepalive, wakeFailures, awake, age>>
wakerVars  == <<waker, heard>>
vars == <<socketVars, loopVars, aliveVars, closing, wakerVars, faults>>

Connected == ws # NoSocket /\ connected

TypeOK ==
  /\ open \subseteq Sockets
  /\ ws \in Sockets \cup {NoSocket}
  /\ {connected, shouldReconnect, listenerActive, keepalive, awake, heard}
       \subseteq BOOLEAN
  /\ loop \in {"off", "connecting", "burst", "recv", "backoff", "ended"}
  /\ delay \in InitialDelay .. MaxDelay
  /\ wakeFailures \in 0 .. WakeThreshold - 1
  /\ age \in 0 .. 2
  /\ closing \in {"no", "begun", "done"}
  /\ waker \in {"idle", "polling", "true", "false", "raised"}
  /\ faults \in 0 .. MaxFaults

\* A new client, whose owner may have called connect() before it starts the
\* listener, as async_setup does.
Init ==
  /\ \/ ws = NoSocket /\ open = {} /\ connected = FALSE
     \/ \E s \in Sockets : ws = s /\ open = {s} /\ connected = TRUE
  /\ shouldReconnect = TRUE
  /\ listenerActive = FALSE
  /\ loop = "off"
  /\ delay = InitialDelay
  /\ keepalive = FALSE
  /\ wakeFailures = 0
  /\ awake = FALSE
  /\ age = 2
  /\ closing = "no"
  /\ waker = "idle"
  /\ heard = FALSE
  /\ faults = 0
-----------------------------------------------------------------------------
(***************************************************************************)
(* The listener loop.                                                      *)
(***************************************************************************)

\* Mutant: the reset of _robot_awake is forgotten.
Finally_KeepsAwake ==
  /\ listenerActive' = FALSE
  /\ connected' = FALSE
  /\ keepalive' = FALSE
  /\ loop' = IF shouldReconnect THEN "backoff" ELSE "ended"
  /\ UNCHANGED awake

\* The finally clause.  It does not close the socket.
Finally ==
  /\ listenerActive' = FALSE
  /\ awake' = FALSE
  /\ connected' = FALSE
  /\ keepalive' = FALSE
  /\ loop' = IF shouldReconnect THEN "backoff" ELSE "ended"

\* The tasks are created and the iteration over the socket begins.  A closed
\* socket, or none, makes it fail at once.
BeginIteration ==
  /\ delay' = InitialDelay
  /\ wakeFailures' = 0
  /\ \/ /\ ws \in open
        /\ listenerActive' = TRUE
        /\ keepalive' = connected
        /\ loop' = "recv"
        /\ UNCHANGED <<awake, connected>>
     \/ /\ ws \notin open
        /\ Finally
  /\ UNCHANGED <<open, ws, age, closing, wakerVars>>

\* start_listening is called.  It asks for reconnection, so it undoes a
\* disconnect(); nobody calls it again after that.
Start ==
  /\ loop = "off" /\ closing = "no"
  /\ shouldReconnect' = TRUE
  /\ IF Connected THEN BeginIteration
     ELSE /\ loop' = "connecting"
          /\ UNCHANGED <<socketVars, listenerActive, delay, aliveVars, closing,
                         wakerVars>>
  /\ UNCHANGED faults

\* Mutant: a second caller of connect() while the listener has just connected.
ConnectSucceeds_Twice ==
  /\ loop \in {"connecting", "burst"}
  /\ \E s \in Sockets \ (open \cup {ws}) : open' = open \cup {s} /\ ws' = s
  /\ connected' = TRUE
  /\ loop' = "burst"
  /\ UNCHANGED <<shouldReconnect, listenerActive, delay, aliveVars, closing,
                 wakerVars, faults>>

\* connect() binds _ws to the new connection; the wake burst follows.
ConnectSucceeds ==
  /\ loop = "connecting"
  /\ \E s \in Sockets \ (open \cup {ws}) : open' = open \cup {s} /\ ws' = s
  /\ connected' = TRUE
  /\ loop' = "burst"
  /\ UNCHANGED <<shouldReconnect, listenerActive, delay, aliveVars, closing,
                 wakerVars, faults>>

\* Mutant: a refused connection ends the listener.
ConnectFails_Ends ==
  /\ loop = "connecting"
  /\ loop' = "ended"
  /\ UNCHANGED <<socketVars, shouldReconnect, listenerActive, delay, aliveVars,
                 closing, wakerVars, faults>>

ConnectFails ==
  /\ loop = "connecting"
  /\ Finally
  /\ UNCHANGED <<open, ws, shouldReconnect, delay, wakeFailures, age, closing,
                 wakerVars, faults>>

BurstSent == /\ loop = "burst"
             /\ BeginIteration
             /\ UNCHANGED <<shouldReconnect, faults>>

\* A command is reading the socket itself (it was sent while _listener_active
\* was False), so recv refuses the listener as a second reader.
ListenerCollides ==
  /\ loop = "burst" /\ ws \in open
  /\ faults < MaxFaults /\ faults' = faults + 1
  /\ delay' = InitialDelay
  /\ Finally
  /\ UNCHANGED <<open, ws, shouldReconnect, wakeFailures, age, closing,
                 wakerVars>>

\* A broadcast is proof of life, before anything else is done with it.
Broadcast ==
  /\ loop = "recv" /\ ws \in open
  /\ awake' = TRUE
  /\ age' = 0
  /\ heard' = TRUE
  /\ UNCHANGED <<socketVars, loopVars, keepalive, wakeFailures, closing, waker,
                 faults>>

\* A frame whose handler raises ends the iteration.
HandlerRaises ==
  /\ loop = "recv" /\ ws \in open
  /\ faults < MaxFaults /\ faults' = faults + 1
  /\ Finally
  /\ UNCHANGED <<open, ws, shouldReconnect, delay, wakeFailures, age, closing,
                 wakerVars>>

\* The iteration ends with its socket.
IterationEnds ==
  /\ loop = "recv" /\ ws \notin open
  /\ Finally
  /\ UNCHANGED <<open, ws, shouldReconnect, delay, wakeFailures, age, closing,
                 wakerVars, faults>>

\* The sleep after a failure, the doubled delay, and the loop condition.
BackoffOver ==
  /\ loop = "backoff"
  /\ delay' = IF delay * Factor < MaxDelay THEN delay * Factor ELSE MaxDelay
  /\ loop' = IF shouldReconnect THEN "connecting" ELSE "ended"
  /\ UNCHANGED <<socketVars, shouldReconnect, listenerActive, aliveVars,
                 closing, wakerVars, faults>>
-----------------------------------------------------------------------------
(***************************************************************************)
(* The keep-alive, one tick each KEEPALIVE_INTERVAL.  Whatever clears       *)
(* _connected cancels the task, so its own test of it is always true.      *)
(***************************************************************************)

Stale == awake /\ age = 2

\* The robot talks: a heartbeat, whose failure ends the task.
KeepaliveHeartbeat ==
  /\ keepalive /\ Connected
  /\ awake /\ ~Stale
  /\ wakeFailures' = 0
  /\ keepalive' = (ws \in open)
  /\ UNCHANGED <<socketVars, loopVars, awake, age, closing, wakerVars, faults>>

\* Mutant: every silent tick counts as the first.
KeepaliveBurst_NoCount ==
  /\ keepalive /\ Connected
  /\ ~awake \/ Stale
  /\ awake' = FALSE
  /\ wakeFailures' = 1
  /\ UNCHANGED <<keepalive, open, ws, connected, loopVars, age, closing,
                 wakerVars, faults>>

\* The robot is silent: forget awake, send a burst, and at the threshold close
\* the socket so that the listener opens another one.
KeepaliveBurst ==
  /\ keepalive /\ Connected
  /\ ~awake \/ Stale
  /\ awake' = FALSE
  /\ LET failures == (IF Stale THEN 0 ELSE wakeFailures) + 1 IN
     \/ /\ failures < WakeThreshold
        /\ wakeFailures' = failures
        /\ UNCHANGED <<keepalive, open>>
     \/ /\ failures >= WakeThreshold
        /\ wakeFailures' = 0
        /\ open' = open \ {ws}
        /\ keepalive' = FALSE
  /\ UNCHANGED <<ws, connected, loopVars, age, closing, wakerVars, faults>>
-----------------------------------------------------------------------------
(***************************************************************************)
(* disconnect() and the coordinator's async_shutdown.                      *)
(***************************************************************************)

\* Up to the awaits on the cancelled tasks and on the close handshake.
DisconnectBegins ==
  /\ closing = "no"
  /\ keepalive \/ ws \in open
  /\ closing' = "begun"
  /\ shouldReconnect' = FALSE
  /\ listenerActive' = FALSE
  /\ awake' = FALSE
  /\ connected' = FALSE
  /\ keepalive' = FALSE
  /\ UNCHANGED <<open, ws, loop, delay, wakeFailures, age, wakerVars, faults>>

\* Mutant: the owner leaves the listener task running.
OwnerCancels_Forgotten ==
  /\ loop # "off"
  /\ UNCHANGED <<loop, listenerActive, awake, connected, keepalive>>

\* The owner cancels the listener, which runs its finally clause and returns.
OwnerCancels == /\ loop # "off"
                /\ loop' = "ended"
                /\ listenerActive' = FALSE
                /\ awake' = FALSE
                /\ connected' = FALSE
                /\ keepalive' = FALSE

\* The coordinator has not created the listener task yet.
NotListening == loop = "off"

DisconnectEnds ==
  /\ closing = "begun"
  /\ closing' = "done"
  /\ open' = open \ {ws}
  /\ ws' = NoSocket
  /\ \/ OwnerCancels
     \/ NotListening /\ UNCHANGED <<loop, listenerActive, awake, connected, keepalive>>
  /\ UNCHANGED <<shouldReconnect, delay, wakeFailures, age, wakerVars, faults>>

\* Nothing to wait for: no task and no open socket.
DisconnectAtOnce ==
  /\ closing = "no"
  /\ ~keepalive /\ ws \notin open
  /\ closing' = "done"
  /\ shouldReconnect' = FALSE
  /\ ws' = NoSocket
  /\ \/ OwnerCancels
     \/ /\ NotListening
        /\ listenerActive' = FALSE
        /\ awake' = FALSE
        /\ connected' = FALSE
        /\ UNCHANGED <<loop, keepalive>>
  /\ UNCHANGED <<open, delay, wakeFailures, age, wakerVars, faults>>
-----------------------------------------------------------------------------
(***************************************************************************)
(* ensure_awake, which calls wake(force=stale).                            *)
(***************************************************************************)

EnsureAwake ==
  /\ waker = "idle"
  /\ heard' = (age = 0)
  /\ waker' = CASE awake /\ age = 0 -> "true"
                [] ~(awake /\ age = 0) /\ ~Connected -> "raised"
                [] OTHER -> "polling"
  /\ UNCHANGED <<socketVars, loopVars, aliveVars, closing, faults>>

\* The poll after a burst looks at the flag alone.
WakeSeesFlag ==
  /\ waker = "polling" /\ awake
  /\ waker' = "true"
  /\ UNCHANGED <<socketVars, loopVars, aliveVars, closing, heard, faults>>

\* The connection is lost or the deadline passes.
WakeGivesUp ==
  /\ waker = "polling"
  /\ waker' = "false"
  /\ UNCHANGED <<socketVars, loopVars, aliveVars, closing, heard, faults>>
-----------------------------------------------------------------------------
\* The robot, the network and the clock.
SocketCloses ==
  /\ \E s \in open : open' = open \ {s}
  /\ UNCHANGED <<ws, connected, loopVars, aliveVars, closing, wakerVars, faults>>

TimePasses ==
  /\ age < 2
  /\ age' = age + 1
  /\ UNCHANGED <<socketVars, loopVars, keepalive, wakeFailures, awake, closing,
                 wakerVars, faults>>

ListenerStep == \/ BurstSent
                \/ IterationEnds
                \/ BackoffOver
                \/ ConnectFails
                \/ ConnectSucceeds

KeepaliveStep == KeepaliveHeartbeat \/ KeepaliveBurst

DisconnectStep == DisconnectBegins \/ DisconnectEnds \/ DisconnectAtOnce

WakerStep == EnsureAwake \/ WakeSeesFlag \/ WakeGivesUp

Next == \/ Start \/ ListenerStep \/ ListenerCollides
        \/ Broadcast \/ HandlerRaises
        \/ KeepaliveStep
        \/ DisconnectStep
        \/ WakerStep
        \/ SocketCloses \/ TimePasses

Spec == Init /\ [][Next]_vars

\* asyncio runs every ready task and fires every timer.  The robot's address
\* accepts a connection again and again if it is tried again and again, and
\* some of those connections outlive the wake burst; that is all that is asked
\* of the network.
FairSpec == /\ Spec
            /\ WF_vars(ListenerStep)
            /\ SF_vars(ConnectSucceeds)
            /\ SF_vars(BurstSent /\ ws \in open)
            /\ WF_vars(KeepaliveStep)
            /\ WF_vars(DisconnectEnds)
-----------------------------------------------------------------------------
(***************************************************************************)
(* Properties                                                              *)
(***************************************************************************)

\* The awake flag and the listener flag never outlive the iteration that
\* earned them: a command that sees them set has a reader for its response.
FlagsNeedReader == awake \/ listenerActive => loop = "recv"

\* With no handler failure and no collision, replacing the connection never
\* leaves a second one open: the robot takes one connection per address.
OneConnection == faults = 0 => Cardinality(open) <= 1

\* After the coordinator's shutdown nothing of the client lives on.
ShutdownIsFinal ==
  closing = "done" /\ faults = 0 =>
    loop \in {"off", "ended"} /\ open = {} /\ ~Connected /\ ~keepalive

\* Until disconnect() is called, whatever ends a connection, the client listens
\* again.
ListensAgain ==
  loop \in {"connecting", "burst", "backoff"} ~> loop = "recv" \/ closing # "no"

\* A connection on which the robot stays silent is given up for a fresh one.
SilentConnectionReplaced ==
  \A s \in Sockets :
    loop = "recv" /\ ws = s /\ ~awake ~> ws # s \/ loop # "recv" \/ awake

\* What ensure_awake says: True if the robot is broadcasting.
TrueMeansBroadcasting == waker = "true" => heard
=============================================================================
