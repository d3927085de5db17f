--------------------------- MODULE CommandChannel ---------------------------
(***************************************************************************)
(* How one command of NarwalClient reaches the robot and how its answer    *)
(* comes back: send_command and _send_command_once, with the response      *)
(* queue, the command lock, the listener loop that fills the queue, the    *)
(* reconnect window in which nobody fills it, and the wake bursts that put *)
(* a query of their own on the same socket.                                *)
(*                                                                         *)
(* A step of the model is what the event loop runs between two suspension  *)
(* points of the code.  A frame is <<source, attempt>>: the source is a    *)
(* command, or Query for the get_device_base_status that ends every wake   *)
(* burst, the one burst frame the robot answers with a field5 response.    *)
(* Payloads and result codes are left out: module StartClean has them.     *)
(***************************************************************************)
EXTENDS Naturals, Sequences

CONSTANTS Commands,    \* the calls of send_command made in a behaviour
          Idempotent,  \* those whose topic is in IDEMPOTENT_COMMANDS
          Query,       \* the source of the wake burst's query
          None,        \* no answer
          MaxDrops,    \* bound: socket losses and listener crashes
          MaxBursts    \* bound: wake bursts

ASSUME ConstantsOK == /\ Idempotent \subseteq Commands
                      /\ Query \notin Commands
                      /\ None \notin Commands \cup {Query}
                      /\ MaxDrops \in Nat
                      /\ MaxBursts \in Nat

VARIABLES
  pc,          \* where each call of send_command is suspended
  attempt,     \* 0 before the first _send_command_once, then 1 or 2
  firstError,  \* first_error of send_command, kept across the recovery
  outcome,     \* "open" until the call returns or raises
  answer,      \* the source of the response an answered call returned
  lockQ,       \* _command_lock: its holder first, then its waiters
  queue,       \* _response_queue
  socket,      \* _ws: "open", "dead" (closed, not yet replaced), "none"
  connected,   \* the _connected event
  loop,        \* start_listening: "off", "recv", "backoff", "burst",
               \* "enter" (burst sent, iteration not begun), "stopped"
  toRobot,     \* frames on the current connection, in order
  fromRobot,   \* responses on the current connection, in order
  orphans,     \* frames of lost connections the robot may still act on
  runs,        \* how often the robot has executed each command
  drops, bursts

callVars  == <<pc, attempt, firstError, outcome, answer>>
linkVars  == <<socket, connected, loop>>
wireVars  == <<toRobot, fromRobot, orphans>>
boundVars == <<drops, bursts>>
vars == <<callVars, lockQ, queue, linkVars, wireVars, runs, boundVars>>

Frames == (Commands \X {1, 2}) \cup {<<Query, 0>>}
Sources == Commands \cup {Query}

\* The exceptions of the command path.  notConnected, sendFailed, lost and
\* timeout are NarwalConnectionError, NarwalTransportError with frame_sent
\* False and True, and NarwalCommandError.
Errors == {"notConnected", "sendFailed", "lost", "timeout"}

\* _listener_active: only the receive loop sets it.
ListenerActive == loop = "recv"

\* The property connected: _ws is not None and _connected.is_set().
Connected == socket # "none" /\ connected

Waiting == {"awaitQueue", "awaitRecv"}

CallTypes ==
  /\ pc \in [Commands -> {"idle", "acquire", "awaitQueue", "awaitRecv",
                          "reconnect", "waking", "woken", "done"}]
  /\ attempt \in [Commands -> {0, 1, 2}]
  /\ firstError \in [Commands -> Errors \cup {"none"}]
  /\ outcome \in [Commands -> Errors \cup {"open", "answered", "crashed"}]
  /\ answer \in [Commands -> Sources \cup {None}]

QueueTypes ==
  /\ lockQ \in Seq(Commands)
  /\ queue \in Seq(Frames)
  /\ toRobot \in Seq(Frames)
  /\ fromRobot \in Seq(Frames)

LinkTypes ==
  /\ socket \in {"open", "dead", "none"}
  /\ connected \in BOOLEAN
  /\ loop \in {"off", "recv", "backoff", "burst", "enter", "stopped"}
  /\ orphans \subseteq Commands \X {1, 2}
  /\ runs \in [Commands -> Nat]
  /\ drops \in Nat
  /\ bursts \in Nat

TypeOK == CallTypes /\ QueueTypes /\ LinkTypes

\* After NarwalClient() and connect(): the first commands of async_setup and
\* of the config flow are sent before start_listening runs.
Init ==
  /\ pc = [c \in Commands |-> "idle"]
  /\ attempt = [c \in Commands |-> 0]
  /\ firstError = [c \in Commands |-> "none"]
  /\ outcome = [c \in Commands |-> "open"]
  /\ answer = [c \in Commands |-> None]
  /\ lockQ = <<>>
  /\ queue = <<>>
  /\ socket = "open"
  /\ connected = TRUE
  /\ loop = "off"
  /\ toRobot = <<>>
  /\ fromRobot = <<>>
  /\ orphans = {}
  /\ runs = [c \in Commands |-> 0]
  /\ drops = 0
  /\ bursts = 0
-----------------------------------------------------------------------------
(***************************************************************************)
(* The caller: send_command around _send_command_once.                     *)
(***************************************************************************)

\* Mutant: the topic is not looked at.
MayRepeat_AnyTopic(c, frameSent) == TRUE

\* The test of send_command: anything the robot may have executed already is
\* repeated only when repeating it is harmless.
MayRepeat(c, frameSent) == ~frameSent \/ c \in Idempotent

Settle(c, result) ==
  /\ pc' = [pc EXCEPT ![c] = "done"]
  /\ outcome' = [outcome EXCEPT ![c] = result]

\* Mutant: every failure is followed by another attempt.
Raise_NoLimit(c, n, error, frameSent) ==
  /\ attempt' = [attempt EXCEPT ![c] = n]
  /\ UNCHANGED answer
  /\ \/ /\ MayRepeat(c, frameSent)
        /\ firstError' = [firstError EXCEPT ![c] = error]
        /\ pc' = [pc EXCEPT ![c] = "reconnect"]
        /\ UNCHANGED outcome
     \/ /\ ~MayRepeat(c, frameSent)
        /\ Settle(c, error)
        /\ UNCHANGED firstError

\* An exception leaves attempt n of c: the except clauses of send_command on
\* the first attempt, the caller on the second.
Raise(c, n, error, frameSent) ==
  /\ attempt' = [attempt EXCEPT ![c] = n]
  /\ UNCHANGED answer
  /\ \/ /\ n = 1
        /\ MayRepeat(c, frameSent)
        /\ firstError' = [firstError EXCEPT ![c] = error]
        /\ pc' = [pc EXCEPT ![c] = "reconnect"]
        /\ UNCHANGED outcome
     \/ /\ n = 2 \/ ~MayRepeat(c, frameSent)
        /\ Settle(c, error)
        /\ UNCHANGED firstError

\* Mutant: the lock stays with the call.
Release_Kept == UNCHANGED lockQ

Release == lockQ' = Tail(lockQ)

\* The body of _send_command_once under the lock: drain the stale responses
\* and send.  held is the lock queue with c, its holder, in front.
Transmit(c, n, held) ==
  /\ queue' = <<>>
  /\ UNCHANGED <<linkVars, fromRobot, orphans, runs, boundVars>>
  /\ \/ /\ socket = "open"
        /\ toRobot' = Append(toRobot, <<c, n>>)
        /\ lockQ' = held
        /\ pc' = [pc EXCEPT ![c] = IF ListenerActive THEN "awaitQueue"
                                                     ELSE "awaitRecv"]
        /\ attempt' = [attempt EXCEPT ![c] = n]
        /\ UNCHANGED <<firstError, outcome, answer>>
     \/ /\ socket = "dead"
        /\ Raise(c, n, "sendFailed", FALSE)
        /\ lockQ' = Tail(held)
        /\ UNCHANGED toRobot
     \/ /\ socket = "none"          \* None.send: AttributeError, not caught
        /\ Settle(c, "crashed")
        /\ attempt' = [attempt EXCEPT ![c] = n]
        /\ lockQ' = Tail(held)
        /\ UNCHANGED <<toRobot, firstError, answer>>

\* Until the listener starts, async_setup and the config flow await each
\* command before the next one and before start_listening.
OneByOne == loop = "off" => \A c \in Commands : pc[c] \in {"idle", "done"}

\* c is about to enter _send_command_once for the n-th time.
Entering(c, n) == \/ pc[c] = "idle" /\ n = 1 /\ OneByOne
                  \/ pc[c] = "woken" /\ n = 2

\* The pre-flight check fails.
PreflightFails(c, n) ==
  /\ Entering(c, n)
  /\ ~Connected
  /\ Raise(c, n, "notConnected", FALSE)
  /\ UNCHANGED <<lockQ, queue, linkVars, wireVars, runs, boundVars>>

\* Mutant: the command lock is not asked for.
SendAtOnce_NoLock(c, n) ==
  /\ Entering(c, n)
  /\ Connected
  /\ Transmit(c, n, <<c>> \o lockQ)

\* The check passed and the lock is free: no suspension before the send.
SendAtOnce(c, n) ==
  /\ Entering(c, n)
  /\ Connected
  /\ lockQ = <<>>
  /\ Transmit(c, n, <<c>>)

\* The check passed and another command holds the lock.
WaitForLock(c, n) ==
  /\ Entering(c, n)
  /\ Connected
  /\ lockQ # <<>>
  /\ lockQ' = Append(lockQ, c)
  /\ pc' = [pc EXCEPT ![c] = "acquire"]
  /\ attempt' = [attempt EXCEPT ![c] = n]
  /\ UNCHANGED <<firstError, outcome, answer, queue, linkVars, wireVars, runs,
                 boundVars>>

\* The lock reaches c, which goes on without a second look at connected.
SendAfterLock(c) ==
  /\ pc[c] = "acquire"
  /\ lockQ # <<>>
  /\ Head(lockQ) = c
  /\ Transmit(c, attempt[c], lockQ)

\* Whatever response comes first is the answer: nothing compares it with the
\* command that waits.
Answered(c, frame) ==
  /\ Settle(c, "answered")
  /\ answer' = [answer EXCEPT ![c] = frame[1]]
  /\ Release
  /\ UNCHANGED <<attempt, firstError, linkVars, toRobot, orphans, runs,
                 boundVars>>

TakeFromQueue(c) ==
  /\ pc[c] = "awaitQueue"
  /\ queue # <<>>
  /\ Answered(c, Head(queue))
  /\ queue' = Tail(queue)
  /\ UNCHANGED fromRobot

\* _wait_for_field5_response, when no listener runs.
ReceiveDirectly(c) ==
  /\ pc[c] = "awaitRecv"
  /\ fromRobot # <<>>
  /\ Answered(c, Head(fromRobot))
  /\ fromRobot' = Tail(fromRobot)
  /\ UNCHANGED queue

GiveUp(c, error) ==
  /\ Raise(c, attempt[c], error, TRUE)
  /\ Release
  /\ UNCHANGED <<queue, linkVars, wireVars, runs, boundVars>>

\* COMMAND_RESPONSE_TIMEOUT passes without a response.
ResponseTimeout(c) ==
  /\ \/ pc[c] = "awaitQueue" /\ queue = <<>>
     \/ pc[c] = "awaitRecv"
  /\ GiveUp(c, "timeout")

\* Mutant: a connection lost while reading counts as a frame never sent.
ConnectionLost_AsUnsent(c) ==
  /\ pc[c] = "awaitRecv"
  /\ socket # "open"
  /\ fromRobot = <<>>
  /\ Raise(c, attempt[c], "sendFailed", FALSE)
  /\ Release
  /\ UNCHANGED <<queue, linkVars, wireVars, runs, boundVars>>

\* The socket closes under a direct reader.
ConnectionLost(c) ==
  /\ pc[c] = "awaitRecv"
  /\ socket # "open"
  /\ fromRobot = <<>>
  /\ GiveUp(c, "lost")

\* _await_connection sees the connection and wake(force=True) begins.
ConnectionBack(c) ==
  /\ pc[c] = "reconnect"
  /\ Connected
  /\ pc' = [pc EXCEPT ![c] = "waking"]
  /\ UNCHANGED <<attempt, firstError, outcome, answer, lockQ, queue, linkVars,
                 wireVars, runs, boundVars>>

\* COMMAND_RECONNECT_WAIT passes without a connection: raise first_error.
ReconnectTimeout(c) ==
  /\ pc[c] = "reconnect"
  /\ ~Connected
  /\ Settle(c, firstError[c])
  /\ UNCHANGED <<attempt, firstError, answer, lockQ, queue, linkVars, wireVars,
                 runs, boundVars>>

\* The query that ends a wake burst, when there is a socket to take it.
Burst ==
  \/ /\ Connected /\ socket = "open" /\ bursts < MaxBursts
     /\ toRobot' = Append(toRobot, <<Query, 0>>)
     /\ bursts' = bursts + 1
  \/ /\ ~(Connected /\ socket = "open" /\ bursts < MaxBursts)
     /\ UNCHANGED <<toRobot, bursts>>

\* The connection went again before wake() looked at it.
WakeRefused(c) ==
  /\ pc[c] = "waking"
  /\ ~Connected
  /\ Settle(c, "notConnected")
  /\ UNCHANGED <<attempt, firstError, answer, lockQ, queue, linkVars, wireVars,
                 runs, boundVars>>

\* The burst of wake(); its loop sends another one every 5 s until its time
\* is up.  Its result is ignored, so nothing else of it matters here.
WakeBurst(c) ==
  /\ \/ pc[c] = "waking" /\ Connected
     \/ pc[c] = "woken" /\ Connected /\ bursts < MaxBursts
  /\ pc' = [pc EXCEPT ![c] = "woken"]
  /\ Burst
  /\ UNCHANGED <<attempt, firstError, outcome, answer, lockQ, queue, linkVars,
                 fromRobot, orphans, runs, drops>>
-----------------------------------------------------------------------------
(***************************************************************************)
(* The listener loop and the keep-alive, as far as commands notice them.   *)
(* Module Connection has the loop itself.                                  *)
(***************************************************************************)

\* Mutant: a lost burst is kept among the commands the robot may still run.
Abandon_Bursts(frames) ==
  orphans' = orphans \cup {frames[i] : i \in DOMAIN frames}

\* Frames of a lost connection may still reach the robot.
Abandon(frames) ==
  orphans' = orphans \cup ({frames[i] : i \in DOMAIN frames} \ {<<Query, 0>>})

\* The iteration begins.  recv refuses a second reader, so a command that is
\* reading the socket itself makes the loop fail; so does a dead socket.
EnterReceiveLoop ==
  /\ loop \in {"off", "enter"}
  /\ OneByOne
  /\ Connected
  /\ \/ /\ socket = "open" /\ \A c \in Commands : pc[c] # "awaitRecv"
        /\ loop' = "recv"
        /\ UNCHANGED connected
     \/ /\ socket = "dead" \/ \E c \in Commands : pc[c] = "awaitRecv"
        /\ loop' = "backoff"
        /\ connected' = FALSE
  /\ UNCHANGED <<callVars, lockQ, queue, socket, wireVars, runs, boundVars>>

\* _handle_message puts a field5 response on the queue.
ListenerDelivers ==
  /\ ListenerActive
  /\ fromRobot # <<>>
  /\ queue' = Append(queue, Head(fromRobot))
  /\ fromRobot' = Tail(fromRobot)
  /\ UNCHANGED <<callVars, lockQ, linkVars, toRobot, orphans, runs, boundVars>>

\* The socket is closed: the peer, the ping timeout or the keep-alive.
\* Frames in flight may have arrived; buffered responses may be lost.
SocketDies ==
  /\ socket = "open" /\ drops < MaxDrops
  /\ socket' = "dead"
  /\ Abandon(toRobot)
  /\ toRobot' = <<>>
  /\ fromRobot' \in {fromRobot, <<>>}
  /\ drops' = drops + 1
  /\ UNCHANGED <<callVars, lockQ, queue, connected, loop, runs, bursts>>

\* The loop ends: ConnectionClosed once the buffer is empty, or an exception
\* from a message handler, which leaves the socket open.
ListenerEnds ==
  /\ loop = "recv"
  /\ \/ socket = "dead" /\ fromRobot = <<>> /\ UNCHANGED drops
     \/ socket = "open" /\ drops < MaxDrops /\ drops' = drops + 1
  /\ loop' = "backoff"
  /\ connected' = FALSE
  /\ UNCHANGED <<callVars, lockQ, queue, socket, wireVars, runs, bursts>>

\* connect() replaces the socket, whatever state the old one is in.
Reconnect ==
  /\ loop = "backoff"
  /\ loop' = "burst"
  /\ socket' = "open"
  /\ connected' = TRUE
  /\ Abandon(toRobot)
  /\ toRobot' = <<>>
  /\ fromRobot' = <<>>
  /\ UNCHANGED <<callVars, lockQ, queue, runs, boundVars>>

\* The wake burst on a fresh connection, before the iteration begins.
ReconnectBurst ==
  /\ loop = "burst"
  /\ loop' = "enter"
  /\ Burst
  /\ UNCHANGED <<callVars, lockQ, queue, socket, connected, fromRobot, orphans,
                 runs, drops>>

\* The keep-alive finds no broadcasts: a burst, outside the command lock.
KeepaliveBurst ==
  /\ ListenerActive /\ socket = "open" /\ Connected
  /\ bursts < MaxBursts
  /\ Burst
  /\ UNCHANGED <<callVars, lockQ, queue, linkVars, fromRobot, orphans, runs,
                 drops>>

\* disconnect(), up to the close handshake, and after it.
Disconnect ==
  /\ loop # "stopped"
  /\ loop' = "stopped"
  /\ connected' = FALSE
  /\ socket' = "dead"
  /\ Abandon(toRobot)
  /\ toRobot' = <<>>
  /\ fromRobot' = <<>>
  /\ UNCHANGED <<callVars, lockQ, queue, runs, boundVars>>

Disconnected ==
  /\ loop = "stopped" /\ socket = "dead"
  /\ socket' = "none"
  /\ UNCHANGED <<callVars, lockQ, queue, connected, loop, wireVars, runs,
                 boundVars>>
-----------------------------------------------------------------------------
(***************************************************************************)
(* The robot: in order, at its own pace, and not always answering.         *)
(***************************************************************************)

Execute(source) ==
  runs' = [c \in Commands |-> IF c = source THEN runs[c] + 1 ELSE runs[c]]

RobotExecutes ==
  /\ toRobot # <<>>
  /\ Execute(Head(toRobot)[1])
  /\ toRobot' = Tail(toRobot)
  /\ fromRobot' \in {fromRobot, Append(fromRobot, Head(toRobot))}
  /\ UNCHANGED <<callVars, lockQ, queue, linkVars, orphans, boundVars>>

RobotIgnores ==
  /\ toRobot # <<>>
  /\ toRobot' = Tail(toRobot)
  /\ UNCHANGED <<callVars, lockQ, queue, linkVars, fromRobot, orphans, runs,
                 boundVars>>

RobotExecutesOrphan ==
  \E f \in orphans :
    /\ Execute(f[1])
    /\ orphans' = orphans \ {f}
    /\ UNCHANGED <<callVars, lockQ, queue, linkVars, toRobot, fromRobot,
                   boundVars>>
-----------------------------------------------------------------------------
CallerStep(c) ==
  \/ \E n \in {1, 2} : \/ PreflightFails(c, n)
                       \/ SendAtOnce(c, n)
                       \/ WaitForLock(c, n)
  \/ SendAfterLock(c)
  \/ TakeFromQueue(c)
  \/ ReceiveDirectly(c)
  \/ ResponseTimeout(c)
  \/ ConnectionLost(c)
  \/ ConnectionBack(c)
  \/ ReconnectTimeout(c)
  \/ WakeRefused(c)
  \/ WakeBurst(c)

LinkStep ==
  \/ EnterReceiveLoop
  \/ ListenerDelivers
  \/ SocketDies
  \/ ListenerEnds
  \/ Reconnect
  \/ ReconnectBurst
  \/ KeepaliveBurst
  \/ Disconnect
  \/ Disconnected

RobotStep ==
  \/ RobotExecutes
  \/ RobotIgnores
  \/ RobotExecutesOrphan

Next == \/ \E c \in Commands : CallerStep(c)
        \/ LinkStep
        \/ RobotStep

Spec == Init /\ [][Next]_vars

\* asyncio runs every coroutine that is ready and every timer fires: a call
\* once begun takes its next step.  Nothing is asked of the network, of the
\* robot or of the listener.
FairSpec ==
  Spec /\ \A c \in Commands : WF_vars(CallerStep(c) /\ pc[c] # "idle")
-----------------------------------------------------------------------------
(***************************************************************************)
(* Properties                                                              *)
(***************************************************************************)

OnWire(c) == \/ \E i \in DOMAIN toRobot : toRobot[i][1] = c
             \/ \E f \in orphans : f[1] = c

\* The robot executes a command outside IDEMPOTENT_COMMANDS (the starts of a
\* clean) at most once, whatever the socket does between its two attempts:
\* the retry rule of send_command.
AtMostOnce == \A c \in Commands \ Idempotent : runs[c] <= 1

Refusals == {"notConnected", "sendFailed", "crashed"}

\* When such a command is refused (NarwalConnectionError, a transport error
\* whose frame_sent is False, or the AttributeError of a closed client) the
\* robot has not executed it and never will: the caller may offer it again.
RefusedNeverRuns ==
  \A c \in Commands \ Idempotent :
    outcome[c] \in Refusals => runs[c] = 0 /\ ~OnWire(c)

\* A response taken for the wrong command was already adrift: it answers a wake
\* burst, a command given up on, or a command that took someone else's answer.
\* In other words the lock and the drain keep undisturbed exchanges apart.
WrongAnswerIsStale ==
  \A c, b \in Commands :
    answer[c] = b /\ b # c =>
      \/ firstError[b] # "none"
      \/ outcome[b] \in Errors
      \/ answer[b] \notin {b, None}

\* Every call of send_command comes back: no path of the recovery leaves the
\* lock held or waits for something that has no deadline.
CallsComeBack == \A c \in Commands : pc[c] # "idle" ~> pc[c] = "done"

\* What the comments on the wake burst say: the response to its query "is
\* harmlessly drained by send_command() before real commands".
WakeAnswersAreDrained == \A c \in Commands : answer[c] # Query

\* The contract of a command as its callers see it.
Contract == INSTANCE CommandContract WITH Calls <- Commands,
                                          Once <- Commands \ Idempotent

\* The command path keeps that contract.
KeepsContract == Contract!Spec
=============================================================================
