--------------------------- MODULE CommandContract ---------------------------
(***************************************************************************)
(* What send_command promises its callers, whatever happens to sockets,    *)
(* queues and locks below it: how often the robot executes a call, and     *)
(* what the way the call ended says about that.                            *)
(***************************************************************************)
EXTENDS Naturals

CONSTANTS Calls,  \* calls of send_command
          Once    \* those the robot must not execute twice

VARIABLES outcome,  \* "open", "answered" or the error the call raised
          runs      \* how often the robot has executed the call

\* Errors that say the command never left: the robot will not execute it.
Refused == {"notConnected", "sendFailed", "crashed"}

\* Ways a call can end with the robot having executed it or not.
Undecided == {"answered", "lost", "timeout"}

Limit(c) == IF c \in Once THEN 1 ELSE 2

Init == /\ outcome = [c \in Calls |-> "open"]
        /\ runs = [c \in Calls |-> 0]

\* The robot executes c, possibly after the call has come back.
Run(c) == /\ runs[c] < Limit(c)
          /\ c \in Once => outcome[c] \notin Refused
          /\ runs' = [runs EXCEPT ![c] = @ + 1]
          /\ UNCHANGED outcome

\* The call comes back, once.
Finish(c, result) == /\ outcome[c] = "open"
                     /\ c \in Once /\ result \in Refused => runs[c] = 0
                     /\ outcome' = [outcome EXCEPT ![c] = result]
                     /\ UNCHANGED runs

Next == \E c \in Calls : \/ Run(c)
                         \/ \E r \in Refused \cup Undecided : Finish(c, r)

Spec == Init /\ [][Next]_<<outcome, runs>>
=============================================================================
