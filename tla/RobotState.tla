------------------------------ MODULE RobotState ------------------------------
(***************************************************************************)
(* What NarwalState makes of a robot_base_status message, and what is      *)
(* derived from it.  A message leaves out what is zero, what a firmware    *)
(* does not have and, from a sleeping robot, the dock indicators; some     *)
(* fields of the state are then kept, others are reset.                    *)
(*                                                                         *)
(* A message is a record of the sub-fields the state is made of:           *)
(*   f3              field 3 is there, as a message or a list of them      *)
(*   ws, paused, returning, sub, act     3.1, 3.2, 3.7, 3.10, 3.12         *)
(*   f11, f47                            the dock indicators               *)
(* The battery, the version, the faults and the markers of the dock's own  *)
(* work are left out: nothing here is derived from them.                   *)
(***************************************************************************)
EXTENDS Integers

CONSTANTS MaxCode    \* a bound on the codes of a message; not a status itself

ASSUME CodeAssumption == MaxCode \in Nat /\ MaxCode > 19 /\ MaxCode # 99

Absent == -1
Codes == 0..MaxCode
Optional == Codes \cup {Absent}

\* WorkingStatus: the values the code knows.
UNKNOWN == 0
STANDBY == 1
DOCKED_V2 == 2
MOP_WASHING == 3
CLEANING == 4
CLEANING_ALT == 5
DOCKED == 10
CHARGED == 14
TASK_COMPLETED == 19
ERROR == 99

WorkingStatus == {UNKNOWN, STANDBY, DOCKED_V2, MOP_WASHING, CLEANING,
                  CLEANING_ALT, DOCKED, CHARGED, TASK_COMPLETED, ERROR}

Message ==
  [f3 : BOOLEAN, ws : Optional, paused : Optional, returning : Optional,
   sub : Optional, act : Optional, f11 : Optional, f47 : Optional]

NarwalState ==
  [working_status : WorkingStatus, is_paused : BOOLEAN,
   is_returning_to_dock : BOOLEAN, dock_sub_state : Codes, dock_activity : Codes,
   dock_field11 : Codes, dock_field47 : Codes]

NewState ==
  [working_status |-> UNKNOWN, is_paused |-> FALSE,
   is_returning_to_dock |-> FALSE, dock_sub_state |-> 0, dock_activity |-> 0,
   dock_field11 |-> 0, dock_field47 |-> 0]
-----------------------------------------------------------------------------
\* A field that keeps its value while messages leave it out.
Kept(old, new) == IF new = Absent THEN old ELSE new

\* Mutant: the value is taken as it comes.
Status_AsSent(s, m) == IF m.ws = Absent THEN s.working_status ELSE m.ws

\* A value outside the enumeration is UNKNOWN.
Status(s, m) ==
  IF m.ws = Absent THEN s.working_status
  ELSE IF m.ws \in WorkingStatus THEN m.ws ELSE UNKNOWN

\* Mutant: the pause is kept while messages leave it out.
Field3_PauseKept(s, m) ==
  [s EXCEPT !.working_status = Status(s, m),
            !.is_paused = IF m.paused = Absent THEN s.is_paused ELSE m.paused # 0,
            !.is_returning_to_dock = (m.returning = 1),
            !.dock_sub_state = Kept(s.dock_sub_state, m.sub),
            !.dock_activity = Kept(s.dock_activity, m.act)]

\* Field 3: paused and returning are those of this message, the status and the
\* dock fields are kept while absent.
Field3(s, m) ==
  [s EXCEPT !.working_status = Status(s, m),
            !.is_paused = m.paused \notin {Absent, 0},
            !.is_returning_to_dock = (m.returning = 1),
            !.dock_sub_state = Kept(s.dock_sub_state, m.sub),
            !.dock_activity = Kept(s.dock_activity, m.act)]

UpdateFromBaseStatus(s, m) ==
  [(IF m.f3 THEN Field3(s, m) ELSE s) EXCEPT
     !.dock_field11 = Kept(s.dock_field11, m.f11),
     !.dock_field47 = Kept(s.dock_field47, m.f47)]
-----------------------------------------------------------------------------
InCleaning(s) == s.working_status \in {CLEANING, CLEANING_ALT}

\* Both indicators say off the dock.
OffDock(s) == s.dock_field11 = 1 /\ s.dock_field47 = 2

\* Any dock signal of any firmware.
DockSignal(s) ==
  \/ s.dock_sub_state = 1 \/ s.dock_activity > 0
  \/ s.dock_field11 >= 2 \/ s.dock_field47 \in {1, 3}

\* Mutant: a status of the dock is never vetoed.
IsDocked_NoVeto(s) ==
  IF s.working_status \in {DOCKED, CHARGED, DOCKED_V2, MOP_WASHING}
    THEN TRUE
    ELSE ~InCleaning(s) /\ DockSignal(s)

IsDocked(s) ==
  IF s.working_status \in {DOCKED, CHARGED, DOCKED_V2, MOP_WASHING}
    THEN ~OffDock(s)
    ELSE ~InCleaning(s) /\ DockSignal(s)

IsReturning(s) ==
  InCleaning(s) /\ s.is_returning_to_dock /\ s.dock_sub_state = 2

IsCleaning(s) == InCleaning(s) /\ ~s.is_paused /\ ~s.is_returning_to_dock

IsCleaningSession(s) ==
  InCleaning(s) \/ (s.working_status = DOCKED_V2 /\ ~IsDocked(s))
-----------------------------------------------------------------------------
\* WORKING_STATUS_TO_ACTIVITY
StatusActivity ==
  [w \in WorkingStatus \ {UNKNOWN, MOP_WASHING} |->
     CASE w \in {DOCKED, CHARGED, DOCKED_V2} -> "docked"
       [] w \in {CLEANING, CLEANING_ALT}     -> "cleaning"
       [] w = STANDBY                        -> "idle"
       [] w = TASK_COMPLETED                 -> "returning"
       [] w = ERROR                          -> "error"]

\* What is left when no flag decides: a status of the dock that was vetoed, or
\* one that is not in the table, is a robot at work off the dock.
OtherActivity(s) ==
  IF s.working_status \notin DOMAIN StatusActivity THEN "cleaning"
  ELSE IF StatusActivity[s.working_status] = "docked" THEN "cleaning"
  ELSE StatusActivity[s.working_status]

\* Mutant: a pause is believed on the dock as well.
Activity_PauseAnywhere(s) ==
  IF s.is_paused               THEN "paused"
  ELSE IF IsReturning(s)       THEN "returning"
  ELSE IF IsCleaning(s)        THEN "cleaning"
  ELSE IF IsDocked(s)          THEN "docked"
  ELSE OtherActivity(s)

\* The activity of the vacuum entity.
Activity(s) ==
  IF s.is_paused /\ IsCleaningSession(s) THEN "paused"
  ELSE IF IsReturning(s)                 THEN "returning"
  ELSE IF IsCleaning(s)                  THEN "cleaning"
  ELSE IF IsDocked(s)                    THEN "docked"
  ELSE OtherActivity(s)
=============================================================================
