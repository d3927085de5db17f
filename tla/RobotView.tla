------------------------------ MODULE RobotView ------------------------------
(***************************************************************************)
(* What Home Assistant shows of a robot that works, docks, sleeps and gets *)
(* a new firmware: broadcasts and answers to get_status are applied to one *)
(* NarwalState, broadcasts may be lost, an answer may come from what the   *)
(* firmware remembers of the last time it was active, and the coordinator  *)
(* looks for the beginning of a cleaning session in whatever the state is  *)
(* when any broadcast arrives.                                             *)
(*                                                                         *)
(* What the robot does and which messages it then sends is external: the   *)
(* shapes are those the comments of models.py and the tests record from    *)
(* live captures.                                                          *)
(***************************************************************************)
EXTENDS RobotState, Sequences

CONSTANTS Firmwares,   \* generations of firmware, a subset of {"old", "new"}
          MaxClears    \* a bound on the counted clearings

ASSUME ViewAssumption ==
  /\ Firmwares \subseteq {"old", "new"} /\ Firmwares # {}
  /\ MaxClears \in Nat \ {0}

VARIABLES
  fw,       \* the robot's firmware
  doing,    \* what the robot does
  st,       \* NarwalState, without the fields of the other modules
  session,  \* _was_cleaning_session
  said,     \* history: what the robot did when the state was last set from the
            \* robot itself; "nothing" before, "cache" after a remembered answer
  off,      \* history: that message had both indicators off the dock
  heard,    \* history: the firmwares st has heard messages of
  clears,   \* history: clearings of the trail since the task began
  misled    \* history: st has held a remembered answer since the task began

robot == <<fw, doing>>
vars == <<robot, st, session, said, off, heard, clears, misled>>

OnDock == {"docked", "washing"}
Tasks == {"cleaning", "paused", "returning"}
Doings == OnDock \cup Tasks \cup {"standing", "completed"}
-----------------------------------------------------------------------------
\* Field 3 of what the robot sends, and the indicators of its firmware.
Plain(w) ==
  [f3 |-> TRUE, ws |-> w, paused |-> Absent, returning |-> Absent,
   sub |-> Absent, act |-> Absent, f11 |-> Absent, f47 |-> Absent]

\* The same from a robot on the dock and from one away from it.
AtDock(w, f) ==
  IF f = "old" THEN [Plain(w) EXCEPT !.f11 = 2, !.f47 = 3]
               ELSE [Plain(w) EXCEPT !.f11 = 3, !.f47 = 1]

Away(w) == [Plain(w) EXCEPT !.f11 = 1, !.f47 = 2]

OldDockMessages(f) ==
  {[AtDock(w, f) EXCEPT !.sub = b, !.act = a] :
     w \in {DOCKED, CHARGED, STANDBY}, b \in {Absent, 1}, a \in {Absent, 2}}

NewDockMessages(f) == {AtDock(DOCKED_V2, f)}

\* The pause overlay may be stale on the dock (vacuum.py:162).
DockShapes(f) ==
  {[m EXCEPT !.paused = p] : p \in {Absent, 1},
     m \in IF f = "old" THEN OldDockMessages(f) ELSE NewDockMessages(f)}

CleanStatuses(f) == IF f = "old" THEN {CLEANING, CLEANING_ALT} ELSE {CLEANING, DOCKED_V2}

\* Old firmware may send a stale 7 = 1 (models.py:923), new firmware uses 7 for
\* something else, and may have a status the enumeration lacks (MaxCode).
UnpausedStatuses(f) == CleanStatuses(f) \cup {MaxCode}
FlagsSent(f) == IF f = "old" THEN {Absent, 1} ELSE {Absent, 7}

CleaningShapes(f) ==
  {[Away(w) EXCEPT !.returning = r] :
     w \in UnpausedStatuses(f), r \in FlagsSent(f)}

Shapes(f, d) ==
  CASE d = "docked"    -> DockShapes(f)
    [] d = "washing"   -> {AtDock(MOP_WASHING, f)}
    [] d = "cleaning"  -> CleaningShapes(f)
    [] d = "paused"    -> {[Away(w) EXCEPT !.paused = 1] :
                             w \in CleanStatuses(f)}
    [] d = "returning" -> IF f = "old"
                            THEN {[Away(CLEANING) EXCEPT
                                     !.returning = 1, !.sub = 2]}
                            ELSE {[Away(w) EXCEPT !.returning = 7] :
                                    w \in CleanStatuses(f)}
    [] d = "standing"  -> {Away(STANDBY)}
    [] d = "completed" -> {Away(TASK_COMPLETED)}
-----------------------------------------------------------------------------
TypeOK ==
  /\ fw \in Firmwares /\ doing \in Doings
  /\ st \in NarwalState
  /\ session \in BOOLEAN /\ misled \in BOOLEAN /\ off \in BOOLEAN
  /\ said \in Doings \cup {"nothing", "cache"}
  /\ heard \subseteq Firmwares
  /\ clears \in 0..MaxClears

Init ==
  /\ fw \in Firmwares /\ doing \in Doings
  /\ st = NewState /\ session = FALSE
  /\ said = "nothing" /\ off = FALSE /\ heard = {}
  /\ clears = 0 /\ misled = FALSE
-----------------------------------------------------------------------------
\* What the robot may do next.
Leads ==
  [d \in Doings |->
     CASE d = "docked"    -> {"cleaning", "washing", "standing"}
       [] d = "washing"   -> {"docked"}
       [] d = "cleaning"  -> {"paused", "returning", "standing", "completed"}
       [] d = "paused"    -> {"cleaning", "returning", "standing"}
       [] d = "returning" -> {"docked", "paused", "standing"}
       [] d = "standing"  -> {"cleaning", "returning", "docked"}
       [] d = "completed" -> {"docked"}]

\* A task begins when the robot starts to clean from the dock or from where it
\* stands; the one that is sent home is part of a task only if it was on one.
Moves ==
  /\ doing' \in Leads[doing]
  /\ IF doing \notin Tasks /\ doing' \in Tasks
       THEN clears' = 0 /\ misled' = (said = "cache")
       ELSE UNCHANGED <<clears, misled>>
  /\ UNCHANGED <<fw, st, session, said, off, heard>>

\* The robot is updated while it is on the dock.
Upgraded ==
  /\ fw = "old" /\ "new" \in Firmwares /\ doing = "docked"
  /\ fw' = "new"
  /\ UNCHANGED <<doing, st, session, said, off, heard, clears, misled>>
-----------------------------------------------------------------------------
\* Mutant: a status that is not known ends a session as any other would.
UpdateTrail_Transient(s) ==
  /\ session' = IsCleaningSession(s)
  /\ clears' = IF ~session /\ IsCleaningSession(s) /\ clears < MaxClears
                 THEN clears + 1 ELSE clears

\* The beginning of _update_trail: a session that begins clears the trail, and
\* a status that is not known says nothing about it.
UpdateTrail(s) ==
  IF s.working_status = UNKNOWN
    THEN UNCHANGED <<session, clears>>
    ELSE /\ session' = IsCleaningSession(s)
         /\ clears' = IF ~session /\ IsCleaningSession(s) /\ clears < MaxClears
                        THEN clears + 1 ELSE clears

\* The robot's own word becomes the state.
Told(m) ==
  /\ st' = UpdateFromBaseStatus(st, m)
  /\ said' = doing
  /\ off' = (m.f11 = 1 /\ m.f47 = 2)
  /\ heard' = heard \cup {fw}

\* A broadcast of robot_base_status arrives.
Broadcast ==
  /\ \E m \in Shapes(fw, doing) : Told(m)
  /\ UpdateTrail(st')
  /\ UNCHANGED <<robot, misled>>

\* A broadcast of another topic runs the same callback, with the state as it is.
OtherBroadcast ==
  /\ UpdateTrail(st)
  /\ UNCHANGED <<robot, st, said, off, heard, misled>>

\* get_status(full_update=True): of an awake robot what a broadcast would say.
Poll ==
  /\ \E m \in Shapes(fw, doing) : Told(m)
  /\ UNCHANGED <<robot, session, clears, misled>>

\* A robot that sleeps on the dock leaves the indicators out, and answers with
\* the status it had when it was last active.
PollRemembered ==
  /\ doing = "docked"
  /\ \E d \in Tasks \cup {"docked"} : \E m \in Shapes(fw, d) :
       st' = UpdateFromBaseStatus(st, [m EXCEPT !.f11 = Absent, !.f47 = Absent])
  /\ said' = "cache" /\ off' = FALSE /\ heard' = heard \cup {fw}
  /\ misled' = TRUE
  /\ UNCHANGED <<robot, session, clears>>

\* The integration is loaded again.
Restart ==
  /\ st' = NewState /\ session' = FALSE
  /\ said' = "nothing" /\ off' = FALSE /\ heard' = {}
  /\ clears' = 0
  /\ UNCHANGED <<robot, misled>>

Next ==
  \/ Moves \/ Upgraded
  \/ Broadcast \/ OtherBroadcast \/ Poll \/ PollRemembered \/ Restart

Spec == Init /\ [][Next]_vars
-----------------------------------------------------------------------------
\* What a robot on a firmware with truthful indicators is shown as, whatever was
\* lost before, and whatever the order of broadcasts and answers: what it said
\* it does.  (On its way home it is shown as cleaning: the firmware uses 3.7 for
\* something else.)
Shown ==
  [d \in Doings |->
     CASE d \in OnDock      -> {"docked"}
       [] d = "cleaning"    -> {"cleaning"}
       [] d = "paused"      -> {"paused"}
       [] d = "returning"   -> {"cleaning", "returning"}
       [] d = "standing"    -> {"idle"}
       [] d = "completed"   -> {"returning"}]

ShowsWhatItSaid ==
  said \in Doings /\ heard \subseteq {"new"} => Activity(st) \in Shown[said]

\* The vacuum and the docked sensor never contradict each other, and a session
\* is shown as one.
EntitiesAgree ==
  /\ (Activity(st) = "docked") = IsDocked(st)
  /\ IsCleaningSession(st) => Activity(st) \in {"cleaning", "paused", "returning"}

\* A pause is told apart from a task that runs, on every firmware: the start
\* button resumes exactly a task the robot said is paused.
ResumesWhatIsPaused ==
  said \in Doings => ((Activity(st) = "paused") = (said = "paused"))

\* The map of a task is not wiped while it goes on: its trail is cleared at most
\* once, at its beginning, unless an answer from the robot's memory came between.
OneClearPerTask == clears <= 1 \/ misled

\* An explicit off-dock reading of both indicators is believed.
OffDockIsBelieved == off => ~IsDocked(st)
=============================================================================
