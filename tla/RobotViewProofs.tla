--------------------------- MODULE RobotViewProofs ---------------------------
(***************************************************************************)
(* Proofs of the invariants of RobotView, for every set of firmwares and   *)
(* every bound.  What a message of the robot makes of the state is stated  *)
(* once (ToldLemma); the invariants follow from it action by action.       *)
(***************************************************************************)
EXTENDS RobotView, TLAPS

USE DEF UNKNOWN, STANDBY, DOCKED_V2, MOP_WASHING, CLEANING, CLEANING_ALT, DOCKED,
  CHARGED, TASK_COMPLETED, ERROR

\* What the proofs need of a message that is sent while the robot does d.
Fits(m, d) ==
  /\ m \in Message /\ m.f3 = TRUE
  /\ d \in OnDock => /\ m.ws \in {DOCKED, CHARGED, STANDBY, DOCKED_V2, MOP_WASHING}
                     /\ m.f11 \in {2, 3}
  /\ d \in Tasks => m.ws \in {CLEANING, CLEANING_ALT, DOCKED_V2, MaxCode}
  /\ d \in {"standing", "completed"} => m.ws \in {STANDBY, TASK_COMPLETED}
  /\ d \notin OnDock => /\ m.f11 = 1 /\ m.f47 = 2
                        /\ m.paused = IF d = "paused" THEN 1 ELSE Absent
  /\ d = "paused" => m.ws # MaxCode

\* The codes of the robot's messages are in the bound.
LEMMA CodesFit ==
  /\ Absent \in Optional /\ MaxCode \in Optional
  /\ {0, 1, 2, 3, 4, 5, 7, 10, 14, 19} \subseteq Optional
BY CodeAssumption DEF CodeAssumption, Optional, Codes, Absent

\* A message with one status and nothing else but the indicators.
LEMMA PlainFields ==
  ASSUME NEW w \in Optional
  PROVE  /\ Plain(w) \in Message /\ Plain(w).f3 = TRUE
         /\ Plain(w).ws = w /\ Plain(w).paused = Absent
BY CodesFit DEF Plain, Message

LEMMA AwayFields ==
  ASSUME NEW w \in Optional
  PROVE  LET m == Away(w) IN
         /\ m \in Message /\ m.f3 = TRUE /\ m.ws = w /\ m.paused = Absent
         /\ m.f11 = 1 /\ m.f47 = 2
<1>1. Plain(w) \in Message /\ Plain(w).f3 = TRUE /\ Plain(w).ws = w /\ Plain(w).paused = Absent
  BY PlainFields
<1>2. 1 \in Optional /\ 2 \in Optional
  BY CodesFit
<1> QED BY <1>1, <1>2 DEF Message, Away

LEMMA AtDockFields ==
  ASSUME NEW w \in Optional, NEW f
  PROVE  LET m == AtDock(w, f) IN
         m \in Message /\ m.f3 = TRUE /\ m.ws = w /\ m.f11 \in {2, 3}
<1>1. Plain(w) \in Message /\ Plain(w).f3 = TRUE /\ Plain(w).ws = w
  BY PlainFields
<1>2. {1, 2, 3, 4, 5, 7, 10} \subseteq Optional
  BY CodesFit
<1>3. CASE f = "old"
  BY <1>1, <1>2, <1>3 DEF Message, AtDock
<1>4. CASE f # "old"
  BY <1>1, <1>2, <1>4 DEF Message, AtDock
<1> QED BY <1>3, <1>4

\* Every message the robot may send while it does d fits.
LEMMA ShapesFit ==
  ASSUME NEW f \in Firmwares, NEW d \in Doings, NEW m \in Shapes(f, d)
  PROVE  Fits(m, d)
<1>0. {DOCKED, CHARGED, STANDBY, DOCKED_V2, MOP_WASHING, CLEANING, CLEANING_ALT,
       TASK_COMPLETED, MaxCode} \subseteq Optional
  BY CodesFit
<1>1. CASE d = "docked"
  <2>1. m \in DockShapes(f)
    BY <1>1 DEF Shapes
  <2>2. PICK p \in {Absent, 1},
             l \in IF f = "old" THEN OldDockMessages(f) ELSE NewDockMessages(f) :
          m = [l EXCEPT !.paused = p]
    BY <2>1 DEF DockShapes
  <2>3. l \in Message /\ l.f3 = TRUE /\ l.f11 \in {2, 3}
        /\ l.ws \in {DOCKED, CHARGED, STANDBY, DOCKED_V2}
    <3>1. CASE l \in OldDockMessages(f)
      <4>1. PICK w \in {DOCKED, CHARGED, STANDBY}, b \in {Absent, 1}, a \in {Absent, 2} :
              l = [AtDock(w, f) EXCEPT !.sub = b, !.act = a]
        BY <3>1 DEF OldDockMessages
      <4>2. b \in Optional /\ a \in Optional
        BY CodesFit
      <4> DEFINE k == AtDock(w, f)
      <4>3. k \in Message /\ k.f3 = TRUE /\ k.ws = w /\ k.f11 \in {2, 3}
        BY <1>0, AtDockFields
      <4>4. l = [k EXCEPT !.sub = b, !.act = a]
        BY <4>1
      <4> HIDE DEF k
      <4> QED BY <4>2, <4>3, <4>4 DEF Message
    <3>2. CASE l \in NewDockMessages(f)
      <4>1. l = AtDock(DOCKED_V2, f)
        BY <3>2 DEF NewDockMessages
      <4> QED BY <1>0, <4>1, AtDockFields
    <3> QED BY <2>2, <3>1, <3>2
  <2>4. m \in Message /\ m.f3 = TRUE /\ m.ws = l.ws /\ m.f11 = l.f11
    BY <2>2, <2>3, CodesFit DEF Message
  <2> QED BY <1>1, <2>3, <2>4 DEF Fits, OnDock, Tasks
<1>2. CASE d = "cleaning"
  <2>1. m \in CleaningShapes(f)
    BY <1>2 DEF Shapes
  <2>2. PICK w \in UnpausedStatuses(f), r \in FlagsSent(f) : m = [Away(w) EXCEPT !.returning = r]
    BY <2>1 DEF CleaningShapes
  <2>3. /\ w \in {CLEANING, CLEANING_ALT, DOCKED_V2, MaxCode}
        /\ w \in Optional /\ r \in Optional
    BY CodesFit DEF UnpausedStatuses, CleanStatuses, FlagsSent
  <2> DEFINE l == Away(w)
  <2>4. /\ l \in Message /\ l.f3 = TRUE /\ l.ws = w /\ l.paused = Absent
        /\ l.f11 = 1 /\ l.f47 = 2
    BY <1>0, <2>3, AwayFields
  <2>5. m = [l EXCEPT !.returning = r]
    BY <2>2
  <2> HIDE DEF l
  <2>6. /\ m \in Message /\ m.f3 = TRUE /\ m.ws = w /\ m.paused = Absent
        /\ m.f11 = 1 /\ m.f47 = 2
    BY <2>3, <2>4, <2>5 DEF Message
  <2> QED BY <1>2, <2>3, <2>6 DEF Fits, OnDock, Tasks
<1>3. CASE d = "paused"
  <2>1. PICK w \in CleanStatuses(f) : m = [Away(w) EXCEPT !.paused = 1]
    BY <1>3 DEF Shapes
  <2>2. w \in {CLEANING, CLEANING_ALT, DOCKED_V2} /\ 1 \in Optional /\ w # MaxCode
    BY CodesFit, CodeAssumption DEF CleanStatuses, CodeAssumption
  <2> DEFINE l == Away(w)
  <2>3. l \in Message /\ l.f3 = TRUE /\ l.ws = w /\ l.f11 = 1 /\ l.f47 = 2
    BY <1>0, <2>2, AwayFields
  <2>4. m = [l EXCEPT !.paused = 1]
    BY <2>1
  <2> HIDE DEF l
  <2>5. /\ m \in Message /\ m.f3 = TRUE /\ m.ws = w /\ m.paused = 1
        /\ m.f11 = 1 /\ m.f47 = 2
    BY <2>2, <2>3, <2>4 DEF Message
  <2> QED BY <1>3, <2>2, <2>5 DEF Fits, OnDock, Tasks
<1>4. CASE d = "returning"
  <2>1. PICK w \in {CLEANING, CLEANING_ALT, DOCKED_V2} :
          \/ m = [Away(w) EXCEPT !.returning = 1, !.sub = 2]
          \/ m = [Away(w) EXCEPT !.returning = 7]
    BY <1>4 DEF Shapes, CleanStatuses
  <2> DEFINE l == Away(w)
  <2>2. /\ l \in Message /\ l.f3 = TRUE /\ l.ws = w /\ l.paused = Absent
        /\ l.f11 = 1 /\ l.f47 = 2
    BY <1>0, AwayFields
  <2>3. m = [l EXCEPT !.returning = 1, !.sub = 2] \/ m = [l EXCEPT !.returning = 7]
    BY <2>1
  <2> HIDE DEF l
  <2>4. /\ m \in Message /\ m.f3 = TRUE /\ m.ws = w /\ m.paused = Absent
        /\ m.f11 = 1 /\ m.f47 = 2
    BY <2>2, <2>3, CodesFit DEF Message
  <2> QED BY <1>4, <2>4 DEF Fits, OnDock, Tasks
<1>5. CASE d = "washing"
  <2>1. m = AtDock(MOP_WASHING, f)
    BY <1>5 DEF Shapes
  <2> QED BY <1>0, <1>5, <2>1, AtDockFields DEF Fits, OnDock, Tasks
<1>6. CASE d \in {"standing", "completed"}
  <2>1. m = Away(IF d = "standing" THEN STANDBY ELSE TASK_COMPLETED)
    BY <1>6 DEF Shapes
  <2>2. /\ m \in Message /\ m.f3 = TRUE /\ m.ws \in {STANDBY, TASK_COMPLETED}
        /\ m.paused = Absent /\ m.f11 = 1 /\ m.f47 = 2
    BY <1>0, <2>1, AwayFields
  <2> QED BY <1>6, <2>2 DEF Fits, OnDock, Tasks
<1> QED BY <1>1, <1>2, <1>3, <1>4, <1>5, <1>6 DEF Doings, OnDock, Tasks
-----------------------------------------------------------------------------
\* A message makes a state of a state.
LEMMA UpdateType ==
  ASSUME NEW s \in NarwalState, NEW m \in Message
  PROVE  UpdateFromBaseStatus(s, m) \in NarwalState
<1> DEFINE u == IF m.f3 THEN Field3(s, m) ELSE s
<1>1. Status(s, m) \in WorkingStatus
  BY DEF Status, NarwalState, WorkingStatus
<1>2. \A c \in Codes, o \in Optional : Kept(c, o) \in Codes
  BY DEF Kept, Optional
<1>3. u \in NarwalState
  BY <1>1, <1>2 DEF Field3, NarwalState, Message
<1>4. UpdateFromBaseStatus(s, m) =
        [u EXCEPT !.dock_field11 = Kept(s.dock_field11, m.f11),
                  !.dock_field47 = Kept(s.dock_field47, m.f47)]
  BY DEF UpdateFromBaseStatus
<1> HIDE DEF u
<1>5. /\ s.dock_field11 \in Codes /\ s.dock_field47 \in Codes
      /\ m.f11 \in Optional /\ m.f47 \in Optional
  BY DEF NarwalState, Message
<1>6. Kept(s.dock_field11, m.f11) \in Codes /\ Kept(s.dock_field47, m.f47) \in Codes
  BY <1>2, <1>5
<1> QED BY <1>3, <1>4, <1>6 DEF NarwalState

\* What a message of the robot itself makes of any state.
LEMMA ToldLemma ==
  ASSUME NEW s \in NarwalState, NEW d \in Doings, NEW m, Fits(m, d),
         NEW t, t = UpdateFromBaseStatus(s, m)
  PROVE  /\ t \in NarwalState
         /\ (Activity(t) = "paused") = (d = "paused")
         /\ IF d \in Tasks THEN IsCleaningSession(t) \/ t.working_status = UNKNOWN
                           ELSE ~IsCleaningSession(t)
<1>1. m \in Message /\ m.f3
  BY DEF Fits
<1>2. t \in NarwalState
  BY <1>1, UpdateType
<1>3. m.ws \in Codes /\ m.ws # Absent
  BY CodeAssumption DEF Fits, Doings, OnDock, Tasks, CodeAssumption, Codes, Absent
<1>4. t.working_status = IF m.ws \in WorkingStatus THEN m.ws ELSE UNKNOWN
  BY <1>1, <1>3 DEF UpdateFromBaseStatus, Field3, Status, NarwalState
<1>5. t.is_paused = (m.paused \notin {Absent, 0})
  BY <1>1 DEF UpdateFromBaseStatus, Field3, NarwalState
<1>6. /\ t.dock_field11 = Kept(s.dock_field11, m.f11)
      /\ t.dock_field47 = Kept(s.dock_field47, m.f47)
  BY <1>1 DEF UpdateFromBaseStatus, Field3, NarwalState
<1>7. CASE d \in OnDock
  <2>1. t.working_status \in {DOCKED, CHARGED, STANDBY, DOCKED_V2, MOP_WASHING}
    BY <1>4, <1>7 DEF Fits, WorkingStatus
  <2>2. t.dock_field11 \in {2, 3}
    BY <1>6, <1>7 DEF Fits, Kept, Absent
  <2>3. ~IsCleaningSession(t)
    BY <2>1, <2>2 DEF IsCleaningSession, InCleaning, IsDocked, OffDock
  <2>4. Activity(t) # "paused"
    BY <2>1, <2>3 DEF Activity, OtherActivity, StatusActivity, WorkingStatus
  <2> QED BY <1>2, <1>7, <2>3, <2>4 DEF OnDock, Tasks
<1>8. CASE d \in Tasks
  <2>1. t.dock_field11 = 1 /\ t.dock_field47 = 2
    BY <1>6, <1>8 DEF Fits, Kept, Absent, OnDock, Tasks
  <2>2. MaxCode \notin WorkingStatus
    BY CodeAssumption DEF CodeAssumption, WorkingStatus
  <2>3. t.working_status \in {CLEANING, CLEANING_ALT, DOCKED_V2, UNKNOWN}
    BY <1>4, <1>8, <2>2 DEF Fits, WorkingStatus
  <2>4. IsCleaningSession(t) \/ t.working_status = UNKNOWN
    BY <2>1, <2>3 DEF IsCleaningSession, InCleaning, IsDocked, OffDock
  <2>5. t.is_paused = (d = "paused")
    BY <1>5, <1>8 DEF Fits, OnDock, Tasks, Absent
  <2>6. CASE d = "paused"
    <3>1. t.working_status # UNKNOWN
      BY <1>4, <2>2, <2>6 DEF Fits, WorkingStatus, Tasks
    <3> QED BY <1>2, <1>8, <2>4, <2>5, <2>6, <3>1 DEF Activity
  <2>7. CASE d # "paused"
    <3>1. Activity(t) # "paused"
      BY <2>3, <2>5, <2>7 DEF Activity, OtherActivity, StatusActivity, WorkingStatus
    <3> QED BY <1>2, <1>8, <2>4, <2>7, <3>1
  <2> QED BY <2>6, <2>7
<1>9. CASE d \in {"standing", "completed"}
  <2>1. t.working_status \in {STANDBY, TASK_COMPLETED}
    BY <1>4, <1>9 DEF Fits, WorkingStatus
  <2>2. ~IsCleaningSession(t)
    BY <2>1 DEF IsCleaningSession, InCleaning
  <2>3. Activity(t) # "paused"
    BY <2>1, <2>2 DEF Activity, OtherActivity, StatusActivity, WorkingStatus
  <2> QED BY <1>2, <1>9, <2>2, <2>3 DEF Tasks
<1> QED BY <1>7, <1>8, <1>9 DEF Doings

\* The vacuum and the docked sensor agree on every state there is.
LEMMA AgreeLemma ==
  ASSUME NEW s \in NarwalState
  PROVE  /\ (Activity(s) = "docked") = IsDocked(s)
         /\ IsCleaningSession(s) => Activity(s) \in {"cleaning", "paused", "returning"}
<1>1. s.working_status \in WorkingStatus
  BY DEF NarwalState
<1> QED BY <1>1 DEF Activity, OtherActivity, StatusActivity, WorkingStatus, IsDocked,
       IsCleaningSession, IsReturning, IsCleaning, InCleaning, OffDock, DockSignal
-----------------------------------------------------------------------------
\* The states do not depend on Leads: every doing is one of Doings.
LEMMA LeadsType == \A d \in Doings : Leads[d] \subseteq Doings
BY DEF Leads, Doings, OnDock, Tasks

\* A remembered answer is a message as well.
LEMMA RememberedType ==
  ASSUME NEW f \in Firmwares, NEW d \in Doings, NEW m \in Shapes(f, d)
  PROVE  [m EXCEPT !.f11 = Absent, !.f47 = Absent] \in Message
<1>1. m \in Message
  BY ShapesFit DEF Fits
<1> QED BY <1>1, CodesFit DEF Message

LEMMA NewStateType == NewState \in NarwalState
BY CodesFit, CodeAssumption DEF NewState, NarwalState, WorkingStatus, Codes, CodeAssumption

\* What the state has been told makes a well-typed state, and the history of it.
LEMMA ToldType ==
  ASSUME TypeOK, NEW m \in Shapes(fw, doing), Told(m)
  PROVE  st' \in NarwalState /\ said' \in Doings /\ off' \in BOOLEAN /\ heard' \subseteq Firmwares
<1>1. m \in Message
  BY ShapesFit DEF Fits, TypeOK
<1> QED BY <1>1, UpdateType DEF Told, TypeOK

LEMMA ClearsType ==
  ASSUME NEW s, UpdateTrail(s), TypeOK
  PROVE  session' \in BOOLEAN /\ clears' \in 0..MaxClears
<1>1. IsCleaningSession(s) \in BOOLEAN
  BY DEF IsCleaningSession, InCleaning
<1> QED BY <1>1, ViewAssumption DEF UpdateTrail, TypeOK, ViewAssumption

LEMMA TypeStep == TypeOK /\ [Next]_vars => TypeOK'
<1> SUFFICES ASSUME TypeOK, [Next]_vars PROVE TypeOK'
  OBVIOUS
<1> USE DEF TypeOK
<1>0. 0 \in 0..MaxClears /\ {} \subseteq Firmwares
  BY ViewAssumption DEF ViewAssumption
<1>1. CASE Moves
  <2>1. doing' \in Doings
    BY <1>1, LeadsType DEF Moves
  <2>2. (said = "cache") \in BOOLEAN /\ 0 \in 0..MaxClears
    BY ViewAssumption DEF ViewAssumption
  <2>3. clears' \in 0..MaxClears /\ misled' \in BOOLEAN
    BY <1>1, <2>2 DEF Moves
  <2> QED BY <1>1, <2>1, <2>3 DEF Moves
<1>2. CASE Upgraded
  BY <1>2 DEF Upgraded
<1>3. CASE Broadcast
  BY <1>3, ToldType, ClearsType DEF Broadcast, robot
<1>4. CASE OtherBroadcast
  BY <1>4, ClearsType DEF OtherBroadcast, robot
<1>5. CASE Poll
  BY <1>5, ToldType DEF Poll, robot
<1>6. CASE PollRemembered
  <2>1. PICK d \in Tasks \cup {"docked"} : \E m \in Shapes(fw, d) :
          st' = UpdateFromBaseStatus(st, [m EXCEPT !.f11 = Absent, !.f47 = Absent])
    BY <1>6 DEF PollRemembered
  <2>2. PICK m \in Shapes(fw, d) :
          st' = UpdateFromBaseStatus(st, [m EXCEPT !.f11 = Absent, !.f47 = Absent])
    BY <2>1
  <2>3. st' \in NarwalState
    BY <2>2, RememberedType, UpdateType DEF Doings, OnDock
  <2> QED BY <1>6, <2>3 DEF PollRemembered, robot
<1>7. CASE Restart
  BY <1>7, <1>0, NewStateType DEF Restart, robot
<1>8. CASE UNCHANGED vars
  BY <1>8 DEF vars, robot
<1> QED BY <1>1, <1>2, <1>3, <1>4, <1>5, <1>6, <1>7, <1>8 DEF Next

LEMMA TypeInit == Init => TypeOK
<1>1. 0 \in 0..MaxClears /\ {} \subseteq Firmwares
  BY ViewAssumption DEF ViewAssumption
<1> QED BY <1>1, NewStateType DEF Init, TypeOK

\* Every reachable state is well typed.
THEOREM TypeCorrect == Spec => []TypeOK
BY TypeInit, TypeStep, PTL DEF Spec

\* The two entities never contradict each other.
THEOREM EntitiesAgreeHolds == Spec => []EntitiesAgree
<1>1. TypeOK => EntitiesAgree
  BY AgreeLemma DEF TypeOK, EntitiesAgree
<1> QED BY <1>1, TypeCorrect, PTL

\* A pause is shown exactly after the robot has said so: inductive, because a
\* message of the robot decides it whatever the state was before.
LEMMA PauseStep ==
  TypeOK /\ ResumesWhatIsPaused /\ [Next]_vars => ResumesWhatIsPaused'
<1> SUFFICES ASSUME TypeOK, ResumesWhatIsPaused, [Next]_vars PROVE ResumesWhatIsPaused'
  OBVIOUS
<1> USE DEF ResumesWhatIsPaused
<1>1. ASSUME NEW m \in Shapes(fw, doing), Told(m) PROVE ResumesWhatIsPaused'
  BY <1>1, ShapesFit, ToldLemma DEF Told, TypeOK
<1>2. CASE Broadcast \/ Poll
  BY <1>1, <1>2 DEF Broadcast, Poll
<1>3. CASE PollRemembered \/ Restart
  BY <1>3 DEF PollRemembered, Restart, Doings, OnDock, Tasks
<1>4. CASE Moves \/ Upgraded \/ OtherBroadcast \/ UNCHANGED vars
  BY <1>4 DEF Moves, Upgraded, OtherBroadcast, vars
<1> QED BY <1>2, <1>3, <1>4 DEF Next

\* The start button resumes exactly a task the robot said is paused.
THEOREM ResumesWhatIsPausedHolds == Spec => []ResumesWhatIsPaused
<1>1. Init => ResumesWhatIsPaused
  BY DEF Init, ResumesWhatIsPaused, Doings, OnDock, Tasks
<1> QED BY <1>1, PauseStep, TypeCorrect, PTL DEF Spec
-----------------------------------------------------------------------------
\* A trail that was cleared in this task will not be cleared again: while the
\* task goes on the session is known and no state denies it; after it, either
\* the session is still believed or the state does not begin one.
ClearInv ==
  misled \/ clears = 0 \/
    /\ clears = 1
    /\ IF doing \in Tasks
         THEN session /\ (IsCleaningSession(st) \/ st.working_status = UNKNOWN)
         ELSE session \/ ~IsCleaningSession(st)

LEMMA TrailStep ==
  ASSUME TypeOK, NEW s, UpdateTrail(s), clears \in {0, 1}
  PROVE  \/ clears' = clears /\ (s.working_status = UNKNOWN => session' = session)
                             /\ (s.working_status # UNKNOWN => session' = IsCleaningSession(s))
         \/ clears = 0 /\ clears' = 1 /\ session' /\ IsCleaningSession(s)
         \/ clears = 1 /\ ~session /\ IsCleaningSession(s)
BY ViewAssumption DEF UpdateTrail, TypeOK, ViewAssumption

LEMMA ClearStep == TypeOK /\ ClearInv /\ [Next]_vars => ClearInv'
<1> SUFFICES ASSUME TypeOK, ClearInv, [Next]_vars PROVE ClearInv'
  OBVIOUS
<1>0. ~(IsCleaningSession(st) /\ st.working_status = UNKNOWN)
  BY DEF IsCleaningSession, InCleaning
<1>1. CASE Moves
  <2>1. CASE doing \notin Tasks /\ doing' \in Tasks
    BY <1>1, <2>1 DEF Moves, ClearInv
  <2>2. CASE ~(doing \notin Tasks /\ doing' \in Tasks)
    BY <1>1, <2>2 DEF Moves, ClearInv
  <2> QED BY <2>1, <2>2
<1>2. CASE Upgraded
  BY <1>2 DEF Upgraded, ClearInv
<1>3. ASSUME NEW m \in Shapes(fw, doing), Told(m), doing' = doing, misled' = misled,
             UpdateTrail(st') \/ UNCHANGED <<session, clears>>
      PROVE  ClearInv'
  <2>1. IF doing \in Tasks THEN IsCleaningSession(st') \/ st'.working_status = UNKNOWN
                           ELSE ~IsCleaningSession(st')
    BY <1>3, ShapesFit, ToldLemma DEF Told, TypeOK
  <2>2. ~(IsCleaningSession(st') /\ st'.working_status = UNKNOWN)
    BY DEF IsCleaningSession, InCleaning
  <2>3. CASE misled
    BY <1>3, <2>3 DEF ClearInv
  <2>4. CASE ~misled /\ UNCHANGED <<session, clears>>
    BY <1>3, <2>1, <2>4 DEF ClearInv
  <2>5. CASE ~misled /\ UpdateTrail(st')
    <3>1. clears \in {0, 1}
      BY <2>5 DEF ClearInv
    <3> QED BY <1>3, <2>1, <2>2, <2>5, <3>1, TrailStep DEF ClearInv
  <2> QED BY <1>3, <2>3, <2>4, <2>5
<1>4. CASE Broadcast
  BY <1>3, <1>4 DEF Broadcast, robot
<1>5. CASE Poll
  BY <1>3, <1>5 DEF Poll, robot
<1>6. CASE OtherBroadcast
  <2>1. CASE misled
    BY <1>6, <2>1 DEF OtherBroadcast, ClearInv
  <2>2. CASE ~misled
    <3>1. clears \in {0, 1} /\ UpdateTrail(st)
      BY <1>6, <2>2 DEF ClearInv, OtherBroadcast
    <3> QED BY <1>0, <1>6, <2>2, <3>1, TrailStep DEF OtherBroadcast, ClearInv, robot
  <2> QED BY <2>1, <2>2
<1>7. CASE PollRemembered \/ Restart
  BY <1>7 DEF PollRemembered, Restart, ClearInv
<1>8. CASE UNCHANGED vars
  BY <1>8 DEF vars, robot, ClearInv
<1> QED BY <1>1, <1>2, <1>4, <1>5, <1>6, <1>7, <1>8 DEF Next

\* The trail is cleared at most once in a task, unless a remembered answer came.
THEOREM OneClearPerTaskHolds == Spec => []OneClearPerTask
<1>1. Init => ClearInv
  BY DEF Init, ClearInv
<1>2. ClearInv => OneClearPerTask
  BY DEF ClearInv, OneClearPerTask
<1> QED BY <1>1, <1>2, ClearStep, TypeCorrect, PTL DEF Spec
-----------------------------------------------------------------------------
\* What the proof needs of a message of the new firmware: no signal of the dock
\* but the indicators, which are truthful.
FitsNew(m, d) ==
  /\ m.sub = Absent /\ m.act = Absent /\ m.returning # 1
  /\ d \in OnDock => m.ws \in {DOCKED_V2, MOP_WASHING} /\ m.f11 = 3 /\ m.f47 = 1
  /\ d = "cleaning" => m.ws \in {CLEANING, DOCKED_V2, MaxCode}
  /\ d \in {"paused", "returning"} => m.ws \in {CLEANING, DOCKED_V2}
  /\ d = "standing" => m.ws = STANDBY
  /\ d = "completed" => m.ws = TASK_COMPLETED

\* The messages written out.
LEMMA NewRecords ==
  ASSUME NEW w
  PROVE  /\ Away(w) = [f3 |-> TRUE, ws |-> w, paused |-> Absent, returning |-> Absent,
                       sub |-> Absent, act |-> Absent, f11 |-> 1, f47 |-> 2]
         /\ AtDock(w, "new") =
              [f3 |-> TRUE, ws |-> w, paused |-> Absent, returning |-> Absent,
               sub |-> Absent, act |-> Absent, f11 |-> 3, f47 |-> 1]
<1> DEFINE Rec(x, y) == [f3 |-> TRUE, ws |-> w, paused |-> Absent, returning |-> Absent,
                         sub |-> Absent, act |-> Absent, f11 |-> x, f47 |-> y]
<1>1. Plain(w) = Rec(Absent, Absent)
  BY DEF Plain
<1>2. ASSUME NEW x, NEW y, NEW l, NEW m, l = Rec(Absent, Absent),
             m = [l EXCEPT !.f11 = x, !.f47 = y]
      PROVE  m = Rec(x, y)
  BY <1>2
<1> HIDE DEF Rec
<1>3. Away(w) = [Rec(Absent, Absent) EXCEPT !.f11 = 1, !.f47 = 2]
  BY <1>1 DEF Away
<1>4. AtDock(w, "new") = [Rec(Absent, Absent) EXCEPT !.f11 = 3, !.f47 = 1]
  BY <1>1 DEF AtDock
<1>5. Away(w) = Rec(1, 2)
  BY <1>2, <1>3
<1>6. AtDock(w, "new") = Rec(3, 1)
  BY <1>2, <1>4
<1> QED BY <1>5, <1>6 DEF Rec

\* The new firmware sends nothing else.
LEMMA NewShapesFit ==
  ASSUME NEW d \in Doings, NEW m \in Shapes("new", d)
  PROVE  FitsNew(m, d)
<1> DEFINE Off(w, p, r) ==
      [f3 |-> TRUE, ws |-> w, paused |-> p, returning |-> r,
       sub |-> Absent, act |-> Absent, f11 |-> 1, f47 |-> 2]
    On(w, p) ==
      [f3 |-> TRUE, ws |-> w, paused |-> p, returning |-> Absent,
       sub |-> Absent, act |-> Absent, f11 |-> 3, f47 |-> 1]
<1>1. \A w : Away(w) = Off(w, Absent, Absent) /\ AtDock(w, "new") = On(w, Absent)
  BY NewRecords
<1>2. Absent # 1
  BY DEF Absent
<1>3. CASE d = "docked"
  <2>1. m \in DockShapes("new")
    BY <1>3 DEF Shapes
  <2>2. PICK p \in {Absent, 1}, l \in NewDockMessages("new") : m = [l EXCEPT !.paused = p]
    BY <2>1 DEF DockShapes
  <2>3. l = On(DOCKED_V2, Absent)
    BY <1>1, <2>2 DEF NewDockMessages
  <2>4. m = On(DOCKED_V2, p)
    BY <2>2, <2>3
  <2> QED BY <1>2, <1>3, <2>4 DEF FitsNew, OnDock
<1>4. CASE d = "washing"
  <2>1. m = On(MOP_WASHING, Absent)
    BY <1>1, <1>4 DEF Shapes
  <2> QED BY <1>2, <1>4, <2>1 DEF FitsNew, OnDock
<1>5. CASE d = "cleaning"
  <2>1. m \in CleaningShapes("new")
    BY <1>5 DEF Shapes
  <2>2. PICK w \in {CLEANING, DOCKED_V2, MaxCode}, r \in {Absent, 7} :
          m = [Away(w) EXCEPT !.returning = r]
    BY <2>1 DEF CleaningShapes, UnpausedStatuses, CleanStatuses, FlagsSent
  <2>3. m = Off(w, Absent, r)
    BY <1>1, <2>2
  <2> QED BY <1>2, <1>5, <2>3 DEF FitsNew, OnDock
<1>6. CASE d = "paused"
  <2>1. PICK w \in {CLEANING, DOCKED_V2} : m = [Away(w) EXCEPT !.paused = 1]
    BY <1>6 DEF Shapes, CleanStatuses
  <2>2. m = Off(w, 1, Absent)
    BY <1>1, <2>1
  <2> QED BY <1>2, <1>6, <2>2 DEF FitsNew, OnDock
<1>7. CASE d = "returning"
  <2>1. PICK w \in {CLEANING, DOCKED_V2} : m = [Away(w) EXCEPT !.returning = 7]
    BY <1>7 DEF Shapes, CleanStatuses
  <2>2. m = Off(w, Absent, 7)
    BY <1>1, <2>1
  <2> QED BY <1>2, <1>7, <2>2 DEF FitsNew, OnDock
<1>8. CASE d \in {"standing", "completed"}
  <2>1. m = Off(IF d = "standing" THEN STANDBY ELSE TASK_COMPLETED, Absent, Absent)
    BY <1>1, <1>8 DEF Shapes
  <2> QED BY <1>2, <1>8, <2>1 DEF FitsNew, OnDock
<1> QED BY <1>3, <1>4, <1>5, <1>6, <1>7, <1>8 DEF Doings, OnDock, Tasks

\* The states whose activity the proof below computes: not docked, not returning.
LEMMA Undocked ==
  ASSUME NEW t, ~IsDocked(t), t.is_returning_to_dock = FALSE
  PROVE  /\ t.is_paused = FALSE /\ t.working_status = CLEANING => Activity(t) = "cleaning"
         /\ t.is_paused = FALSE /\ t.working_status \in {DOCKED_V2, UNKNOWN}
              => Activity(t) = "cleaning"
         /\ t.is_paused = FALSE /\ t.working_status = STANDBY => Activity(t) = "idle"
         /\ t.is_paused = FALSE /\ t.working_status = TASK_COMPLETED
              => Activity(t) = "returning"
<1>1. ~IsReturning(t)
  BY DEF IsReturning
<1>2. t.working_status = CLEANING => InCleaning(t)
  BY DEF InCleaning
<1>3. t.working_status \in {DOCKED_V2, UNKNOWN, STANDBY, TASK_COMPLETED} => ~InCleaning(t)
  BY DEF InCleaning, CLEANING, CLEANING_ALT, DOCKED_V2, UNKNOWN, STANDBY, TASK_COMPLETED
<1>4. t.is_paused = FALSE /\ InCleaning(t) => Activity(t) = "cleaning"
  BY <1>1 DEF Activity, IsCleaning
<1>5. t.is_paused = FALSE /\ ~InCleaning(t) => Activity(t) = OtherActivity(t)
  BY <1>1 DEF Activity, IsCleaning
<1>6. /\ DOMAIN StatusActivity = WorkingStatus \ {UNKNOWN, MOP_WASHING}
      /\ UNKNOWN \notin DOMAIN StatusActivity
      /\ {DOCKED_V2, STANDBY, TASK_COMPLETED} \subseteq DOMAIN StatusActivity
  BY DEF StatusActivity, WorkingStatus, UNKNOWN, STANDBY, DOCKED_V2, MOP_WASHING,
         TASK_COMPLETED
<1>7. StatusActivity[DOCKED_V2] = "docked"
  BY <1>6 DEF StatusActivity
<1>8. StatusActivity[STANDBY] = "idle"
  BY <1>6 DEF StatusActivity, STANDBY, DOCKED, CHARGED, DOCKED_V2, CLEANING, CLEANING_ALT
<1>9. StatusActivity[TASK_COMPLETED] = "returning"
  BY <1>6 DEF StatusActivity, STANDBY, DOCKED, CHARGED, DOCKED_V2, CLEANING, CLEANING_ALT,
              TASK_COMPLETED
<1>10. t.working_status \in {DOCKED_V2, UNKNOWN} => OtherActivity(t) = "cleaning"
  BY <1>6, <1>7 DEF OtherActivity
<1>11. t.working_status = STANDBY => OtherActivity(t) = "idle"
  BY <1>6, <1>8 DEF OtherActivity
<1>12. t.working_status = TASK_COMPLETED => OtherActivity(t) = "returning"
  BY <1>6, <1>9 DEF OtherActivity
<1> QED BY <1>2, <1>3, <1>4, <1>5, <1>10, <1>11, <1>12

\* What such a message makes of a state that has heard no other firmware.
LEMMA ToldNew ==
  ASSUME NEW s \in NarwalState, s.dock_sub_state = 0, s.dock_activity = 0,
         NEW d \in Doings, NEW m, Fits(m, d), FitsNew(m, d),
         NEW t, t = UpdateFromBaseStatus(s, m)
  PROVE  /\ t.dock_sub_state = 0 /\ t.dock_activity = 0
         /\ Activity(t) \in Shown[d]
<1>1. m \in Message /\ m.f3
  BY DEF Fits
<1>2. /\ t.dock_sub_state = 0 /\ t.dock_activity = 0
      /\ t.dock_field11 = Kept(s.dock_field11, m.f11)
      /\ t.dock_field47 = Kept(s.dock_field47, m.f47)
      /\ t.is_paused = (m.paused \notin {Absent, 0})
      /\ t.is_returning_to_dock = FALSE
      /\ t.working_status = Status(s, m)
  BY <1>1 DEF UpdateFromBaseStatus, Field3, NarwalState, Kept, FitsNew
<1>3. m.ws # Absent /\ MaxCode \notin WorkingStatus
  BY CodeAssumption DEF FitsNew, Doings, OnDock, Tasks, CodeAssumption, Absent,
                        WorkingStatus
<1>4. t.working_status = IF m.ws \in WorkingStatus THEN m.ws ELSE UNKNOWN
  BY <1>2, <1>3 DEF Status
<1>5. CASE d \in OnDock
  <2>1. t.working_status \in {DOCKED_V2, MOP_WASHING} /\ t.dock_field11 = 3
    BY <1>2, <1>4, <1>5 DEF FitsNew, WorkingStatus, Kept, Absent
  <2>2. IsDocked(t) /\ ~InCleaning(t)
    BY <2>1 DEF IsDocked, OffDock, InCleaning
  <2>3. Activity(t) = "docked"
    BY <2>1, <2>2 DEF Activity, IsCleaningSession, IsReturning, IsCleaning
  <2> QED BY <1>2, <1>5, <2>3 DEF Shown, OnDock, Doings
<1>6. CASE d \notin OnDock
  <2>1. t.dock_field11 = 1 /\ t.dock_field47 = 2
    BY <1>2, <1>6 DEF Fits, Kept, Absent
  <2>2. ~IsDocked(t)
    BY <1>2, <2>1 DEF IsDocked, OffDock, DockSignal
  <2>3. t.is_paused = (d = "paused")
    BY <1>2, <1>6 DEF Fits, Absent
  <2>4. CASE d = "cleaning"
    <3>1. t.working_status \in {CLEANING, DOCKED_V2, UNKNOWN}
      BY <1>3, <1>4, <2>4 DEF FitsNew, WorkingStatus
    <3>2. Activity(t) = "cleaning"
      BY <1>2, <2>2, <2>3, <2>4, <3>1, Undocked
    <3> QED BY <1>2, <2>4, <3>2 DEF Shown, OnDock, Doings, Tasks
  <2>5. CASE d = "returning"
    <3>1. t.working_status \in {CLEANING, DOCKED_V2}
      BY <1>4, <2>5 DEF FitsNew, WorkingStatus
    <3>2. Activity(t) = "cleaning"
      BY <1>2, <2>2, <2>3, <2>5, <3>1, Undocked
    <3> QED BY <1>2, <2>5, <3>2 DEF Shown, OnDock, Doings, Tasks
  <2>6. CASE d = "paused"
    <3>1. Activity(t) = "paused"
      BY <2>6, ToldLemma
    <3> QED BY <1>2, <2>6, <3>1 DEF Shown, OnDock, Doings, Tasks
  <2>7. CASE d \in {"standing", "completed"}
    <3>1. t.working_status = IF d = "standing" THEN STANDBY ELSE TASK_COMPLETED
      BY <1>4, <2>7 DEF FitsNew, WorkingStatus
    <3>2. Activity(t) = IF d = "standing" THEN "idle" ELSE "returning"
      BY <1>2, <2>2, <2>3, <2>7, <3>1, Undocked
    <3> QED BY <1>2, <2>7, <3>2 DEF Shown, OnDock, Doings, Tasks
  <2> QED BY <1>6, <2>4, <2>5, <2>6, <2>7 DEF Doings, OnDock, Tasks
<1> QED BY <1>2, <1>5, <1>6

\* A state that has heard the new firmware only has none of the old dock signals;
\* the message heard last decides the rest.
NewInv == /\ heard \subseteq {"new"} => st.dock_sub_state = 0 /\ st.dock_activity = 0
          /\ ShowsWhatItSaid

LEMMA NewStep == TypeOK /\ NewInv /\ [Next]_vars => NewInv'
<1> SUFFICES ASSUME TypeOK, NewInv, [Next]_vars PROVE NewInv'
  OBVIOUS
<1>1. fw \in Firmwares /\ doing \in Doings /\ st \in NarwalState
  BY DEF TypeOK
<1>2. ASSUME NEW m \in Shapes(fw, doing), Told(m) PROVE NewInv'
  <2>1. SUFFICES ASSUME heard' \subseteq {"new"}
                 PROVE  /\ st'.dock_sub_state = 0 /\ st'.dock_activity = 0
                        /\ Activity(st') \in Shown[said']
    BY DEF NewInv, ShowsWhatItSaid
  <2>2. fw = "new" /\ heard \subseteq {"new"}
    BY <1>2, <2>1 DEF Told
  <2>3. Fits(m, doing) /\ FitsNew(m, doing)
    BY <1>1, <1>2, <2>2, ShapesFit, NewShapesFit
  <2>4. st.dock_sub_state = 0 /\ st.dock_activity = 0
    BY <2>2 DEF NewInv
  <2>. QED  BY <1>1, <1>2, <2>3, <2>4, ToldNew DEF Told
<1>3. CASE Broadcast \/ Poll
  BY <1>2, <1>3 DEF Broadcast, Poll
<1>4. CASE PollRemembered
  <2>1. PICK d \in Tasks \cup {"docked"} : \E m \in Shapes(fw, d) :
          st' = UpdateFromBaseStatus(st, [m EXCEPT !.f11 = Absent, !.f47 = Absent])
    BY <1>4 DEF PollRemembered
  <2>2. PICK m \in Shapes(fw, d) :
          st' = UpdateFromBaseStatus(st, [m EXCEPT !.f11 = Absent, !.f47 = Absent])
    BY <2>1
  <2>3. said' = "cache" /\ heard' = heard \cup {fw}
    BY <1>4 DEF PollRemembered
  <2>4. said' \notin Doings
    BY <2>3 DEF Doings, OnDock, Tasks
  <2>5. ASSUME heard' \subseteq {"new"}
        PROVE  st'.dock_sub_state = 0 /\ st'.dock_activity = 0
    <3>1. fw = "new" /\ st.dock_sub_state = 0 /\ st.dock_activity = 0
      BY <2>3, <2>5 DEF NewInv
    <3>2. d \in Doings
      BY DEF Doings, OnDock
    <3>3. m \in Message /\ m.f3 = TRUE /\ m.sub = Absent /\ m.act = Absent
      BY <1>1, <3>1, <3>2, ShapesFit, NewShapesFit DEF Fits, FitsNew
    <3> QED BY <1>1, <2>2, <3>1, <3>3
            DEF UpdateFromBaseStatus, Field3, NarwalState, Message, Kept
  <2> QED BY <2>4, <2>5 DEF NewInv, ShowsWhatItSaid
<1>5. CASE Restart
  <2>1. st' = NewState /\ said' = "nothing"
    BY <1>5 DEF Restart
  <2>2. said' \notin Doings
    BY <2>1 DEF Doings, OnDock, Tasks
  <2> QED BY <2>1, <2>2 DEF NewInv, ShowsWhatItSaid, NewState
<1>6. CASE Moves \/ Upgraded \/ OtherBroadcast \/ UNCHANGED vars
  BY <1>6 DEF Moves, Upgraded, OtherBroadcast, vars, NewInv, ShowsWhatItSaid
<1> QED BY <1>3, <1>4, <1>5, <1>6 DEF Next

\* A robot on new firmware is shown as what it said, whatever else was heard of it.
THEOREM ShowsWhatItSaidHolds == Spec => []ShowsWhatItSaid
<1>1. Init => NewInv
  BY DEF Init, NewInv, ShowsWhatItSaid, NewState, Doings, OnDock, Tasks
<1>2. NewInv => ShowsWhatItSaid
  BY DEF NewInv
<1> QED BY <1>1, <1>2, NewStep, TypeCorrect, PTL DEF Spec
=============================================================================
