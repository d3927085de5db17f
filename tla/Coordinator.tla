---------------------------- MODULE Coordinator ----------------------------
(***************************************************************************)
(* NarwalCoordinator between the client and the entities: the first        *)
(* queries, the callback every broadcast that is not a repeat ends in, the *)
(* polling that stands in for broadcasts, the two tasks the callback may   *)
(* start (fetch the map, refresh the dock fields), fast polling, and when  *)
(* the entities become unavailable.                                        *)
(*                                                                         *)
(* A step is what runs between two awaits, so broadcasts come in between   *)
(* the sending of a query and its answer.  The map layers the callback     *)
(* accumulates are left out, and so is the renewed subscription after 30 s *)
(* without display_map, which only sends a message.                        *)
(***************************************************************************)
EXTENDS Naturals

CONSTANTS MaxFailures,  \* _max_failures
          FastPollMax,  \* FAST_POLL_MAX
          Fast, Normal, \* FAST_POLL_INTERVAL and POLL_INTERVAL, in 10 s
          MaxPolls      \* bound: where the counts of polls and of time stop

ASSUME CoordinatorAssumption ==
  /\ {MaxFailures, FastPollMax, Fast, Normal, MaxPolls} \subseteq Nat \ {0}
  /\ Fast < Normal
  /\ MaxFailures < MaxPolls

VARIABLES
  phase,       \* of async_setup: "status", "map", "publish", then "running"
  status,      \* working_status of the client's state
  prev,        \* _prev_working_status
  mapLoaded,   \* state.map_data is not None
  mapPending,  \* _map_fetch_pending
  mapFetches,  \* tasks in _fetch_missing_map that wait for the map
  publishing,  \* such a task has the map and subscribes
  refreshing,  \* a task is in _refresh_dock_status
  dockStale,   \* the robot has docked since get_status last answered
  poll,        \* _async_update_data: "idle", "status" or "map"
  failures,    \* _consecutive_failures
  available,   \* last_update_success
  fast,        \* _fast_poll_remaining
  interval,    \* update_interval
  missed       \* history: polls failed since the robot was last heard

statusVars == <<status, prev, dockStale>>
mapVars    == <<mapLoaded, mapPending, mapFetches, publishing>>
pollVars   == <<poll, failures, available>>
fastVars   == <<fast, interval>>
vars == <<phase, statusVars, mapVars, refreshing, pollVars, fastVars, missed>>

\* UNKNOWN, CLEANING and CLEANING_ALT, STANDBY and DOCKED_V2, all others.
Statuses == {"unknown", "cleaning", "docked", "other"}

TypeOK ==
  /\ phase \in {"status", "map", "publish", "running"}
  /\ {status, prev} \subseteq Statuses
  /\ {mapLoaded, mapPending, publishing, refreshing, dockStale, available} \subseteq BOOLEAN
  /\ mapFetches \in Nat
  /\ poll \in {"idle", "status", "map"}
  /\ failures \in 0 .. MaxPolls
  /\ fast \in 0 .. FastPollMax
  /\ interval \in {Fast, Normal}
  /\ missed \in 0 .. MaxPolls

Init ==
  /\ phase = "status"
  /\ status = "unknown" /\ prev = "unknown" /\ dockStale = FALSE
  /\ mapLoaded = FALSE /\ mapPending = FALSE /\ mapFetches = 0
  /\ publishing = FALSE
  /\ refreshing = FALSE
  /\ poll = "idle" /\ failures = 0 /\ available = TRUE
  /\ fast = 0 /\ interval = Normal
  /\ missed = 0

\* One more, up to the bound.
Counted(n) == IF n < MaxPolls THEN n + 1 ELSE n
-----------------------------------------------------------------------------
\* async_setup: each query may fail, and setup goes on without its answer.
SetupStatus ==
  /\ phase = "status" /\ phase' = "map"
  /\ status' \in Statuses
  /\ UNCHANGED <<prev, dockStale, mapVars, refreshing, pollVars, fastVars,
                 missed>>

SetupMap ==
  /\ phase = "map" /\ phase' = "publish"
  /\ mapLoaded' \in BOOLEAN
  /\ UNCHANGED <<statusVars, mapPending, mapFetches, publishing, refreshing,
                 pollVars, fastVars, missed>>

\* The first state is published; a robot that did not answer is polled fast.
SetupPublish ==
  /\ phase = "publish" /\ phase' = "running"
  /\ \/ status = "unknown" /\ fast' = FastPollMax /\ interval' = Fast
     \/ status # "unknown" /\ UNCHANGED fastVars
  /\ UNCHANGED <<statusVars, mapVars, refreshing, pollVars, missed>>

FetchIfMissing ==
  IF ~mapLoaded /\ ~mapPending
    THEN mapPending' = TRUE /\ mapFetches' = mapFetches + 1
    ELSE UNCHANGED <<mapPending, mapFetches>>

EndFastPolling == fast' = 0 /\ interval' = IF fast > 0 THEN Normal ELSE interval

\* Mutant: a broadcast leaves the failures as they are.
Broadcast_KeepsFailures ==
  /\ phase = "running"
  /\ status' \in Statuses
  /\ missed' = 0
  /\ FetchIfMissing
  /\ LET returned == status' = "docked" /\ prev = "cleaning" IN
     /\ refreshing' = (refreshing \/ returned)
     /\ dockStale' = (dockStale \/ returned)
  /\ prev' = status'
  /\ available' = TRUE
  /\ EndFastPolling
  /\ UNCHANGED <<phase, mapLoaded, publishing, poll, failures>>

\* _on_state_update: a broadcast has changed the status, or something else.
Broadcast ==
  /\ phase = "running"
  /\ status' \in Statuses
  /\ failures' = 0 /\ missed' = 0
  /\ FetchIfMissing
  /\ LET returned == status' = "docked" /\ prev = "cleaning" IN
     /\ refreshing' = (refreshing \/ returned)
     /\ dockStale' = (dockStale \/ returned)
  /\ prev' = status'
  /\ available' = TRUE
  /\ EndFastPolling
  /\ UNCHANGED <<phase, mapLoaded, publishing, poll>>

\* _fetch_missing_map: the map, then the subscription, then the update.
FetchSucceeds ==
  /\ mapFetches > 0
  /\ mapFetches' = mapFetches - 1
  /\ mapLoaded' = TRUE
  /\ publishing' = TRUE
  /\ UNCHANGED <<phase, statusVars, mapPending, refreshing, pollVars, fastVars,
                 missed>>

FetchPublishes ==
  /\ publishing /\ publishing' = FALSE
  /\ available' = TRUE
  /\ UNCHANGED <<phase, statusVars, mapLoaded, mapPending, mapFetches, refreshing,
                 poll, failures, fastVars, missed>>

\* Mutant: the flag is not lowered.
FetchFails_StillPending ==
  /\ mapFetches > 0
  /\ mapFetches' = mapFetches - 1
  /\ UNCHANGED <<phase, statusVars, mapPending, mapLoaded, publishing, refreshing,
                 pollVars, fastVars, missed>>

FetchFails ==
  /\ mapFetches > 0
  /\ mapFetches' = mapFetches - 1
  /\ mapPending' = FALSE
  /\ UNCHANGED <<phase, statusVars, mapLoaded, publishing, refreshing, pollVars,
                 fastVars, missed>>

\* What get_status updates: nothing if the answer holds no status.  The
\* callback does not run, so prev stays.
StatusAnswered ==
  \/ status' \in Statuses /\ dockStale' = FALSE
  \/ UNCHANGED <<status, dockStale>>

\* _refresh_dock_status.
RefreshSucceeds ==
  /\ refreshing /\ refreshing' = FALSE
  /\ StatusAnswered
  /\ available' = TRUE
  /\ UNCHANGED <<phase, prev, mapVars, poll, failures, fastVars, missed>>

RefreshFails ==
  /\ refreshing /\ refreshing' = FALSE
  /\ UNCHANGED <<phase, statusVars, mapVars, pollVars, fastVars, missed>>
-----------------------------------------------------------------------------
\* _async_update_data, when nothing was published for update_interval.
PollBegins ==
  /\ phase = "running" /\ poll = "idle"
  /\ poll' = "status"
  /\ UNCHANGED <<phase, statusVars, mapVars, refreshing, failures, available,
                 fastVars, missed>>

\* Not connected, or get_status raises: the stale state is returned as good,
\* until the failures are too many.
PollFails ==
  /\ poll = "status" /\ poll' = "idle"
  /\ failures' = Counted(failures)
  /\ available' = (failures' < MaxFailures)
  /\ missed' = Counted(missed)
  /\ UNCHANGED <<phase, statusVars, mapVars, refreshing, fastVars>>

\* The end of a poll that was answered: fast polling counts down.
CountDown ==
  \/ /\ fast > 0 /\ status' # "unknown"
     /\ EndFastPolling
  \/ /\ fast > 0 /\ status' = "unknown"
     /\ fast' = fast - 1
     /\ interval' = IF fast' = 0 THEN Normal ELSE interval
  \/ fast = 0 /\ UNCHANGED fastVars

PollEnds == poll' = "idle" /\ available' = TRUE /\ CountDown

\* Mutant: the answer updates the battery only (full_update is False).
PollSucceeds_BatteryOnly ==
  /\ poll = "status"
  /\ UNCHANGED <<status, dockStale>>
  /\ failures' = 0 /\ missed' = 0
  /\ \/ mapLoaded /\ PollEnds
     \/ ~mapLoaded /\ poll' = "map" /\ UNCHANGED <<available, fastVars>>
  /\ UNCHANGED <<phase, prev, mapVars, refreshing>>

PollSucceeds ==
  /\ poll = "status"
  /\ StatusAnswered
  /\ failures' = 0 /\ missed' = 0
  /\ \/ mapLoaded /\ PollEnds
     \/ ~mapLoaded /\ poll' = "map" /\ UNCHANGED <<available, fastVars>>
  /\ UNCHANGED <<phase, prev, mapVars, refreshing>>

\* get_map within the poll; its failure is swallowed.
PollMap ==
  /\ poll = "map"
  /\ mapLoaded' \in {mapLoaded, TRUE}
  /\ UNCHANGED <<phase, statusVars, mapPending, mapFetches, publishing, refreshing,
                 failures, missed>>
  /\ PollEnds

PollReturns == PollFails \/ PollSucceeds \/ PollMap

Setup == SetupStatus \/ SetupMap \/ SetupPublish

Fetch == FetchSucceeds \/ FetchPublishes \/ FetchFails

Refresh == RefreshSucceeds \/ RefreshFails

Next == Setup \/ Broadcast \/ Fetch \/ Refresh \/ PollBegins \/ PollReturns

Spec == Init /\ [][Next]_vars

\* Setup goes on, tasks and polls come back.  The robot broadcasts again and
\* again, yet falls silent for a poll interval again and again (it sleeps on
\* its dock), and of the queries sent to it infinitely many are answered.
FairSpec ==
  /\ Spec
  /\ WF_vars(Setup) /\ WF_vars(Fetch) /\ WF_vars(Refresh)
  /\ WF_vars(PollReturns)
  /\ WF_vars(Broadcast) /\ WF_vars(PollBegins)
  /\ SF_vars(FetchSucceeds) /\ SF_vars(PollSucceeds /\ ~dockStale')

\* The same for a robot that may be deaf and silent for ever.
DeafSpec == Spec /\ WF_vars(Setup) /\ WF_vars(PollBegins) /\ WF_vars(PollReturns)
-----------------------------------------------------------------------------
\* The entities become unavailable only when MaxFailures polls in a row have
\* failed since the robot was last heard, were it by a broadcast that came in
\* while a poll was waiting for its answer.
UnavailableNeedsFailures ==
  [][available /\ ~available' => missed' >= MaxFailures]_vars

\* A map that is missing at startup is fetched in the end.
MapArrives == <>mapLoaded

\* After a return to the dock the dock fields are queried in the end, though
\* the refresh that is started at once may fail.
DockIsRefreshed == dockStale ~> ~dockStale

\* What the comment on FAST_POLL_MAX says: up to 60 s of fast polling before
\* falling back to normal.
FastPollingEnds == interval = Fast ~> interval = Normal
=============================================================================
