-------------------------------- MODULE Pose --------------------------------
(***************************************************************************)
(* Where the robot is shown: the pose of display_map, the head of the      *)
(* planned trajectory, whichever is fresher, and the trail the coordinator *)
(* records of it, with the midline of the strip it has cleaned.  Positions *)
(* are pairs of integers in quarters of a cell, time is the number of      *)
(* broadcasts; headings are left out.                                      *)
(***************************************************************************)
EXTENDS Integers, SequencesExt

CONSTANTS
  MaxTrail,   \* TRAIL_MAX_POINTS
  MinDist,    \* TRAIL_MIN_DIST
  MaxQuads    \* SWATH_QUADS_MAX

ASSUME PoseAssumption == {MaxTrail, MinDist, MaxQuads} \subseteq Nat \ {0}

NotFinite == 9999   \* a float that is absent, NaN or infinite
Nowhere == <<>>     \* no pose, no map

Finite(v) == v # NotFinite
KeepFinite(list, p) == IF Finite(p[1]) /\ Finite(p[2]) THEN Append(list, p) ELSE list
FinitePoints(points) ==
  LET finite[n \in 0 .. Len(points)] ==
        IF n = 0 THEN <<>> ELSE KeepFinite(finite[n - 1], points[n])
  IN  finite[Len(points)]

\* Field 12: polylines whose two lists are of one length, without the points that
\* are not finite.
RailPoints(item) ==
  IF Len(item.xs) # Len(item.ys) THEN <<>>
  ELSE FinitePoints([k \in DOMAIN item.xs |-> <<item.xs[k], item.ys[k]>>])
KeepRail(list, item) ==
  IF RailPoints(item) # <<>> THEN Append(list, RailPoints(item)) ELSE list
RailPaths(items) ==
  LET rails[n \in 0 .. Len(items)] ==
        IF n = 0 THEN <<>> ELSE KeepRail(rails[n - 1], items[n])
  IN  rails[Len(items)]

\* from_broadcast: a coordinate that is not finite stays 0; points need both.
DisplayFrom(b, now) ==
  [at |-> now, p |-> <<IF Finite(b.p[1]) THEN b.p[1] ELSE 0, IF Finite(b.p[2]) THEN b.p[2] ELSE 0>>,
   rails |-> RailPaths(b.rails)]
TrajectoryFrom(b, now) == [at |-> now, points |-> FinitePoints(b.points)]

InBox(map, p) ==
  map # Nowhere => /\ map.x <= p[1] /\ p[1] < map.x + map.w
                   /\ map.y <= p[2] /\ p[2] < map.y + map.h

\* best_robot_position; of two poses of one moment the display's.
BestRobotPosition(s) ==
  LET shown == s.display.at > 0 /\ s.display.p # <<0, 0>>
      planned == s.plan.points # <<>> /\ InBox(s.map, Head(s.plan.points))
  IN CASE shown /\ (planned => s.display.at >= s.plan.at) -> s.display.p
       [] planned /\ (shown => s.display.at < s.plan.at) -> Head(s.plan.points)
       [] OTHER -> Nowhere

Close(a, b) ==
  (a[1] - b[1]) * (a[1] - b[1]) + (a[2] - b[2]) * (a[2] - b[2]) < MinDist * MinDist

\* Mutant: what is too close is remembered all the same.
Record_MovesLast(s, p) ==
  [s EXCEPT !.trail = IF s.last # Nowhere /\ Close(p, s.last) THEN s.trail ELSE Append(s.trail, p),
            !.last = p]

\* The end of _update_trail: a new point is recorded, one too close is not.
Record(s, p) ==
  IF s.last # Nowhere /\ Close(p, s.last) THEN s
  ELSE [s EXCEPT !.trail = Append(s.trail, p), !.last = p]

\* A session that begins clears the trail; UNKNOWN says nothing of sessions.
Session(s) ==
  CASE s.status = "unknown" -> s
    [] s.status = "cleaning" /\ ~s.was -> [s EXCEPT !.trail = <<>>, !.last = Nowhere, !.was = TRUE,
                                           !.seen = {}, !.rail = <<>>, !.split = 0]
    [] OTHER -> [s EXCEPT !.was = (s.status = "cleaning")]

\* The middle of a quad between two rails, in quarters of a cell, rounded to even.
Quarter(n) == IF n % 4 < 2 \/ (n % 4 = 2 /\ (n \div 4) % 2 = 0) THEN n \div 4 ELSE n \div 4 + 1
QuadKey(r, q, i) ==
  [k \in 1 .. 2 |-> Quarter(r[i][k] + q[i][k] + r[i + 1][k] + q[i + 1][k])]

\* A quad that is new, and the midline of the rails in doubled coordinates.
\* (swath_quads has a quad for each key in seen; module MapLayers draws them.)
AddQuad(s, r, q, i) ==
  LET Middle(j) == [k \in 1 .. 2 |-> r[j][k] + q[j][k] - 2 * (IF k = 1 THEN s.map.x ELSE s.map.y)]
      key == QuadKey(r, q, i)
      more == (IF s.rail = <<>> THEN <<Middle(i)>> ELSE <<>>) \o <<Middle(i + 1)>>
  IN  IF key \in s.seen THEN s
      ELSE [s EXCEPT !.seen = @ \cup {key},
                     !.rail = IF Len(@) < MaxTrail THEN @ \o more ELSE @]

\* The rails of a frame; what they add supersedes the trail so far.
Superseding(s, t) == [t EXCEPT !.split = IF t.rail # s.rail THEN Len(t.trail) ELSE @]
AddQuads(s, r, q) ==
  LET quads == (IF Len(r) < Len(q) THEN Len(r) ELSE Len(q)) - 1
      added[n \in 0 .. quads] == IF n = 0 THEN s ELSE AddQuad(added[n - 1], r, q, n)
  IN  added[quads]
UpdateRails(s) ==
  IF s.map = Nowhere \/ Len(s.display.rails) # 2 \/ Cardinality(s.seen) >= MaxQuads THEN s
  ELSE Superseding(s, AddQuads(s, s.display.rails[1], s.display.rails[2]))

\* A pose on the map is recorded relative to the origin of the map.
RecordPose(s, pose) ==
  IF s.map = Nowhere \/ pose = Nowhere \/ Len(s.trail) >= MaxTrail THEN s
  ELSE Record(s, <<pose[1] - s.map.x, pose[2] - s.map.y>>)

\* _update_trail, with the rails of _update_map_layers.
UpdateTrail(s) ==
  LET Placed(t) == RecordPose(t, BestRobotPosition(t)) IN Placed(UpdateRails(Session(s)))

Unheard == [display |-> [at |-> 0, p |-> <<0, 0>>, rails |-> <<>>], plan |-> [at |-> 0, points |-> <<>>],
          map |-> Nowhere, status |-> "unknown", was |-> FALSE, trail |-> <<>>, last |-> Nowhere,
          seen |-> {}, rail |-> <<>>, split |-> 0, now |-> 0]

\* One broadcast through _handle_message and _on_state_update, or the answer to
\* get_map, which only replaces the map.
Hear(s, b) ==
  LET now == s.now + 1
      t == [s EXCEPT !.now = now]
  IN CASE b.topic = "display_map" -> UpdateTrail([t EXCEPT !.display = DisplayFrom(b, now)])
       [] b.topic = "plan_traj" -> UpdateTrail([t EXCEPT !.plan = TrajectoryFrom(b, now)])
       [] b.topic = "base_status" -> UpdateTrail([t EXCEPT !.status = b.status])
       [] b.topic = "get_map" -> [t EXCEPT !.map = b.map]

After(broadcasts) ==
  LET heard[n \in 0 .. Len(broadcasts)] ==
        IF n = 0 THEN Unheard ELSE Hear(heard[n - 1], broadcasts[n])
  IN  heard[Len(broadcasts)]

\* After every broadcast the trail ends where the robot is shown, however slowly
\* it creeps and whichever source places it, unless the trail is full; no two
\* neighbours in it are closer than the distance that thins it; and what follows
\* the midline of the rails is a part of the trail, of the same session.
Follows(s, pose, recorded) ==
  /\ Len(s.trail) <= MaxTrail /\ Len(s.rail) <= MaxTrail + 1
  /\ s.split <= Len(s.trail)
  /\ (s.rail = <<>>) = (s.seen = {})
  /\ \A i \in 1 .. Len(s.trail) - 1 : ~Close(s.trail[i], s.trail[i + 1])
  /\ recorded /\ s.map # Nowhere /\ pose # Nowhere /\ Len(s.trail) < MaxTrail =>
       s.trail # <<>> /\ Close(Last(s.trail), <<pose[1] - s.map.x, pose[2] - s.map.y>>)

TrailFollows(broadcasts) ==
  \A s \in {After(broadcasts)} :
    Follows(s, BestRobotPosition(s), broadcasts # <<>> /\ Last(broadcasts).topic # "get_map")
-----------------------------------------------------------------------------
\* _decimate_trail: the points of a long trail that are drawn, as indices.
Step(n, budget) == LET up == (n + budget - 1) \div budget IN IF up < 2 THEN 2 ELSE up

Decimated(n, max, tail) ==
  IF n <= max THEN [i \in 1 .. n |-> i]
  ELSE LET step == Step(n - tail, max - tail)
       IN  [i \in 1 .. (n - tail + step - 1) \div step |-> 1 + (i - 1) * step]
             \o [i \in 1 .. tail |-> n - tail + i]

\* Never more points than allowed, in order, from the first to the last, the
\* newest ones without a gap.
DecimationKeepsEnds(n, max, tail) ==
  LET kept == Decimated(n, max, tail)
  IN /\ Len(kept) <= max
     /\ \A i \in 1 .. Len(kept) - 1 : kept[i] < kept[i + 1]
     /\ n > 0 => kept[1] = 1 /\ Last(kept) = n
     /\ \A i \in DOMAIN kept : i > 1 /\ kept[i] > n - tail + 1 => kept[i] = kept[i - 1] + 1
=============================================================================
