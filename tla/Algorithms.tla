----------------------------- MODULE Algorithms -----------------------------
(***************************************************************************)
(* What is claimed of the start payloads, the zones, the trail and the map *)
(* grid, for the input that was chosen.  MCAlgorithms chooses it for TLC,  *)
(* and has the claims about the other pure parts.                          *)
(***************************************************************************)
EXTENDS Payloads, Pose, Grid

VARIABLE job

Has(kind) == job.kind = kind

\* Every fallback of a start asks for the job of the start, as far as its schema
\* has a mode and the passes for it.
FallbacksAskTheSame == Has("start") => SameJob(job.rooms, job.mode, job.map)

\* client.py:1268-1271 has the pass count of a CleanParam in the tag of its mode;
\* then one pass arrives whatever the mode.  Not so for start_clean (README 6).
PassesArrive ==
  Has("start") =>
    \A p \in Range(Chain(job.rooms, job.mode, job.map)) : Meant(p, job.map).passes = {1}

\* A zone request is for the rectangles that were drawn, its path a serpentine of
\* every second row inside.
ZonesAreWalked == Has("zone") => ZonesAsDrawn(job.zone, job.single, job.mode)

\* client.py:1517: adjacent points of a path differ by 1.  Not so at the end of a
\* row (README 6).
PathsAreConnected ==
  Has("zone") =>
    \A z \in Range(ZonesOf(job.zone, job.single)) :
      LET path == ZoneCoverage(Left(z), Bottom(z), Right(z), Top(z))
      IN  \A i \in 1 .. Len(path) - 1 : Adjacent(path[i], path[i + 1])

\* The trail ends where the robot is shown, and so does the part of a long one
\* that is drawn.
TrailKeepsUp ==
  /\ Has("poses") => TrailFollows(job.heard)
  /\ Has("trail") => DecimationKeepsEnds(job.n, job.max, job.tail)

\* A tap on the map means the place that was tapped, at every scale of the two
\* cameras.
TapsFindTheRoom ==
  Has("grid") => \A scale \in 1 .. 6 : TapFindsTheRoom(job.pixels, job.w, job.h, job.ox, job.oy, scale)

\* The cells of display_map are put where the robot saw them.
WallsAreWhereSeen ==
  Has("walls") => WallsArrive(job.seen, job.valued, job.w, job.first, job.other)
=============================================================================
