------------------------- MODULE CoordinatorProofs -------------------------
(***************************************************************************)
(* For any limits and intervals: the types of Coordinator, and that the    *)
(* entities become unavailable only after MaxFailures polls in a row have  *)
(* failed.  And of module Pose: for any broadcasts the trail ends where    *)
(* the robot is shown, by an invariant of what _handle_map_data does with  *)
(* one of them; and a trail of any length is drawn with its ends.  And of  *)
(* module Grid: what is packed in varints is read as it was, whatever the  *)
(* numbers, hence the room of a tap and the wall cells of a broadcast.     *)
(***************************************************************************)
EXTENDS Coordinator, Algorithms, WellFoundedInduction, TLAPS

LEMMA Parameters ==
  /\ MaxFailures \in Nat /\ FastPollMax \in Nat /\ FastPollMax >= 1
  /\ MaxPolls \in Nat /\ MaxPolls >= 1
  /\ MaxFailures < MaxPolls
<1>1. {MaxFailures, FastPollMax, Fast, Normal, MaxPolls} \subseteq Nat \ {0}
  BY CoordinatorAssumption DEF CoordinatorAssumption
<1>2. MaxFailures \in Nat \ {0} /\ FastPollMax \in Nat \ {0} /\ MaxPolls \in Nat \ {0}
  BY <1>1
<1> QED BY <1>2, CoordinatorAssumption DEF CoordinatorAssumption

\* TypeOK in two parts: what is told, and what is counted.
Flags == /\ phase \in {"status", "map", "publish", "running"}
         /\ status \in Statuses /\ prev \in Statuses
         /\ mapLoaded \in BOOLEAN /\ mapPending \in BOOLEAN
         /\ publishing \in BOOLEAN /\ refreshing \in BOOLEAN
         /\ dockStale \in BOOLEAN /\ available \in BOOLEAN
         /\ poll \in {"idle", "status", "map"}

Counts == /\ mapFetches \in Nat
          /\ failures \in Nat /\ failures <= MaxPolls
          /\ fast \in Nat /\ fast <= FastPollMax
          /\ interval \in {Fast, Normal}
          /\ missed \in Nat /\ missed <= MaxPolls

LEMMA TypeParts == TypeOK <=> Flags /\ Counts
<1>1. {mapLoaded, mapPending, publishing, refreshing, dockStale, available}
        \subseteq BOOLEAN
      <=> /\ mapLoaded \in BOOLEAN /\ mapPending \in BOOLEAN
          /\ publishing \in BOOLEAN /\ refreshing \in BOOLEAN
          /\ dockStale \in BOOLEAN /\ available \in BOOLEAN
  OBVIOUS
<1>2. {status, prev} \subseteq Statuses <=> status \in Statuses /\ prev \in Statuses
  OBVIOUS
<1>3. /\ failures \in 0 .. MaxPolls <=> failures \in Nat /\ failures <= MaxPolls
      /\ missed \in 0 .. MaxPolls <=> missed \in Nat /\ missed <= MaxPolls
      /\ fast \in 0 .. FastPollMax <=> fast \in Nat /\ fast <= FastPollMax
  BY Parameters
<1> QED BY <1>1, <1>2, <1>3 DEF TypeOK, Flags, Counts

LEMMA FlagsTyped == TypeOK /\ [Next]_vars => Flags'
<1> SUFFICES ASSUME Flags, [Next]_vars PROVE Flags'
  BY TypeParts
<1> USE DEF Flags, Statuses, statusVars, mapVars, pollVars, fastVars
<1>1. CASE Setup
  BY <1>1 DEF Setup, SetupStatus, SetupMap, SetupPublish
<1>2. CASE Broadcast
  <2>1. mapPending' \in BOOLEAN
    BY <1>2 DEF Broadcast, FetchIfMissing
  <2>2. refreshing' \in BOOLEAN /\ dockStale' \in BOOLEAN
    BY <1>2, Zenon DEF Broadcast
  <2> QED BY <1>2, <2>1, <2>2 DEF Broadcast
<1>3. CASE Fetch
  BY <1>3 DEF Fetch, FetchSucceeds, FetchPublishes, FetchFails
<1>4. CASE Refresh
  BY <1>4 DEF Refresh, RefreshSucceeds, RefreshFails, StatusAnswered
<1>5. CASE PollBegins
  BY <1>5 DEF PollBegins
<1>6. CASE PollFails
  <2>1. (failures' < MaxFailures) \in BOOLEAN
    OBVIOUS
  <2>2. available' \in BOOLEAN
    BY <1>6, <2>1, Zenon DEF PollFails
  <2> QED BY <1>6, <2>2 DEF PollFails
<1>7. CASE PollSucceeds \/ PollMap
  BY <1>7 DEF PollSucceeds, PollMap, PollEnds, StatusAnswered
<1>8. CASE UNCHANGED vars
  BY <1>8 DEF vars
<1> QED BY <1>1, <1>2, <1>3, <1>4, <1>5, <1>6, <1>7, <1>8 DEF Next, PollReturns

LEMMA CountsTyped == TypeOK /\ [Next]_vars => Counts'
<1> SUFFICES ASSUME Counts, [Next]_vars PROVE Counts'
  BY TypeParts
<1> USE Parameters DEF Counts, statusVars, mapVars, pollVars, fastVars
<1>1. CASE Setup
  BY <1>1 DEF Setup, SetupStatus, SetupMap, SetupPublish
<1>2. CASE Broadcast
  BY <1>2 DEF Broadcast, FetchIfMissing, EndFastPolling
<1>3. CASE Fetch
  BY <1>3 DEF Fetch, FetchSucceeds, FetchPublishes, FetchFails
<1>4. CASE Refresh \/ PollBegins \/ UNCHANGED vars
  BY <1>4 DEF Refresh, RefreshSucceeds, RefreshFails, PollBegins, vars
<1>5. CASE PollFails
  BY <1>5 DEF PollFails, Counted
<1>6. CASE PollSucceeds \/ PollMap
  <2>1. PollEnds => fast' \in Nat /\ fast' <= FastPollMax /\ interval' \in {Fast, Normal}
    BY DEF PollEnds, CountDown, EndFastPolling
  <2>2. CASE PollSucceeds
    BY <2>1, <2>2 DEF PollSucceeds
  <2>3. CASE PollMap
    BY <2>1, <2>3 DEF PollMap
  <2> QED BY <1>6, <2>2, <2>3
<1> QED BY <1>1, <1>2, <1>3, <1>4, <1>5, <1>6 DEF Next, PollReturns

\* Every variable keeps its type.
THEOREM TypeCorrect == Spec => []TypeOK
<1>1. Init => Flags
  BY DEF Init, Flags, Statuses
<1>2. Init => Counts
  BY Parameters DEF Init, Counts
<1>3. TypeOK /\ [Next]_vars => TypeOK'
  BY FlagsTyped, CountsTyped, TypeParts, PTL
<1> QED BY <1>1, <1>2, <1>3, TypeParts, PTL DEF Spec
-----------------------------------------------------------------------------
\* The failures the coordinator counts are those since the robot was last heard.
FailuresAreMissed == failures = missed

LEMMA FailuresStep == FailuresAreMissed /\ [Next]_vars => FailuresAreMissed'
<1> SUFFICES ASSUME FailuresAreMissed, [Next]_vars PROVE FailuresAreMissed'
  OBVIOUS
<1> USE DEF FailuresAreMissed, pollVars
<1>1. CASE Setup \/ Broadcast
  BY <1>1 DEF Setup, SetupStatus, SetupMap, SetupPublish, Broadcast
<1>2. CASE Fetch \/ Refresh
  BY <1>2 DEF Fetch, FetchSucceeds, FetchPublishes, FetchFails, Refresh,
              RefreshSucceeds, RefreshFails
<1>3. CASE PollFails
  BY <1>3 DEF PollFails
<1>4. CASE PollSucceeds
  BY <1>4 DEF PollSucceeds
<1>5. CASE PollBegins \/ PollMap \/ UNCHANGED vars
  BY <1>5 DEF PollBegins, PollMap, vars
<1> QED BY <1>1, <1>2, <1>3, <1>4, <1>5 DEF Next, PollReturns

\* Only a poll that fails makes the entities unavailable, and it is the last of
\* MaxFailures in a row.
LEMMA UnavailableStep ==
  ASSUME TypeOK, FailuresAreMissed, [Next]_vars, available, ~available'
  PROVE  missed' >= MaxFailures
<1> USE DEF pollVars
<1>1. PollFails
  <2>1. ~(Setup \/ Broadcast \/ Fetch \/ Refresh \/ PollBegins \/ UNCHANGED vars)
    BY DEF Setup, SetupStatus, SetupMap, SetupPublish, Broadcast, Fetch, FetchSucceeds,
           FetchPublishes, FetchFails, Refresh, RefreshSucceeds, RefreshFails,
           PollBegins, vars
  <2>2. ~(PollSucceeds \/ PollMap)
    BY DEF PollSucceeds, PollMap, PollEnds
  <2> QED BY <2>1, <2>2 DEF Next, PollReturns
<1>2. ~(failures' < MaxFailures)
  BY <1>1 DEF PollFails
<1>3. failures' = missed' /\ missed' \in Nat
  BY <1>1, Parameters, TypeParts DEF PollFails, Counted, FailuresAreMissed, Counts
<1> QED BY <1>2, <1>3, Parameters

\* The entities become unavailable only when MaxFailures polls in a row have
\* failed since the robot was last heard.
THEOREM UnavailableNeedsFailuresHolds == Spec => UnavailableNeedsFailures
<1>1. Init => FailuresAreMissed
  BY DEF Init, FailuresAreMissed
<1>2. TypeOK /\ FailuresAreMissed /\ [Next]_vars
        => [available /\ ~available' => missed' >= MaxFailures]_vars
  BY UnavailableStep
<1> QED BY <1>1, <1>2, FailuresStep, TypeCorrect, PTL DEF Spec, UnavailableNeedsFailures
-----------------------------------------------------------------------------
(***************************************************************************)
(* The part of a long trail that is drawn.                                 *)
(***************************************************************************)

\* Integer division and multiplication.
LEMMA Quotient ==
  ASSUME NEW a \in Nat, NEW d \in Nat \ {0}
  PROVE  a \div d \in Nat /\ (a \div d) * d <= a /\ a < (a \div d) * d + d
OBVIOUS

LEMMA Product ==
  ASSUME NEW x \in Nat, NEW y \in Nat, NEW z \in Nat
  PROVE  /\ x * z \in Nat
         /\ x <= y => x * z <= y * z
         /\ x < y => x * z + z <= y * z
<1>1. \A u \in Nat : u * z >= 0
  OBVIOUS
<1>2. x <= y => (y - x) * z >= 0
  BY <1>1
<1>3. x < y => (y - x - 1) * z >= 0
  BY <1>1
<1> QED BY <1>1, <1>2, <1>3

\* How far apart the older points are drawn, and how many of them.
LEMMA StepFits ==
  ASSUME NEW m \in Nat \ {0}, NEW b \in Nat \ {0},
         NEW step, step = Step(m, b), NEW q, q = (m + step - 1) \div step
  PROVE  step \in Nat /\ step >= 2 /\ q \in 1 .. b /\ (q - 1) * step < m
<1> DEFINE up == (m + b - 1) \div b
<1>1. up \in Nat /\ m + b - 1 < up * b + b
  BY Quotient
<1>2. step \in Nat /\ step >= 2 /\ up <= step
  <2> HIDE DEF up
  <2> QED BY <1>1 DEF Step, up
<1> HIDE DEF up
<1>3. m <= step * b
  <2>1. up * b \in Nat /\ up * b <= step * b /\ step * b \in Nat
    BY <1>1, <1>2, Product
  <2> QED BY <1>1, <2>1
<1>4. m + step - 1 \in Nat
  BY <1>2
<1>5. q \in Nat /\ q * step <= m + step - 1 /\ m + step - 1 < q * step + step
  <2> DEFINE a == m + step - 1
  <2>1. a \in Nat /\ step \in Nat \ {0} /\ q = a \div step
    BY <1>2, <1>4
  <2> HIDE DEF a
  <2>2. a \div step \in Nat /\ (a \div step) * step <= a /\ a < (a \div step) * step + step
    BY <2>1, Quotient
  <2>3. q \in Nat /\ q * step <= a /\ a < q * step + step
    BY <2>1, <2>2, Zenon
  <2> QED BY <2>3 DEF a
<1>6. q * step \in Nat /\ (q >= 1 => (q - 1) * step = q * step - step)
  BY <1>2, <1>5
<1>7. q >= 1
  <2>1. 0 * step = 0
    BY <1>2
  <2> QED BY <1>2, <1>5, <2>1
<1>8. q <= b
  <2>1. b < q => b * step + step <= q * step
    BY <1>2, <1>5, Product
  <2>2. b * step = step * b /\ b * step \in Nat
    BY <1>2
  <2> QED BY <1>2, <1>3, <1>5, <1>6, <2>1, <2>2
<1> QED BY <1>2, <1>5, <1>6, <1>7, <1>8

\* A trail of any length is drawn within any budget, in order, from its first to
\* its last point, and the newest points without a gap (_decimate_trail).
THEOREM DecimationKeepsEndsHolds ==
  ASSUME NEW n \in Nat, NEW max \in Nat, NEW tail \in Nat \ {0}, tail < max
  PROVE  DecimationKeepsEnds(n, max, tail)
<1>1. CASE n <= max
  <2> DEFINE kept == [i \in 1 .. n |-> i]
  <2>1. Decimated(n, max, tail) = kept
    BY <1>1 DEF Decimated
  <2>2. Len(kept) = n /\ DOMAIN kept = 1 .. n
    OBVIOUS
  <2>3. Last(kept) = kept[n]
    BY <2>2 DEF Last
  <2>4. /\ Len(kept) <= max
        /\ \A i \in 1 .. Len(kept) - 1 : kept[i] < kept[i + 1]
        /\ n > 0 => kept[1] = 1 /\ Last(kept) = n
        /\ \A i \in DOMAIN kept : i > 1 /\ kept[i] > n - tail + 1 => kept[i] = kept[i - 1] + 1
    BY <1>1, <2>2, <2>3
  <2> HIDE DEF kept
  <2> QED BY <2>1, <2>4 DEF DecimationKeepsEnds
<1>2. CASE n > max
  <2> DEFINE m == n - tail
             b == max - tail
             step == Step(m, b)
             q == (m + step - 1) \div step
             old == [i \in 1 .. q |-> 1 + (i - 1) * step]
             new == [i \in 1 .. tail |-> m + i]
             kept == old \o new
  <2>1. m \in Nat \ {0} /\ b \in Nat \ {0} /\ b + tail = max /\ m + tail = n
    BY <1>2
  <2>2. Decimated(n, max, tail) = kept
    <3>1. ~(n <= max)
      BY <1>2
    <3> QED BY <3>1, Zenon DEF Decimated
  <2> HIDE DEF m, b
  <2>3. step \in Nat /\ step >= 2 /\ q \in 1 .. b /\ (q - 1) * step < m
    BY <2>1, StepFits
  <2> HIDE DEF step, q
  <2>4. ASSUME NEW i \in 1 .. q
        PROVE  /\ (i - 1) * step \in Nat /\ 1 + (i - 1) * step <= m
               /\ i < q => 1 + i * step = 1 + (i - 1) * step + step
    <3>1. i - 1 \in Nat /\ q - 1 \in Nat /\ i - 1 <= q - 1
      BY <2>1, <2>3
    <3>2. (i - 1) * step \in Nat /\ (i - 1) * step <= (q - 1) * step /\ (q - 1) * step \in Nat
      BY <2>3, <3>1, Product
    <3>3. i * step = (i - 1) * step + step
      BY <2>3, <3>1
    <3> QED BY <2>1, <2>3, <3>2, <3>3
  <2>5. old \in Seq(Nat) /\ Len(old) = q /\ q \in Nat
    BY <2>1, <2>3, <2>4
  <2>6. new \in Seq(Nat) /\ Len(new) = tail
    BY <2>1
  <2>7. \A i \in 1 .. q : old[i] = 1 + (i - 1) * step /\ old[i] \in 1 .. m
    BY <2>1, <2>4
  <2>8. \A i \in 1 .. tail : new[i] = m + i
    OBVIOUS
  <2>9. \A i \in 1 .. q : i + 1 \in 1 .. q => old[i] < old[i + 1]
    <3> SUFFICES ASSUME NEW i \in 1 .. q, i + 1 \in 1 .. q PROVE old[i] < old[i + 1]
      OBVIOUS
    <3>1. i < q /\ (i + 1) - 1 = i
      BY <2>1, <2>3
    <3>2. old[i + 1] = 1 + i * step
      BY <2>7, <3>1
    <3> QED BY <2>3, <2>4, <2>7, <3>1, <3>2
  <2>10. old[1] = 1
    <3>1. 1 \in 1 .. q /\ (1 - 1) * step = 0
      BY <2>1, <2>3
    <3> QED BY <2>7, <3>1
  <2> HIDE DEF old, new
  <2>11. /\ kept \in Seq(Nat) /\ Len(kept) = q + tail
         /\ \A i \in 1 .. q : kept[i] = old[i]
         /\ \A i \in 1 .. tail : kept[q + i] = new[i]
    <3>1. \A s, u \in Seq(Nat) :
            /\ s \o u \in Seq(Nat) /\ Len(s \o u) = Len(s) + Len(u)
            /\ \A i \in 1 .. Len(s) : (s \o u)[i] = s[i]
            /\ \A i \in 1 .. Len(u) : (s \o u)[Len(s) + i] = u[i]
      OBVIOUS
    <3> QED BY <2>5, <2>6, <3>1
  <2> HIDE DEF kept
  <2>12. DOMAIN kept = 1 .. q + tail
    BY <2>11
  <2>13. \A i \in 1 .. q + tail : i \in 1 .. q \/ (i - q \in 1 .. tail /\ i = q + (i - q))
    BY <2>5
  <2>14. \A i \in q + 1 .. q + tail : kept[i] = m + (i - q)
    <3> SUFFICES ASSUME NEW i \in q + 1 .. q + tail PROVE kept[i] = m + (i - q)
      OBVIOUS
    <3>1. i - q \in 1 .. tail /\ q + (i - q) = i
      BY <2>5
    <3> QED BY <2>8, <2>11, <3>1
  <2>15. Len(kept) <= max
    BY <2>1, <2>3, <2>11
  <2>16. ASSUME NEW i \in 1 .. Len(kept) - 1 PROVE kept[i] < kept[i + 1]
    <3>1. CASE i < q
      <4>1. i \in 1 .. q /\ i + 1 \in 1 .. q
        BY <2>5, <2>11, <3>1
      <4> QED BY <2>9, <2>11, <4>1
    <3>2. CASE i = q
      <4>1. q \in 1 .. q /\ q + 1 \in q + 1 .. q + tail /\ (q + 1) - q = 1
        BY <2>3, <2>1, <2>5
      <4>2. kept[q] \in 1 .. m /\ kept[q + 1] = m + 1
        BY <2>7, <2>11, <2>14, <4>1
      <4> QED BY <2>1, <3>2, <4>2
    <3>3. CASE i > q
      <4>1. /\ i \in q + 1 .. q + tail /\ i + 1 \in q + 1 .. q + tail
            /\ (i + 1) - q = (i - q) + 1 /\ i - q \in Nat
        BY <2>5, <2>11, <3>3
      <4>2. kept[i] = m + (i - q) /\ kept[i + 1] = m + ((i - q) + 1)
        BY <2>14, <4>1
      <4> QED BY <2>1, <4>1, <4>2
    <3> QED BY <2>5, <3>1, <3>2, <3>3
  <2>17. kept[1] = 1 /\ Last(kept) = n
    <3>1. 1 \in 1 .. q /\ q + tail \in q + 1 .. q + tail /\ (q + tail) - q = tail
      BY <2>1, <2>3, <2>5
    <3>2. kept[1] = 1 /\ kept[q + tail] = m + tail
      BY <2>10, <2>11, <2>14, <3>1
    <3> QED BY <2>1, <2>11, <3>2 DEF Last
  <2>18. ASSUME NEW i \in DOMAIN kept, i > 1, kept[i] > n - tail + 1
         PROVE  kept[i] = kept[i - 1] + 1
    <3>1. n - tail + 1 = m + 1
      BY <2>1
    <3>2. CASE i \in 1 .. q
      BY <2>1, <2>7, <2>11, <2>18, <3>1, <3>2
    <3>3. CASE i = q + 1
      <4>1. kept[i] = m + 1
        <5>1. i \in q + 1 .. q + tail /\ i - q = 1
          BY <2>5, <3>3
        <5> QED BY <2>14, <5>1
      <4> QED BY <2>1, <2>18, <3>1, <4>1
    <3>4. CASE i > q + 1
      <4>1. /\ i \in q + 1 .. q + tail /\ i - 1 \in q + 1 .. q + tail
            /\ (i - 1) - q = (i - q) - 1 /\ i - q \in Nat
        BY <2>5, <2>12, <3>4
      <4>2. kept[i] = m + (i - q) /\ kept[i - 1] = m + ((i - q) - 1)
        BY <2>14, <4>1
      <4> QED BY <2>1, <4>1, <4>2
    <3> QED BY <2>5, <2>12, <3>2, <3>3, <3>4
  <2> QED BY <2>2, <2>15, <2>16, <2>17, <2>18 DEF DecimationKeepsEnds
<1> QED BY <1>1, <1>2
-----------------------------------------------------------------------------
\* Induction up to n, for a set of numbers.
LEMMA UpTo ==
  ASSUME NEW n \in Nat, NEW T, 0 \in T, \A i \in 1 .. n : i - 1 \in T => i \in T
  PROVE  \A i \in 0 .. n : i \in T
<1> DEFINE U == {i \in 0 .. n : i \notin T}
<1>1. SUFFICES ASSUME U # {} PROVE FALSE
  OBVIOUS
<1>2. U \subseteq Nat
  OBVIOUS
<1>3. PICK x \in U : \A y \in U : <<y, x>> \notin OpToRel(<, Nat)
  BY <1>1, <1>2, NatLessThanWellFounded, WFMin
<1>4. x \in 1 .. n /\ x - 1 \in T
  <2>1. x \in 1 .. n
    OBVIOUS
  <2>2. <<x - 1, x>> \in OpToRel(<, Nat)
    BY <2>1 DEF OpToRel
  <2>3. x - 1 \notin U
    BY <1>3, <2>2
  <2> QED BY <2>1, <2>3
<1> QED BY <1>4

\* A loop of n steps over S, and what it has computed after each.
Steps(n, S) == [1 .. n -> [S -> S]]

IsRun(l, n, base, step) == l[0] = base /\ \A i \in 1 .. n : l[i] = step[i][l[i - 1]]

\* Every loop has a run.
LEMMA Iteration ==
  ASSUME NEW n \in Nat, NEW S, NEW base \in S, NEW step \in Steps(n, S)
  PROVE  \E l \in [0 .. n -> S] : IsRun(l, n, base, step)
<1>0. step \in [1 .. n -> [S -> S]]
  BY DEF Steps
<1> DEFINE Runs(k) == {l \in [0 .. k -> S] :
                         l[0] = base /\ \A i \in 1 .. k : l[i] = step[i][l[i - 1]]}
           T == {k \in 0 .. n : Runs(k) # {}}
<1>1. 0 \in T
  <2>1. [i \in 0 .. 0 |-> base] \in Runs(0)
    OBVIOUS
  <2> QED BY <2>1
<1>2. ASSUME NEW k \in 1 .. n, k - 1 \in T PROVE k \in T
  <2>1. PICK l \in Runs(k - 1) : TRUE
    BY <1>2
  <2> DEFINE m == [i \in 0 .. k |-> IF i = k THEN step[k][l[k - 1]] ELSE l[i]]
  <2>2. l \in [0 .. k - 1 -> S] /\ l[0] = base
        /\ \A i \in 1 .. k - 1 : l[i] = step[i][l[i - 1]]
    BY <2>1
  <2>3. step[k][l[k - 1]] \in S
    BY <1>0, <2>2
  <2>4. m \in [0 .. k -> S]
    BY <2>2, <2>3
  <2>5. m[0] = base /\ m[k] = step[k][m[k - 1]]
    BY <2>2
  <2>6. \A i \in 1 .. k - 1 : m[i] = step[i][m[i - 1]]
    BY <2>2
  <2>7. m \in Runs(k)
    BY <2>4, <2>5, <2>6
  <2> QED BY <2>7
<1> HIDE DEF T
<1>3. \A k \in 0 .. n : k \in T
  BY <1>1, <1>2, UpTo
<1>4. n \in T
  BY <1>3
<1> QED BY <1>4 DEF T, IsRun
-----------------------------------------------------------------------------
Point == Int \X Int
-----------------------------------------------------------------------------
\* What Pose takes in and what it remembers.
Polyline == [xs : Seq(Int), ys : Seq(Int)]
Box == [x : Int, y : Int, w : Int, h : Int]
Rail == Seq(Point) \ {<<>>}
Pair == [1 .. 2 -> Int]

\* A status of a session, of none, or one that tells nothing.
SessionStatus == {"cleaning", "standby", "unknown"}

Heard ==
  [topic : {"display_map"}, p : Point, rails : Seq(Polyline)]
    \cup [topic : {"plan_traj"}, points : Seq(Point)]
    \cup [topic : {"base_status"}, status : SessionStatus]
    \cup [topic : {"get_map"}, map : Box]

PoseState ==
  [display : [at : Nat, p : Point, rails : Seq(Rail)], plan : [at : Nat, points : Seq(Point)],
   map : Box \cup {Nowhere}, status : SessionStatus, was : BOOLEAN, trail : Seq(Point),
   last : Point \cup {Nowhere}, seen : SUBSET Pair, rail : Seq(Pair), split : Nat, now : Nat]

\* What the loop over the points of a polyline or a trajectory does.
KeepsFinite(l, points) ==
  /\ l[0] = <<>>
  /\ \A i \in 1 .. Len(points) : l[i] = KeepFinite(l[i - 1], points[i])
  /\ FinitePoints(points) = l[Len(points)]

LEMMA FiniteLoop ==
  ASSUME NEW points \in Seq(Point)
  PROVE  \E l : KeepsFinite(l, points) /\ l[Len(points)] \in Seq(Point)
<1> DEFINE n == Len(points)
           S == Seq(Point)
           step == [i \in 1 .. n |-> [x \in S |-> KeepFinite(x, points[i])]]
           Runs(g) == g = [i \in 0 .. n |->
                             IF i = 0 THEN <<>> ELSE KeepFinite(g[i - 1], points[i])]
           c == CHOOSE g : Runs(g)
<1>1. n \in Nat /\ <<>> \in S
  OBVIOUS
<1>2. ASSUME NEW i \in 1 .. n, NEW x \in S
      PROVE  KeepFinite(x, points[i]) \in S
  <2>1. points[i] \in Point
    OBVIOUS
  <2>2. Append(x, points[i]) \in S
    BY <2>1
  <2> QED BY <2>2 DEF KeepFinite
<1> HIDE DEF S, n
<1>3. step \in Steps(n, S)
  BY <1>2 DEF Steps
<1>4. PICK m \in [0 .. n -> S] : m[0] = <<>> /\ \A i \in 1 .. n : m[i] = step[i][m[i - 1]]
  <2> HIDE DEF step
  <2>1. \E m \in [0 .. n -> S] : IsRun(m, n, <<>>, step)
    BY <1>1, <1>3, Iteration
  <2> QED BY <2>1 DEF IsRun
<1>5. ASSUME NEW i \in 1 .. n
      PROVE  m[i] = KeepFinite(m[i - 1], points[i])
  <2>1. m[i] = step[i][m[i - 1]]
    BY <1>4
  <2>2. m[i - 1] \in S
    BY <1>1, <1>4
  <2>3. step[i] = [x \in S |-> KeepFinite(x, points[i])]
    OBVIOUS
  <2> QED BY <2>1, <2>2, <2>3
<1>6. Runs(m)
  BY <1>1, <1>4, <1>5
<1>7. Runs(c)
  BY <1>6
<1>8. FinitePoints(points) = c[n]
  BY DEF FinitePoints, n
<1> HIDE DEF c
<1>9. c[0] = <<>> /\ \A i \in 1 .. n : c[i] = KeepFinite(c[i - 1], points[i])
  BY <1>1, <1>7
<1>10. c[n] \in S
  <2> DEFINE U == {i \in 0 .. n : c[i] \in S}
  <2>1. 0 \in U
    BY <1>1, <1>9
  <2>2. \A i \in 1 .. n : i - 1 \in U => i \in U
    BY <1>1, <1>2, <1>9
  <2> HIDE DEF U
  <2>3. \A i \in 0 .. n : i \in U
    BY <1>1, <2>1, <2>2, UpTo
  <2>4. n \in U
    BY <1>1, <2>3
  <2> QED BY <2>4 DEF U
<1> QED BY <1>8, <1>9, <1>10 DEF n, S, KeepsFinite

LEMMA FinitePointsType ==
  ASSUME NEW points \in Seq(Point)
  PROVE  FinitePoints(points) \in Seq(Point)
BY FiniteLoop DEF KeepsFinite

LEMMA RailPointsType ==
  ASSUME NEW item \in Polyline
  PROVE  RailPoints(item) \in Seq(Point)
<1> DEFINE points == [k \in DOMAIN item.xs |-> <<item.xs[k], item.ys[k]>>]
<1>1. item.xs \in Seq(Int) /\ item.ys \in Seq(Int)
  BY DEF Polyline
<1>2. CASE Len(item.xs) # Len(item.ys)
  BY <1>2 DEF RailPoints
<1>3. CASE Len(item.xs) = Len(item.ys)
  <2>1. \A k \in DOMAIN item.xs : <<item.xs[k], item.ys[k]>> \in Point
    BY <1>1, <1>3 DEF Point
  <2>2. DOMAIN item.xs = 1 .. Len(item.xs) /\ Len(item.xs) \in Nat
    BY <1>1
  <2>3. points \in [1 .. Len(item.xs) -> Point]
    BY <2>1, <2>2
  <2> HIDE DEF points
  <2>4. points \in Seq(Point)
    BY <2>2, <2>3
  <2>5. FinitePoints(points) \in Seq(Point)
    BY <2>4, FinitePointsType
  <2> QED BY <1>3, <2>5 DEF RailPoints, points
<1> QED BY <1>2, <1>3

\* The rails of a frame: those that have a point.
LEMMA RailPathsType ==
  ASSUME NEW items \in Seq(Polyline)
  PROVE  RailPaths(items) \in Seq(Rail)
<1> DEFINE n == Len(items)
           S == Seq(Rail)
           step == [i \in 1 .. n |-> [x \in S |-> KeepRail(x, items[i])]]
           Runs(g) == g = [i \in 0 .. n |->
                             IF i = 0 THEN <<>> ELSE KeepRail(g[i - 1], items[i])]
           c == CHOOSE g : Runs(g)
<1>1. n \in Nat /\ <<>> \in S
  OBVIOUS
<1>2. ASSUME NEW i \in 1 .. n, NEW x \in S
      PROVE  KeepRail(x, items[i]) \in S
  <2>1. items[i] \in Polyline
    OBVIOUS
  <2>2. CASE RailPoints(items[i]) # <<>>
    <3>1. RailPoints(items[i]) \in Rail
      BY <2>1, <2>2, RailPointsType DEF Rail
    <3>2. Append(x, RailPoints(items[i])) \in S
      BY <3>1
    <3> QED BY <2>2, <3>2 DEF KeepRail
  <2>3. CASE RailPoints(items[i]) = <<>>
    BY <2>3 DEF KeepRail
  <2> QED BY <2>2, <2>3
<1> HIDE DEF S, n
<1>3. step \in Steps(n, S)
  BY <1>2 DEF Steps
<1>4. PICK m \in [0 .. n -> S] : m[0] = <<>> /\ \A i \in 1 .. n : m[i] = step[i][m[i - 1]]
  <2> HIDE DEF step
  <2>1. \E m \in [0 .. n -> S] : IsRun(m, n, <<>>, step)
    BY <1>1, <1>3, Iteration
  <2> QED BY <2>1 DEF IsRun
<1>5. ASSUME NEW i \in 1 .. n
      PROVE  m[i] = KeepRail(m[i - 1], items[i])
  <2>1. m[i] = step[i][m[i - 1]]
    BY <1>4
  <2>2. m[i - 1] \in S
    BY <1>1, <1>4
  <2>3. step[i] = [x \in S |-> KeepRail(x, items[i])]
    OBVIOUS
  <2> QED BY <2>1, <2>2, <2>3
<1>6. Runs(m)
  BY <1>1, <1>4, <1>5
<1>7. Runs(c)
  BY <1>6
<1>8. RailPaths(items) = c[n]
  BY DEF RailPaths, n
<1> HIDE DEF c
<1>9. c[0] = <<>> /\ \A i \in 1 .. n : c[i] = KeepRail(c[i - 1], items[i])
  BY <1>1, <1>7
<1>10. c[n] \in S
  <2> DEFINE U == {i \in 0 .. n : c[i] \in S}
  <2>1. 0 \in U
    BY <1>1, <1>9
  <2>2. \A i \in 1 .. n : i - 1 \in U => i \in U
    BY <1>1, <1>2, <1>9
  <2> HIDE DEF U
  <2>3. \A i \in 0 .. n : i \in U
    BY <1>1, <2>1, <2>2, UpTo
  <2>4. n \in U
    BY <1>1, <2>3
  <2> QED BY <2>4 DEF U
<1> QED BY <1>8, <1>10 DEF S
-----------------------------------------------------------------------------
\* Distances are symmetric, and nothing is far from itself.
LEMMA CloseIsSymmetric ==
  ASSUME NEW a \in Point, NEW b \in Point
  PROVE  (Close(a, b) = Close(b, a)) /\ Close(a, a)
<1>1. a[1] \in Int /\ a[2] \in Int /\ b[1] \in Int /\ b[2] \in Int
  BY DEF Point
<1>2. \A x, y \in Int : (x - y) * (x - y) = (y - x) * (y - x)
  OBVIOUS
<1>3. (a[1] - b[1]) * (a[1] - b[1]) = (b[1] - a[1]) * (b[1] - a[1])
      /\ (a[2] - b[2]) * (a[2] - b[2]) = (b[2] - a[2]) * (b[2] - a[2])
  BY <1>1, <1>2
<1>4. MinDist * MinDist > 0
  <2>1. MinDist \in Nat \ {0}
    BY PoseAssumption
  <2>2. \A k \in Nat \ {0} : k * k > 0
    OBVIOUS
  <2> QED BY <2>1, <2>2
<1>5. (a[1] - a[1]) * (a[1] - a[1]) + (a[2] - a[2]) * (a[2] - a[2]) = 0
  BY <1>1
<1>6. Close(a, a)
  BY <1>4, <1>5 DEF Close
<1>7. Close(a, b) = Close(b, a)
  BY <1>3, Zenon DEF Close
<1> QED BY <1>6, <1>7

\* The positions of Pose, and of what they are made.
LEMMA PositionType ==
  ASSUME NEW s \in PoseState
  PROVE  BestRobotPosition(s) \in Point \cup {Nowhere}
<1>1. s.display.p \in Point
  BY DEF PoseState
<1>2. s.plan.points # <<>> => Head(s.plan.points) \in Point
  BY DEF PoseState
<1> QED BY <1>1, <1>2 DEF BestRobotPosition

LEMMA PositionOfFrame ==
  ASSUME NEW s, NEW t, s.display = t.display, s.plan = t.plan, s.map = t.map
  PROVE  BestRobotPosition(s) = BestRobotPosition(t)
BY DEF BestRobotPosition

LEMMA FramesType ==
  ASSUME NEW b \in Heard, NEW now \in Nat
  PROVE  /\ b.topic = "display_map" =>
              DisplayFrom(b, now) \in [at : Nat, p : Point, rails : Seq(Rail)]
         /\ b.topic = "plan_traj" => TrajectoryFrom(b, now) \in [at : Nat, points : Seq(Point)]
<1>1. ASSUME b.topic = "display_map"
      PROVE  DisplayFrom(b, now) \in [at : Nat, p : Point, rails : Seq(Rail)]
  <2>1. b.p \in Point /\ b.rails \in Seq(Polyline)
    BY <1>1 DEF Heard
  <2>2. RailPaths(b.rails) \in Seq(Rail)
    BY <2>1, RailPathsType
  <2>3. <<IF Finite(b.p[1]) THEN b.p[1] ELSE 0, IF Finite(b.p[2]) THEN b.p[2] ELSE 0>> \in Point
    BY <2>1 DEF Point
  <2> QED BY <2>2, <2>3 DEF DisplayFrom
<1>2. ASSUME b.topic = "plan_traj"
      PROVE  TrajectoryFrom(b, now) \in [at : Nat, points : Seq(Point)]
  <2>1. b.points \in Seq(Point)
    BY <1>2 DEF Heard
  <2>2. FinitePoints(b.points) \in Seq(Point)
    BY <2>1, FinitePointsType
  <2> QED BY <2>2 DEF TrajectoryFrom
<1> QED BY <1>1, <1>2
-----------------------------------------------------------------------------
\* The inductive invariant: the trail, and the midline of the rails.
TrailOk(s) ==
  /\ Len(s.trail) <= MaxTrail /\ s.split <= Len(s.trail)
  /\ \A i \in 1 .. Len(s.trail) - 1 : ~Close(s.trail[i], s.trail[i + 1])
  /\ IF s.trail = <<>> THEN s.last = Nowhere
     ELSE s.last \in Point /\ s.last = s.trail[Len(s.trail)]

RailOk(s) == Len(s.rail) <= MaxTrail + 1 /\ (s.rail = <<>> <=> s.seen = {})

Good(s) == s \in PoseState /\ TrailOk(s) /\ RailOk(s)

\* The frames of two states are the same.
SameFrames(s, t) == s.display = t.display /\ s.plan = t.plan /\ s.map = t.map

LEMMA PointIsSomewhere ==
  ASSUME NEW p \in Point
  PROVE  p # Nowhere
<1>1. p = <<p[1], p[2]>>
  BY DEF Point
<1>2. Len(<<p[1], p[2]>>) = 2 /\ Len(<<>>) = 0
  OBVIOUS
<1> QED BY <1>1, <1>2 DEF Nowhere

LEMMA SessionKeeps ==
  ASSUME NEW s, Good(s)
  PROVE  Good(Session(s)) /\ SameFrames(s, Session(s))
<1> DEFINE fresh == [s EXCEPT !.trail = <<>>, !.last = Nowhere, !.was = TRUE,
                              !.seen = {}, !.rail = <<>>, !.split = 0]
           same == [s EXCEPT !.was = (s.status = "cleaning")]
<1>1. s \in PoseState
  BY DEF Good
<1>2. Session(s) \in {s, fresh, same}
  BY DEF Session
<1>3. Good(fresh) /\ SameFrames(s, fresh)
  <2>1. fresh \in PoseState
    <3>1. /\ <<>> \in Seq(Point) /\ <<>> \in Seq(Pair) /\ {} \in SUBSET Pair
          /\ Nowhere \in Point \cup {Nowhere} /\ 0 \in Nat /\ TRUE \in BOOLEAN
      OBVIOUS
    <3> QED BY <1>1, <3>1 DEF PoseState
  <2>2. /\ fresh.trail = <<>> /\ fresh.last = Nowhere /\ fresh.seen = {} /\ fresh.rail = <<>> /\ fresh.split = 0
        /\ SameFrames(s, fresh)
    BY <1>1 DEF PoseState, SameFrames
  <2> HIDE DEF fresh
  <2>3. MaxTrail \in Nat
    BY PoseAssumption
  <2>4. Len(<<>>) = 0 /\ 1 .. 0 - 1 = {}
    OBVIOUS
  <2> QED BY <2>1, <2>2, <2>3, <2>4 DEF Good, TrailOk, RailOk
<1>4. Good(same) /\ SameFrames(s, same)
  <2>1. same \in PoseState
    BY <1>1 DEF PoseState
  <2>2. /\ same.trail = s.trail /\ same.last = s.last /\ same.seen = s.seen /\ same.rail = s.rail
        /\ same.split = s.split /\ SameFrames(s, same)
    BY <1>1 DEF PoseState, SameFrames
  <2> HIDE DEF same
  <2> QED BY <2>1, <2>2 DEF Good, TrailOk, RailOk
<1> HIDE DEF fresh, same
<1>5. SameFrames(s, s)
  BY DEF SameFrames
<1> QED BY <1>2, <1>3, <1>4, <1>5

\* A pose is near the end of the trail, unless the trail is full.
Placed(s, pose) ==
  s.map # Nowhere /\ pose # Nowhere /\ Len(s.trail) < MaxTrail =>
    s.trail # <<>> /\ Close(s.trail[Len(s.trail)], <<pose[1] - s.map.x, pose[2] - s.map.y>>)

LEMMA RecordKeeps ==
  ASSUME NEW s, Good(s), NEW p \in Point, Len(s.trail) < MaxTrail
  PROVE  /\ Good(Record(s, p)) /\ SameFrames(s, Record(s, p))
         /\ LET t == Record(s, p) IN t.trail # <<>> /\ Close(t.trail[Len(t.trail)], p)
<1> DEFINE n == Len(s.trail)
<1>1. s \in PoseState /\ s.trail \in Seq(Point) /\ n \in Nat
  BY DEF Good, PoseState
<1>2. CASE s.last # Nowhere /\ Close(p, s.last)
  <2>1. Record(s, p) = s
    BY <1>2 DEF Record
  <2>2. s.trail # <<>> /\ s.last \in Point /\ s.last = s.trail[n]
    BY <1>2 DEF Good, TrailOk
  <2>3. Close(s.last, p)
    BY <1>2, <2>2, CloseIsSymmetric
  <2> QED BY <2>1, <2>2, <2>3 DEF SameFrames
<1>3. CASE ~(s.last # Nowhere /\ Close(p, s.last))
  <2> DEFINE t == [s EXCEPT !.trail = Append(s.trail, p), !.last = p]
  <2>1. Record(s, p) = t
    BY <1>3 DEF Record
  <2>2. t \in PoseState
    <3>1. Append(s.trail, p) \in Seq(Point) /\ p \in Point \cup {Nowhere}
      BY <1>1
    <3> QED BY <1>1, <3>1 DEF PoseState
  <2>3. /\ t.trail = Append(s.trail, p) /\ t.last = p /\ t.seen = s.seen /\ t.rail = s.rail
        /\ t.split = s.split /\ SameFrames(s, t)
    BY <1>1 DEF PoseState, SameFrames
  <2> HIDE DEF t
  <2>4. /\ Len(t.trail) = n + 1 /\ t.trail # <<>> /\ t.trail[n + 1] = p
        /\ \A i \in 1 .. n : t.trail[i] = s.trail[i]
    BY <1>1, <2>3
  <2>5. ASSUME NEW i \in 1 .. Len(t.trail) - 1 PROVE ~Close(t.trail[i], t.trail[i + 1])
    <3>1. i \in 1 .. n
      BY <1>1, <2>4
    <3>2. CASE i \in 1 .. n - 1
      <4>1. i + 1 \in 1 .. n
        BY <1>1, <3>2
      <4>2. t.trail[i] = s.trail[i] /\ t.trail[i + 1] = s.trail[i + 1]
        BY <2>4, <3>1, <4>1
      <4>3. ~Close(s.trail[i], s.trail[i + 1])
        BY <3>2 DEF Good, TrailOk
      <4> QED BY <4>2, <4>3
    <3>3. CASE i = n
      <4>1. s.trail # <<>>
        BY <1>1, <3>1
      <4>2. s.last \in Point /\ s.last = s.trail[n]
        BY <4>1 DEF Good, TrailOk
      <4>3. s.last # Nowhere
        BY <4>2, PointIsSomewhere
      <4>4. ~Close(s.last, p)
        BY <1>3, <4>2, <4>3, CloseIsSymmetric
      <4>5. t.trail[i] = s.trail[n] /\ t.trail[i + 1] = p
        BY <2>4, <3>1, <3>3
      <4> QED BY <4>2, <4>4, <4>5
    <3> QED BY <1>1, <3>1, <3>2, <3>3
  <2>6. TrailOk(t)
    <3>1. Len(t.trail) <= MaxTrail /\ t.split <= Len(t.trail)
      <4>1. s.split <= n /\ s.split \in Nat /\ MaxTrail \in Nat
        BY <1>1, PoseAssumption DEF Good, TrailOk, PoseState
      <4> QED BY <1>1, <2>3, <2>4, <4>1
    <3>2. t.last = t.trail[Len(t.trail)]
      BY <2>3, <2>4
    <3> QED BY <2>3, <2>4, <2>5, <3>1, <3>2 DEF TrailOk
  <2>7. RailOk(t)
    BY <2>3 DEF Good, RailOk
  <2>8. Close(t.trail[Len(t.trail)], p)
    BY <2>4, CloseIsSymmetric
  <2> QED BY <2>1, <2>2, <2>3, <2>4, <2>6, <2>7, <2>8 DEF Good
<1> QED BY <1>2, <1>3

LEMMA RecordPoseKeeps ==
  ASSUME NEW s, Good(s), NEW pose \in Point \cup {Nowhere}
  PROVE  /\ Good(RecordPose(s, pose)) /\ SameFrames(s, RecordPose(s, pose))
         /\ Placed(RecordPose(s, pose), pose)
<1> DEFINE t == RecordPose(s, pose)
<1>1. s \in PoseState
  BY DEF Good
<1>2. CASE s.map = Nowhere \/ pose = Nowhere \/ Len(s.trail) >= MaxTrail
  <2>1. t = s
    BY <1>2 DEF RecordPose
  <2>2. Placed(s, pose)
    <3>1. Len(s.trail) \in Nat /\ MaxTrail \in Nat
      BY <1>1, PoseAssumption DEF PoseState
    <3> QED BY <1>2, <3>1 DEF Placed
  <2> QED BY <2>1, <2>2 DEF SameFrames
<1>3. CASE ~(s.map = Nowhere \/ pose = Nowhere \/ Len(s.trail) >= MaxTrail)
  <2> DEFINE p == <<pose[1] - s.map.x, pose[2] - s.map.y>>
  <2>1. t = Record(s, p)
    BY <1>3 DEF RecordPose
  <2>2. p \in Point
    <3>1. s.map \in Box /\ pose \in Point
      BY <1>1, <1>3 DEF PoseState
    <3> QED BY <3>1 DEF Box, Point
  <2>3. Len(s.trail) < MaxTrail
    <3>1. Len(s.trail) \in Nat /\ MaxTrail \in Nat
      BY <1>1, PoseAssumption DEF PoseState
    <3> QED BY <1>3, <3>1
  <2> HIDE DEF p
  <2>4. /\ Good(Record(s, p)) /\ SameFrames(s, Record(s, p))
        /\ Record(s, p).trail # <<>>
        /\ Close(Record(s, p).trail[Len(Record(s, p).trail)], p)
    BY <2>2, <2>3, RecordKeeps
  <2> HIDE DEF t
  <2>5. t.map = s.map
    BY <2>1, <2>4 DEF SameFrames
  <2>6. Placed(t, pose)
    BY <2>1, <2>4, <2>5 DEF Placed, p
  <2> QED BY <2>1, <2>4, <2>6 DEF t
<1> QED BY <1>2, <1>3
-----------------------------------------------------------------------------
LEMMA QuarterType ==
  ASSUME NEW n \in Int
  PROVE  Quarter(n) \in Int
<1>1. n \div 4 \in Int
  OBVIOUS
<1> DEFINE m == n \div 4
<1> HIDE DEF m
<1>2. m \in Int
  BY <1>1 DEF m
<1>3. Quarter(n) = m \/ Quarter(n) = m + 1
  BY DEF Quarter, m
<1> QED BY <1>2, <1>3

\* A quad of the rails r and q.
IsQuad(r, q, i) ==
  r[i] \in Point /\ q[i] \in Point /\ r[i + 1] \in Point /\ q[i + 1] \in Point

LEMMA CoordinatesOfPoint ==
  ASSUME NEW p \in Point, NEW k \in 1 .. 2
  PROVE  p[k] \in Int
<1>1. p[1] \in Int /\ p[2] \in Int
  BY DEF Point
<1>2. k = 1 \/ k = 2
  OBVIOUS
<1> QED BY <1>1, <1>2

LEMMA QuadKeyType ==
  ASSUME NEW r, NEW q, NEW i, IsQuad(r, q, i)
  PROVE  QuadKey(r, q, i) \in Pair
<1>1. ASSUME NEW k \in 1 .. 2
      PROVE  Quarter(r[i][k] + q[i][k] + r[i + 1][k] + q[i + 1][k]) \in Int
  <2>1. r[i][k] \in Int /\ q[i][k] \in Int /\ r[i + 1][k] \in Int /\ q[i + 1][k] \in Int
    BY CoordinatesOfPoint DEF IsQuad
  <2>2. r[i][k] + q[i][k] + r[i + 1][k] + q[i + 1][k] \in Int
    BY <2>1
  <2> QED BY <2>2, QuarterType
<1> QED BY <1>1 DEF QuadKey, Pair

\* A quad keeps everything but the midline and the keys.
SamePlace(s, t) == SameFrames(s, t) /\ s.trail = t.trail

LEMMA AddQuadKeeps ==
  ASSUME NEW s, Good(s), s.map # Nowhere, NEW r, NEW q, NEW i, IsQuad(r, q, i)
  PROVE  Good(AddQuad(s, r, q, i)) /\ SamePlace(s, AddQuad(s, r, q, i))
<1> DEFINE Middle(j) ==
             [k \in 1 .. 2 |-> r[j][k] + q[j][k] - 2 * (IF k = 1 THEN s.map.x ELSE s.map.y)]
           key == QuadKey(r, q, i)
           a == Middle(i)
           b == Middle(i + 1)
           more == (IF s.rail = <<>> THEN <<a>> ELSE <<>>) \o <<b>>
           rail == IF Len(s.rail) < MaxTrail THEN s.rail \o more ELSE s.rail
           t == [s EXCEPT !.seen = @ \cup {key}, !.rail = rail]
<1>1. s \in PoseState /\ s.rail \in Seq(Pair) /\ MaxTrail \in Nat /\ MaxTrail > 0
  BY PoseAssumption DEF Good, PoseState
<1>2. key \in Pair
  BY QuadKeyType
<1>3. a \in Pair /\ b \in Pair
  <2>1. s.map.x \in Int /\ s.map.y \in Int
    BY <1>1 DEF PoseState, Box
  <2>2. ASSUME NEW k \in 1 .. 2
        PROVE  /\ r[i][k] + q[i][k] - 2 * (IF k = 1 THEN s.map.x ELSE s.map.y) \in Int
               /\ r[i + 1][k] + q[i + 1][k] - 2 * (IF k = 1 THEN s.map.x ELSE s.map.y) \in Int
    <3>1. r[i][k] \in Int /\ q[i][k] \in Int /\ r[i + 1][k] \in Int /\ q[i + 1][k] \in Int
      BY CoordinatesOfPoint DEF IsQuad
    <3> QED BY <2>1, <3>1
  <2> QED BY <2>2 DEF Pair
<1>4. AddQuad(s, r, q, i) \in {s, t}
  BY DEF AddQuad
<1> HIDE DEF a, b, key
<1>5. rail \in Seq(Pair) /\ rail # <<>> /\ Len(rail) <= MaxTrail + 1
  <2>1. CASE ~(Len(s.rail) < MaxTrail)
    <3>1. Len(s.rail) > 0
      BY <1>1, <2>1
    <3>2. s.rail # <<>>
      BY <3>1
    <3> QED BY <1>1, <2>1, <3>2 DEF Good, RailOk
  <2>2. CASE Len(s.rail) < MaxTrail
    <3> DEFINE start == IF s.rail = <<>> THEN <<a>> ELSE <<>>
    <3>1. start \in Seq(Pair) /\ Len(start) = (IF s.rail = <<>> THEN 1 ELSE 0)
      BY <1>3
    <3>2. <<b>> \in Seq(Pair) /\ Len(<<b>>) = 1
      BY <1>3
    <3>3. rail = s.rail \o (start \o <<b>>)
      BY <2>2
    <3> HIDE DEF start, rail
    <3>4. \A x, y \in Seq(Pair) : x \o y \in Seq(Pair) /\ Len(x \o y) = Len(x) + Len(y)
      OBVIOUS
    <3>5. start \o <<b>> \in Seq(Pair) /\ Len(start \o <<b>>) = Len(start) + 1
      BY <3>1, <3>2, <3>4
    <3>6. rail \in Seq(Pair) /\ Len(rail) = Len(s.rail) + (Len(start) + 1)
      BY <1>1, <3>3, <3>4, <3>5
    <3>7. Len(s.rail) \in Nat /\ (s.rail = <<>> => Len(s.rail) = 0)
      BY <1>1
    <3>8. Len(rail) <= MaxTrail + 1 /\ Len(rail) # 0
      <4>1. CASE s.rail = <<>>
        <5>1. Len(start) = 1 /\ Len(s.rail) = 0
          BY <3>1, <3>7, <4>1
        <5> QED BY <1>1, <3>6, <5>1
      <4>2. CASE s.rail # <<>>
        <5>1. Len(start) = 0
          BY <3>1, <4>2
        <5> QED BY <1>1, <2>2, <3>6, <3>7, <5>1
      <4> QED BY <4>1, <4>2
    <3>9. rail # <<>>
      BY <3>8
    <3> QED BY <3>6, <3>8, <3>9
  <2> QED BY <2>1, <2>2
<1> HIDE DEF rail
<1>6. t \in PoseState
  <2>1. s.seen \cup {key} \in SUBSET Pair
    BY <1>1, <1>2 DEF PoseState
  <2> QED BY <1>1, <1>5, <2>1 DEF PoseState
<1>7. /\ t.seen = s.seen \cup {key} /\ t.rail = rail /\ t.last = s.last /\ t.split = s.split
      /\ SamePlace(s, t)
  BY <1>1 DEF PoseState, SamePlace, SameFrames
<1> HIDE DEF t
<1>8. Good(t)
  <2>1. TrailOk(t)
    BY <1>7 DEF Good, TrailOk, SamePlace
  <2>2. RailOk(t)
    BY <1>5, <1>7 DEF RailOk
  <2> QED BY <1>6, <2>1, <2>2 DEF Good
<1>9. SamePlace(s, s)
  BY DEF SamePlace, SameFrames
<1> QED BY <1>4, <1>7, <1>8, <1>9

LEMMA AddQuadsKeep ==
  ASSUME NEW s, Good(s), s.map # Nowhere, NEW r \in Rail, NEW q \in Rail
  PROVE  Good(AddQuads(s, r, q)) /\ SamePlace(s, AddQuads(s, r, q))
<1> DEFINE n == (IF Len(r) < Len(q) THEN Len(r) ELSE Len(q)) - 1
           S == {t \in PoseState : Good(t) /\ SamePlace(s, t)}
           step == [i \in 1 .. n |-> [x \in S |-> AddQuad(x, r, q, i)]]
           Runs(g) == g = [i \in 0 .. n |-> IF i = 0 THEN s ELSE AddQuad(g[i - 1], r, q, i)]
           c == CHOOSE g : Runs(g)
<1>1. /\ n \in Nat /\ n < Len(r) /\ n < Len(q)
      /\ r \in Seq(Point) /\ q \in Seq(Point)
  BY DEF Rail
<1>2. s \in S
  BY DEF Good, SamePlace, SameFrames
<1>3. ASSUME NEW i \in 1 .. n, NEW x \in S
      PROVE  AddQuad(x, r, q, i) \in S
  <2>1. IsQuad(r, q, i)
    <3>1. i \in 1 .. Len(r) /\ i + 1 \in 1 .. Len(r) /\ i \in 1 .. Len(q) /\ i + 1 \in 1 .. Len(q)
      BY <1>1
    <3> QED BY <1>1, <3>1 DEF IsQuad
  <2>2. Good(x) /\ SamePlace(s, x) /\ x.map # Nowhere
    BY DEF SamePlace, SameFrames
  <2>3. Good(AddQuad(x, r, q, i)) /\ SamePlace(x, AddQuad(x, r, q, i))
    BY <2>1, <2>2, AddQuadKeeps
  <2> QED BY <2>2, <2>3, Zenon DEF Good, SamePlace, SameFrames
<1> HIDE DEF S, n
<1>4. step \in Steps(n, S)
  BY <1>3 DEF Steps
<1>5. PICK m \in [0 .. n -> S] : m[0] = s /\ \A i \in 1 .. n : m[i] = step[i][m[i - 1]]
  <2> HIDE DEF step
  <2>1. \E m \in [0 .. n -> S] : IsRun(m, n, s, step)
    BY <1>1, <1>2, <1>4, Iteration
  <2> QED BY <2>1 DEF IsRun
<1>6. ASSUME NEW i \in 1 .. n
      PROVE  m[i] = AddQuad(m[i - 1], r, q, i)
  <2>1. m[i] = step[i][m[i - 1]]
    BY <1>5
  <2>2. m[i - 1] \in S
    BY <1>1, <1>5
  <2>3. step[i] = [x \in S |-> AddQuad(x, r, q, i)]
    OBVIOUS
  <2> QED BY <2>1, <2>2, <2>3
<1>7. Runs(m)
  BY <1>1, <1>5, <1>6
<1>8. Runs(c)
  BY <1>7
<1>9. AddQuads(s, r, q) = c[n]
  BY DEF AddQuads, n
<1> HIDE DEF c
<1>10. c[0] = s /\ \A i \in 1 .. n : c[i] = AddQuad(c[i - 1], r, q, i)
  BY <1>1, <1>8
<1>11. c[n] \in S
  <2> DEFINE U == {i \in 0 .. n : c[i] \in S}
  <2>1. 0 \in U
    BY <1>1, <1>2, <1>10
  <2>2. \A i \in 1 .. n : i - 1 \in U => i \in U
    BY <1>1, <1>3, <1>10
  <2> HIDE DEF U
  <2>3. \A i \in 0 .. n : i \in U
    BY <1>1, <2>1, <2>2, UpTo
  <2>4. n \in U
    BY <1>1, <2>3
  <2> QED BY <2>4 DEF U
<1> QED BY <1>9, <1>11 DEF S

LEMMA UpdateRailsKeeps ==
  ASSUME NEW s, Good(s)
  PROVE  Good(UpdateRails(s)) /\ SameFrames(s, UpdateRails(s))
<1>1. CASE s.map = Nowhere \/ Len(s.display.rails) # 2 \/ Cardinality(s.seen) >= MaxQuads
  BY <1>1 DEF UpdateRails, SameFrames
<1>2. CASE ~(s.map = Nowhere \/ Len(s.display.rails) # 2 \/ Cardinality(s.seen) >= MaxQuads)
  <2> DEFINE r == s.display.rails[1]
             q == s.display.rails[2]
             t == AddQuads(s, r, q)
             u == Superseding(s, t)
             split == IF t.rail # s.rail THEN Len(t.trail) ELSE t.split
  <2>1. r \in Rail /\ q \in Rail
    <3>1. s.display.rails \in Seq(Rail) /\ Len(s.display.rails) = 2
      BY <1>2 DEF Good, PoseState
    <3> QED BY <3>1
  <2>2. UpdateRails(s) = u
    BY <1>2 DEF UpdateRails
  <2> HIDE DEF r, q
  <2>3. Good(t) /\ SamePlace(s, t)
    BY <1>2, <2>1, AddQuadsKeep
  <2> HIDE DEF t
  <2>4. t \in PoseState /\ Len(t.trail) \in Nat
    BY <2>3 DEF Good, PoseState
  <2>5. split \in Nat /\ split <= Len(t.trail)
    BY <2>3, <2>4 DEF Good, TrailOk, PoseState
  <2>6. u = [t EXCEPT !.split = split]
    BY DEF Superseding
  <2> HIDE DEF split, u
  <2>7. u \in PoseState
    BY <2>4, <2>5, <2>6 DEF PoseState
  <2>8. /\ u.trail = t.trail /\ u.last = t.last /\ u.rail = t.rail /\ u.seen = t.seen
        /\ u.split = split /\ SameFrames(t, u)
    BY <2>4, <2>6 DEF PoseState, SameFrames
  <2>9. Good(u)
    BY <2>3, <2>5, <2>7, <2>8 DEF Good, TrailOk, RailOk
  <2>10. SameFrames(s, u)
    BY <2>3, <2>8 DEF SamePlace, SameFrames
  <2> QED BY <2>2, <2>9, <2>10
<1> QED BY <1>1, <1>2

LEMMA UpdateTrailKeeps ==
  ASSUME NEW s, Good(s)
  PROVE  Good(UpdateTrail(s)) /\ Placed(UpdateTrail(s), BestRobotPosition(UpdateTrail(s)))
<1> DEFINE t == UpdateRails(Session(s))
           pose == BestRobotPosition(t)
           u == RecordPose(t, pose)
<1>1. Good(t)
  BY SessionKeeps, UpdateRailsKeeps
<1>2. UpdateTrail(s) = u
  BY DEF UpdateTrail
<1> HIDE DEF t
<1>3. pose \in Point \cup {Nowhere}
  BY <1>1, PositionType DEF Good
<1> HIDE DEF pose
<1>4. Good(u) /\ SameFrames(t, u) /\ Placed(u, pose)
  BY <1>1, <1>3, RecordPoseKeeps
<1> HIDE DEF u
<1>5. BestRobotPosition(u) = pose
  BY <1>4, PositionOfFrame DEF SameFrames, pose
<1> QED BY <1>2, <1>4, <1>5

LEMMA HearKeeps ==
  ASSUME NEW s, Good(s), NEW b \in Heard
  PROVE  /\ Good(Hear(s, b))
         /\ b.topic # "get_map" => Placed(Hear(s, b), BestRobotPosition(Hear(s, b)))
<1> DEFINE now == s.now + 1
           t == [s EXCEPT !.now = now]
<1>1. s \in PoseState /\ now \in Nat
  BY DEF Good, PoseState
<1>2. b.topic \in {"display_map", "plan_traj", "base_status", "get_map"}
  BY DEF Heard
<1> DEFINE Later(x) == /\ x \in PoseState /\ x.trail = s.trail /\ x.last = s.last /\ x.split = s.split
                       /\ x.rail = s.rail /\ x.seen = s.seen
<1>3. ASSUME NEW x, Later(x) PROVE Good(x)
  BY <1>3 DEF Good, TrailOk, RailOk
<1>4. t \in PoseState /\ Later(t)
  BY <1>1 DEF PoseState
<1> HIDE DEF now, t
<1>5. CASE b.topic = "display_map"
  <2> DEFINE frame == DisplayFrom(b, now)
             x == [t EXCEPT !.display = frame]
  <2>1. frame \in [at : Nat, p : Point, rails : Seq(Rail)]
    BY <1>1, <1>5, FramesType
  <2> HIDE DEF frame
  <2>2. Later(x)
    BY <1>4, <2>1 DEF PoseState
  <2>3. Hear(s, b) = UpdateTrail(x)
    BY <1>5 DEF Hear, frame, t, now
  <2> HIDE DEF x, Later
  <2> QED BY <1>3, <2>2, <2>3, UpdateTrailKeeps
<1>6. CASE b.topic = "plan_traj"
  <2> DEFINE frame == TrajectoryFrom(b, now)
             x == [t EXCEPT !.plan = frame]
  <2>1. frame \in [at : Nat, points : Seq(Point)]
    BY <1>1, <1>6, FramesType
  <2> HIDE DEF frame
  <2>2. Later(x)
    BY <1>4, <2>1 DEF PoseState
  <2>3. Hear(s, b) = UpdateTrail(x)
    BY <1>6 DEF Hear, frame, t, now
  <2> HIDE DEF x, Later
  <2> QED BY <1>3, <2>2, <2>3, UpdateTrailKeeps
<1>7. CASE b.topic = "base_status"
  <2> DEFINE x == [t EXCEPT !.status = b.status]
  <2>1. b.status \in SessionStatus
    BY <1>7 DEF Heard
  <2>2. Later(x)
    BY <1>4, <2>1 DEF PoseState
  <2>3. Hear(s, b) = UpdateTrail(x)
    BY <1>7 DEF Hear, t, now
  <2> HIDE DEF x, Later
  <2> QED BY <1>3, <2>2, <2>3, UpdateTrailKeeps
<1>8. CASE b.topic = "get_map"
  <2> DEFINE x == [t EXCEPT !.map = b.map]
  <2>1. b.map \in Box
    BY <1>8 DEF Heard
  <2>2. Later(x)
    BY <1>4, <2>1 DEF PoseState
  <2>3. Hear(s, b) = x
    BY <1>8 DEF Hear, t, now
  <2> HIDE DEF x, Later
  <2> QED BY <1>3, <1>8, <2>2, <2>3
<1> QED BY <1>2, <1>5, <1>6, <1>7, <1>8

LEMMA UnheardIsGood == Good(Unheard)
<1>1. Unheard \in PoseState
  <2>1. <<0, 0>> \in Point
    BY DEF Point
  <2>2. /\ <<>> \in Seq(Rail) /\ <<>> \in Seq(Point) /\ <<>> \in Seq(Pair)
        /\ {} \in SUBSET Pair
    OBVIOUS
  <2> QED BY <2>1, <2>2 DEF PoseState, Unheard, SessionStatus
<1>2. /\ Unheard.trail = <<>> /\ Unheard.last = Nowhere /\ Unheard.seen = {} /\ Unheard.rail = <<>>
      /\ Unheard.split = 0
  BY DEF Unheard
<1>3. MaxTrail \in Nat /\ Len(<<>>) = 0 /\ 1 .. 0 - 1 = {}
  BY PoseAssumption
<1> QED BY <1>1, <1>2, <1>3 DEF Good, TrailOk, RailOk

\* What is remembered after each broadcast.
LEMMA AfterIsGood ==
  ASSUME NEW heard \in Seq(Heard)
  PROVE  /\ Good(After(heard))
         /\ heard # <<>> /\ heard[Len(heard)].topic # "get_map" =>
              Placed(After(heard), BestRobotPosition(After(heard)))
<1> DEFINE n == Len(heard)
           S == {t \in PoseState : Good(t)}
           step == [i \in 1 .. n |-> [x \in S |-> Hear(x, heard[i])]]
           Runs(g) == g = [i \in 0 .. n |-> IF i = 0 THEN Unheard ELSE Hear(g[i - 1], heard[i])]
           c == CHOOSE g : Runs(g)
<1>1. n \in Nat /\ Unheard \in S
  BY UnheardIsGood DEF Good
<1>2. ASSUME NEW i \in 1 .. n, NEW x \in S
      PROVE  /\ Hear(x, heard[i]) \in S
             /\ heard[i].topic # "get_map" => Placed(Hear(x, heard[i]), BestRobotPosition(Hear(x, heard[i])))
  <2>1. heard[i] \in Heard /\ Good(x)
    OBVIOUS
  <2>2. /\ Good(Hear(x, heard[i]))
        /\ heard[i].topic # "get_map" => Placed(Hear(x, heard[i]), BestRobotPosition(Hear(x, heard[i])))
    BY <2>1, HearKeeps
  <2> QED BY <2>2 DEF Good
<1> HIDE DEF S, n
<1>3. step \in Steps(n, S)
  BY <1>2 DEF Steps
<1>4. PICK m \in [0 .. n -> S] : m[0] = Unheard /\ \A i \in 1 .. n : m[i] = step[i][m[i - 1]]
  <2> HIDE DEF step
  <2>1. \E m \in [0 .. n -> S] : IsRun(m, n, Unheard, step)
    BY <1>1, <1>3, Iteration
  <2> QED BY <2>1 DEF IsRun
<1>5. ASSUME NEW i \in 1 .. n
      PROVE  m[i] = Hear(m[i - 1], heard[i])
  <2>1. m[i] = step[i][m[i - 1]]
    BY <1>4
  <2>2. m[i - 1] \in S
    BY <1>1, <1>4
  <2>3. step[i] = [x \in S |-> Hear(x, heard[i])]
    OBVIOUS
  <2> QED BY <2>1, <2>2, <2>3
<1>6. Runs(m)
  BY <1>1, <1>4, <1>5
<1>7. Runs(c)
  BY <1>6
<1>8. After(heard) = c[n]
  BY DEF After, n
<1> HIDE DEF c
<1>9. c[0] = Unheard /\ \A i \in 1 .. n : c[i] = Hear(c[i - 1], heard[i])
  BY <1>1, <1>7
<1>10. \A i \in 0 .. n : c[i] \in S
  <2> DEFINE U == {i \in 0 .. n : c[i] \in S}
  <2>1. 0 \in U
    BY <1>1, <1>9
  <2>2. ASSUME NEW i \in 1 .. n, i - 1 \in U PROVE i \in U
    <3>1. c[i - 1] \in S /\ c[i] = Hear(c[i - 1], heard[i])
      BY <1>9, <2>2
    <3>2. Hear(c[i - 1], heard[i]) \in S
      BY <1>2, <3>1
    <3> QED BY <1>1, <3>1, <3>2
  <2> HIDE DEF U
  <2>3. \A i \in 0 .. n : i \in U
    BY <1>1, <2>1, <2>2, UpTo
  <2> QED BY <2>3 DEF U
<1>11. Good(After(heard))
  <2>1. c[n] \in S
    BY <1>1, <1>10
  <2> QED BY <1>8, <2>1 DEF S
<1>12. ASSUME heard # <<>>, heard[n].topic # "get_map"
       PROVE  Placed(After(heard), BestRobotPosition(After(heard)))
  <2>1. n \in 1 .. n
    BY <1>1, <1>12 DEF n
  <2>2. c[n - 1] \in S /\ c[n] = Hear(c[n - 1], heard[n])
    BY <1>1, <1>9, <1>10, <2>1
  <2>3. Placed(c[n], BestRobotPosition(c[n]))
    BY <1>2, <1>12, <2>1, <2>2
  <2> QED BY <1>8, <2>3
<1> QED BY <1>11, <1>12 DEF n

LEMMA TrailFollowsHolds ==
  ASSUME NEW heard \in Seq(Heard)
  PROVE  TrailFollows(heard)
<1> DEFINE s == After(heard)
           pose == BestRobotPosition(s)
           recorded == heard # <<>> /\ Last(heard).topic # "get_map"
<1>1. Good(s) /\ (recorded => Placed(s, pose))
  BY AfterIsGood DEF Last
<1> HIDE DEF s, pose, recorded
<1>2. s.trail \in Seq(Point)
  BY <1>1 DEF Good, PoseState
<1>3. Follows(s, pose, recorded)
  <2>1. recorded /\ s.map # Nowhere /\ pose # Nowhere /\ Len(s.trail) < MaxTrail =>
          s.trail # <<>> /\ Close(Last(s.trail), <<pose[1] - s.map.x, pose[2] - s.map.y>>)
    BY <1>1, Zenon DEF Placed, Last
  <2> QED BY <1>1, <2>1 DEF Follows, Good, TrailOk, RailOk
<1> QED BY <1>3 DEF TrailFollows, s, pose, recorded

\* TrailKeepsUp of Algorithms, for any broadcasts and any trail (coordinator.py:249,
\* map_renderer.py:676): the trail ends where the robot is shown, has no two close
\* neighbours and keeps its bounds, the midline supersedes a part of it that
\* exists, and what is drawn of a trail ends with its newest points.
THEOREM TrailKeepsUpHolds ==
  ASSUME \/ \E heard \in Seq(Heard) : job = [kind |-> "poses", heard |-> heard]
         \/ \E n \in Nat, max \in Nat, tail \in Nat \ {0} :
              tail < max /\ job = [kind |-> "trail", n |-> n, max |-> max, tail |-> tail]
  PROVE  TrailKeepsUp
<1>1. CASE \E heard \in Seq(Heard) : job = [kind |-> "poses", heard |-> heard]
  <2>1. PICK heard \in Seq(Heard) : job = [kind |-> "poses", heard |-> heard]
    BY <1>1
  <2>2. job.kind = "poses" /\ job.heard = heard
    BY <2>1
  <2>3. TrailFollows(heard)
    BY TrailFollowsHolds
  <2> QED BY <2>2, <2>3 DEF TrailKeepsUp, Has
<1>2. CASE \E n \in Nat, max \in Nat, tail \in Nat \ {0} :
             tail < max /\ job = [kind |-> "trail", n |-> n, max |-> max, tail |-> tail]
  <2>1. PICK n \in Nat, max \in Nat, tail \in Nat \ {0} :
               tail < max /\ job = [kind |-> "trail", n |-> n, max |-> max, tail |-> tail]
    BY <1>2
  <2>2. job.kind = "trail" /\ job.n = n /\ job.max = max /\ job.tail = tail
    BY <2>1
  <2>3. DecimationKeepsEnds(n, max, tail)
    BY <2>1, DecimationKeepsEndsHolds
  <2> QED BY <2>2, <2>3 DEF TrailKeepsUp, Has
<1> QED BY <1>1, <1>2
-----------------------------------------------------------------------------
\* A number and its lowest group.
LEMMA LowestGroup ==
  ASSUME NEW n \in Nat
  PROVE  /\ Radix \in Nat /\ Radix >= 32
         /\ n \div Radix \in Nat /\ n \div Radix <= n
         /\ n % Radix \in 0 .. Radix - 1
         /\ n = (n % Radix) + Radix * (n \div Radix)
         /\ n < Radix => n % Radix = n
         /\ n >= Radix => n \div Radix < n
<1>1. Radix \in Nat /\ Radix >= 32
  BY RadixAssumption
<1> DEFINE q == n \div Radix
<1>2. q \in Nat /\ n % Radix \in 0 .. Radix - 1 /\ n = (n % Radix) + Radix * q
  BY <1>1
<1> HIDE DEF q
<1>3. Radix * q >= 32 * q
  <2>1. \A r, k \in Nat : r >= 32 => r * k >= 32 * k
    <3> TAKE r, k \in Nat
    <3> HAVE r >= 32
    <3>1. (r - 32) * k >= 0
      OBVIOUS
    <3> QED BY <3>1
  <2> QED BY <1>1, <1>2, <2>1
<1>4. Radix * q \in Nat
  BY <1>1, <1>2
<1>5. n >= 32 * q
  BY <1>2, <1>3, <1>4
<1>6. q <= n /\ (n >= Radix => q < n)
  BY <1>1, <1>2, <1>5
<1>7. n < Radix => n % Radix = n
  BY <1>1
<1> QED BY <1>1, <1>2, <1>6, <1>7 DEF q

\* What the loop of ValueOf has read of the last groups.
ReadsValue(l, groups) ==
  /\ l[0] = 0
  /\ \A i \in 1 .. Len(groups) : l[i] = (groups[Len(groups) - i + 1] % Radix) + Radix * l[i - 1]
  /\ ValueOf(groups) = l[Len(groups)]

LEMMA ValueLoop ==
  ASSUME NEW groups \in Seq(Nat)
  PROVE  \E l : ReadsValue(l, groups) /\ \A i \in 0 .. Len(groups) : l[i] \in Nat
<1> DEFINE n == Len(groups)
           Next1(i, x) == (groups[n - i + 1] % Radix) + Radix * x
           Runs(g, k) == g = [i \in 0 .. k |-> IF i = 0 THEN 0 ELSE Next1(i, g[i - 1])]
           T == {k \in 0 .. n : \E g : Runs(g, k)}
           c == CHOOSE g : Runs(g, n)
<1>1. n \in Nat
  OBVIOUS
<1>2. ValueOf(groups) = c[n]
  BY DEF ValueOf
<1>3. \A i \in 1 .. n, x \in Nat : Next1(i, x) \in Nat
  BY RadixAssumption
<1>4. \A i, x : Next1(i, x) = (groups[n - i + 1] % Radix) + Radix * x
  OBVIOUS
<1> HIDE DEF n, Next1
<1>5. 0 \in T
  <2>1. Runs([i \in 0 .. 0 |-> 0], 0)
    OBVIOUS
  <2> HIDE DEF Runs
  <2> QED BY <1>1, <2>1
<1>6. ASSUME NEW k \in 1 .. n, k - 1 \in T PROVE k \in T
  <2>1. PICK g : Runs(g, k - 1)
    BY <1>6
  <2> DEFINE m == [i \in 0 .. k |-> IF i = k THEN Next1(k, g[k - 1]) ELSE g[i]]
  <2>2. Runs(m, k)
    BY <1>1, <2>1
  <2> HIDE DEF Runs, m
  <2> QED BY <2>2
<1> HIDE DEF T
<1>7. n \in T
  <2>1. \A k \in 0 .. n : k \in T
    BY <1>1, <1>5, <1>6, UpTo
  <2> QED BY <1>1, <2>1
<1>8. Runs(c, n)
  <2>1. \E g : Runs(g, n)
    BY <1>7 DEF T
  <2> QED BY <2>1
<1> HIDE DEF c
<1>9. c[0] = 0 /\ \A i \in 1 .. n : c[i] = Next1(i, c[i - 1])
  BY <1>1, <1>8
<1>10. \A i \in 0 .. n : c[i] \in Nat
  <2> DEFINE U == {i \in 0 .. n : c[i] \in Nat}
  <2>1. 0 \in U
    BY <1>1, <1>9
  <2>2. ASSUME NEW i \in 1 .. n, i - 1 \in U PROVE i \in U
    <3>1. c[i - 1] \in Nat /\ c[i] = Next1(i, c[i - 1])
      BY <1>9, <2>2
    <3>2. c[i] \in Nat
      BY <1>3, <3>1
    <3> QED BY <1>1, <3>2
  <2> HIDE DEF U
  <2>3. \A i \in 0 .. n : i \in U
    BY <1>1, <2>1, <2>2, UpTo
  <2> QED BY <2>3 DEF U
<1>11. \A i \in 1 .. n : c[i] = (groups[n - i + 1] % Radix) + Radix * c[i - 1]
  BY <1>4, <1>9
<1> QED BY <1>2, <1>9, <1>10, <1>11 DEF n, ReadsValue

\* One group more at the low end.
LEMMA ValueOfMore ==
  ASSUME NEW g \in Nat, NEW groups \in Seq(Nat)
  PROVE  ValueOf(<<g>> \o groups) = (g % Radix) + Radix * ValueOf(groups)
<1> DEFINE n == Len(groups)
           more == <<g>> \o groups
<1>1. n \in Nat /\ more \in Seq(Nat) /\ Len(more) = n + 1 /\ more[1] = g
  OBVIOUS
<1>2. \A i \in 1 .. n : more[n + 1 - i + 1] = groups[n - i + 1]
  OBVIOUS
<1> HIDE DEF more
<1>3. PICK l : ReadsValue(l, groups)
  BY ValueLoop
<1>4. PICK m : ReadsValue(m, more)
  BY <1>1, ValueLoop
<1>5. /\ l[0] = 0 /\ ValueOf(groups) = l[n]
      /\ \A i \in 1 .. n : l[i] = (groups[n - i + 1] % Radix) + Radix * l[i - 1]
  BY <1>3 DEF ReadsValue
<1>6. /\ m[0] = 0 /\ ValueOf(more) = m[n + 1]
      /\ \A i \in 1 .. n + 1 : m[i] = (more[n + 1 - i + 1] % Radix) + Radix * m[i - 1]
  BY <1>1, <1>4 DEF ReadsValue
<1> HIDE DEF n
<1> DEFINE U == {i \in 0 .. n : m[i] = l[i]}
<1>7. 0 \in U
  BY <1>1, <1>5, <1>6
<1>8. ASSUME NEW i \in 1 .. n, i - 1 \in U PROVE i \in U
  <2>1. m[i - 1] = l[i - 1] /\ i \in 1 .. n + 1 /\ i \in 0 .. n
    BY <1>1, <1>8
  <2>2. m[i] = (more[n + 1 - i + 1] % Radix) + Radix * m[i - 1]
    BY <1>6, <2>1
  <2>3. m[i] = l[i]
    BY <1>2, <1>5, <2>1, <2>2
  <2> QED BY <2>1, <2>3
<1> HIDE DEF U
<1>9. n \in U
  <2>1. \A i \in 0 .. n : i \in U
    BY <1>1, <1>7, <1>8, UpTo
  <2> QED BY <1>1, <2>1
<1>10. m[n] = l[n]
  BY <1>9 DEF U
<1>11. m[n + 1] = (more[n + 1 - (n + 1) + 1] % Radix) + Radix * m[n + 1 - 1]
  BY <1>1, <1>6
<1>12. n + 1 - (n + 1) + 1 = 1 /\ n + 1 - 1 = n
  BY <1>1
<1> QED BY <1>1, <1>5, <1>6, <1>10, <1>11, <1>12 DEF more

\* These bytes are a varint, and its value is v.
IsVarint(bytes, v) ==
  /\ bytes \in Seq(Nat) /\ Len(bytes) >= 1
  /\ \A i \in 1 .. Len(bytes) - 1 : bytes[i] >= Radix
  /\ bytes[Len(bytes)] < Radix
  /\ ValueOf(bytes) = v

LEMMA OneByte ==
  ASSUME NEW v \in Nat, v < Radix
  PROVE  IsVarint(<<v>>, v)
<1>1. <<v>> \o <<>> = <<v>> /\ <<>> \in Seq(Nat)
  OBVIOUS
<1>2. ValueOf(<<>>) = 0
  <2>1. PICK l : ReadsValue(l, <<>>)
    BY <1>1, ValueLoop
  <2> QED BY <2>1 DEF ReadsValue
<1>3. ValueOf(<<v>>) = (v % Radix) + Radix * 0
  BY <1>1, <1>2, ValueOfMore
<1>4. v % Radix = v /\ Radix \in Nat
  BY LowestGroup
<1>5. ValueOf(<<v>>) = v
  BY <1>3, <1>4
<1> QED BY <1>5 DEF IsVarint

LEMMA OneByteMore ==
  ASSUME NEW v \in Nat, v >= Radix, NEW rest, IsVarint(rest, v \div Radix)
  PROVE  IsVarint(<<Radix + (v % Radix)>> \o rest, v)
<1> DEFINE g == Radix + (v % Radix)
           bytes == <<g>> \o rest
<1>1. /\ Radix \in Nat /\ v % Radix \in 0 .. Radix - 1 /\ v \div Radix \in Nat
      /\ v = (v % Radix) + Radix * (v \div Radix)
  BY LowestGroup
<1>2. g \in Nat /\ g >= Radix /\ g % Radix = v % Radix
  BY <1>1, RadixAssumption
<1>3. rest \in Seq(Nat) /\ Len(rest) >= 1 /\ ValueOf(rest) = v \div Radix
      /\ rest[Len(rest)] < Radix /\ \A i \in 1 .. Len(rest) - 1 : rest[i] >= Radix
  BY DEF IsVarint
<1> HIDE DEF g
<1>4. ValueOf(bytes) = v
  <2>1. ValueOf(bytes) = (g % Radix) + Radix * ValueOf(rest)
    BY <1>2, <1>3, ValueOfMore
  <2> QED BY <1>1, <1>2, <1>3, <2>1
<1>5. /\ bytes \in Seq(Nat) /\ Len(bytes) = Len(rest) + 1 /\ bytes[1] = g
      /\ \A i \in 2 .. Len(rest) + 1 : bytes[i] = rest[i - 1]
  BY <1>2, <1>3
<1> HIDE DEF bytes
<1>6. \A i \in 1 .. Len(bytes) - 1 : bytes[i] >= Radix
  <2> SUFFICES ASSUME NEW i \in 1 .. Len(bytes) - 1 PROVE bytes[i] >= Radix
    OBVIOUS
  <2>1. CASE i = 1
    BY <1>2, <1>5, <2>1
  <2>2. CASE i # 1
    <3>1. i \in 2 .. Len(rest) + 1 /\ i - 1 \in 1 .. Len(rest) - 1
      BY <1>3, <1>5, <2>2
    <3> QED BY <1>3, <1>5, <3>1
  <2> QED BY <2>1, <2>2
<1>7. bytes[Len(bytes)] < Radix
  <2>1. Len(bytes) \in 2 .. Len(rest) + 1 /\ Len(bytes) - 1 = Len(rest)
    BY <1>3, <1>5
  <2> QED BY <1>3, <1>5, <2>1
<1>8. Len(bytes) >= 1
  BY <1>3, <1>5
<1> QED BY <1>4, <1>5, <1>6, <1>7, <1>8 DEF IsVarint, bytes, g

\* What the client writes is a varint.
LEMMA VarintIsWritten ==
  ASSUME NEW v \in Nat
  PROVE  IsVarint(EncodeVarint(v), v) /\ (v < Radix => EncodeVarint(v) = <<v>>)
<1> DEFINE Groups(n, x) == IF n < Radix THEN <<n>> ELSE <<Radix + (n % Radix)>> \o x
           Runs(g, k) == g = [n \in 0 .. k |-> Groups(n, g[n \div Radix])]
           T == {k \in 0 .. v : \E g : Runs(g, k)}
           c == CHOOSE g : Runs(g, v)
<1>0. Radix \in Nat /\ Radix >= 32
  BY RadixAssumption
<1>1. EncodeVarint(v) = c[v]
  BY DEF EncodeVarint
<1>2. /\ \A n \in Nat : n < Radix => \A x : Groups(n, x) = <<n>>
      /\ \A n \in Nat : n >= Radix => \A x : Groups(n, x) = <<Radix + (n % Radix)>> \o x
  BY <1>0
<1> HIDE DEF Groups
<1>3. 0 \in T
  <2> DEFINE g == [n \in 0 .. 0 |-> Groups(0, <<>>)]
  <2>1. Groups(0, g[0 \div Radix]) = Groups(0, <<>>)
    BY <1>0, <1>2
  <2>2. Runs(g, 0)
    BY <2>1
  <2> HIDE DEF Runs, g
  <2> QED BY <2>2
<1>4. ASSUME NEW k \in 1 .. v, k - 1 \in T PROVE k \in T
  <2>1. PICK g : Runs(g, k - 1)
    BY <1>4
  <2> DEFINE m == [n \in 0 .. k |-> IF n = k THEN Groups(k, g[k \div Radix]) ELSE g[n]]
  <2>2. \A n \in 0 .. k : m[n] = Groups(n, g[n \div Radix])
    BY <2>1
  <2>3. \A n \in 0 .. k : n >= Radix => n \div Radix \in 0 .. k - 1
    BY LowestGroup
  <2>4. \A n \in 0 .. k - 1 : m[n] = g[n]
    OBVIOUS
  <2>5. m = [n \in 0 .. k |-> m[n]]
    OBVIOUS
  <2> HIDE DEF m
  <2>6. \A n \in 0 .. k : m[n] = Groups(n, m[n \div Radix])
    <3> TAKE n \in 0 .. k
    <3>1. CASE n < Radix
      BY <1>2, <2>2, <3>1
    <3>2. CASE n >= Radix
      <4>1. m[n \div Radix] = g[n \div Radix]
        BY <2>3, <2>4, <3>2
      <4> QED BY <2>2, <4>1
    <3> QED BY <1>0, <3>1, <3>2
  <2>7. Runs(m, k)
    BY <2>5, <2>6
  <2> HIDE DEF Runs
  <2> QED BY <2>7
<1> HIDE DEF T
<1>5. v \in T
  <2>1. \A k \in 0 .. v : k \in T
    BY <1>3, <1>4, UpTo
  <2> QED BY <2>1
<1>6. Runs(c, v)
  <2>1. \E g : Runs(g, v)
    BY <1>5 DEF T
  <2> QED BY <2>1
<1> HIDE DEF c
<1>7. \A n \in 0 .. v : c[n] = Groups(n, c[n \div Radix])
  BY <1>6
<1>8. /\ \A n \in 0 .. v : n < Radix => c[n] = <<n>>
      /\ \A n \in 0 .. v : n >= Radix => c[n] = <<Radix + (n % Radix)>> \o c[n \div Radix]
  <2>1. ASSUME NEW n \in 0 .. v
        PROVE  n < Radix => c[n] = <<n>>
    <3>1. n < Radix => Groups(n, c[n \div Radix]) = <<n>>
      BY <1>2
    <3> QED BY <1>7, <3>1
  <2>2. ASSUME NEW n \in 0 .. v
        PROVE  n >= Radix => c[n] = <<Radix + (n % Radix)>> \o c[n \div Radix]
    <3>0. n \in Nat
      OBVIOUS
    <3>1. n >= Radix => Groups(n, c[n \div Radix]) = <<Radix + (n % Radix)>> \o c[n \div Radix]
      BY <1>2, <3>0, Zenon
    <3> QED BY <1>7, <3>1
  <2> QED BY <2>1, <2>2
<1> DEFINE U == {k \in 0 .. v : \A n \in 0 .. k : IsVarint(c[n], n)}
<1>9. 0 \in U
  <2>1. 0 < Radix /\ c[0] = <<0>>
    BY <1>0, <1>8
  <2>2. IsVarint(c[0], 0)
    BY <2>1, OneByte
  <2> QED BY <2>2
<1>10. ASSUME NEW k \in 1 .. v, k - 1 \in U PROVE k \in U
  <2>1. k \in Nat /\ \A n \in 0 .. k - 1 : IsVarint(c[n], n)
    BY <1>10
  <2>2. IsVarint(c[k], k)
    <3>1. CASE k < Radix
      <4>1. c[k] = <<k>>
        BY <1>8, <3>1
      <4> QED BY <2>1, <3>1, <4>1, OneByte
    <3>2. CASE k >= Radix
      <4>1. IsVarint(c[k \div Radix], k \div Radix)
        <5>1. k \div Radix \in 0 .. k - 1
          BY <2>1, <3>2, LowestGroup
        <5> QED BY <2>1, <5>1
      <4>2. c[k] = <<Radix + (k % Radix)>> \o c[k \div Radix]
        BY <1>8, <3>2
      <4> QED BY <2>1, <3>2, <4>1, <4>2, OneByteMore
    <3> QED BY <1>0, <2>1, <3>1, <3>2
  <2>3. \A n \in 0 .. k : IsVarint(c[n], n)
    BY <2>1, <2>2
  <2> QED BY <2>3
<1> HIDE DEF U
<1>11. v \in U
  <2>1. \A k \in 0 .. v : k \in U
    BY <1>9, <1>10, UpTo
  <2> QED BY <2>1
<1>12. IsVarint(c[v], v)
  BY <1>11 DEF U
<1> QED BY <1>1, <1>8, <1>12

LEMMA LeastIs ==
  ASSUME NEW S, S \subseteq Int, NEW a \in S, \A y \in S : a <= y
  PROVE  Min(S) = a
<1>1. \E x \in S : \A y \in S : x =< y
  OBVIOUS
<1>2. Min(S) \in S /\ \A y \in S : Min(S) =< y
  BY <1>1 DEF Min
<1>3. Min(S) \in Int /\ a \in Int /\ Min(S) <= a /\ a <= Min(S)
  BY <1>2
<1> QED BY <1>3

\* These bytes stand in data behind the first p.
Stands(data, p, bytes) ==
  /\ data \in Seq(Nat) /\ p \in Nat /\ bytes \in Seq(Nat)
  /\ p + Len(bytes) <= Len(data)
  /\ \A i \in 1 .. Len(bytes) : data[p + i] = bytes[i]

LEMMA SliceThatStands ==
  ASSUME NEW data, NEW p, NEW bytes, Stands(data, p, bytes)
  PROVE  SubSeq(data, p + 1, p + Len(bytes)) = bytes
<1> DEFINE n == Len(bytes)
<1>1. /\ data \in Seq(Nat) /\ p \in Nat /\ bytes \in Seq(Nat) /\ n \in Nat
      /\ p + n <= Len(data) /\ \A i \in 1 .. n : data[p + i] = bytes[i]
  BY DEF Stands
<1>2. bytes = [i \in 1 .. n |-> bytes[i]]
  BY <1>1
<1> HIDE DEF n
<1>3. p + 1 \in 1 .. Len(data) + 1 /\ p + n \in p .. Len(data)
  BY <1>1
<1> DEFINE slice == SubSeq(data, p + 1, p + n)
<1>4. slice \in Seq(Nat) /\ Len(slice) = n /\ \A i \in 1 .. n : slice[i] = data[p + i]
  BY <1>1, <1>3
<1> HIDE DEF slice
<1>5. slice = [i \in 1 .. n |-> slice[i]]
  BY <1>1, <1>4
<1>6. slice = bytes
  BY <1>1, <1>2, <1>4, <1>5
<1> QED BY <1>6 DEF n, slice

\* Parts of what stands.
LEMMA PartsStand ==
  ASSUME NEW data, NEW p, NEW a \in Seq(Nat), NEW b \in Seq(Nat), Stands(data, p, a \o b)
  PROVE  Stands(data, p, a) /\ Stands(data, p + Len(a), b)
<1> DEFINE ab == a \o b
<1>1. /\ Len(ab) = Len(a) + Len(b)
      /\ \A i \in 1 .. Len(a) : i \in 1 .. Len(ab) /\ ab[i] = a[i]
      /\ \A i \in 1 .. Len(b) : Len(a) + i \in 1 .. Len(ab) /\ ab[Len(a) + i] = b[i]
  OBVIOUS
<1>2. /\ data \in Seq(Nat) /\ p \in Nat /\ p + Len(ab) <= Len(data)
      /\ \A i \in 1 .. Len(ab) : data[p + i] = ab[i]
  BY DEF Stands
<1> HIDE DEF ab
<1>3. Len(a) \in Nat /\ Len(b) \in Nat
  OBVIOUS
<1>4. Stands(data, p, a)
  BY <1>1, <1>2, <1>3 DEF Stands
<1>5. \A i \in 1 .. Len(b) : data[p + Len(a) + i] = b[i]
  <2> TAKE i \in 1 .. Len(b)
  <2>1. data[p + (Len(a) + i)] = b[i]
    BY <1>1, <1>2
  <2>2. p + (Len(a) + i) = p + Len(a) + i
    BY <1>2, <1>3
  <2> QED BY <2>1, <2>2
<1>6. Stands(data, p + Len(a), b)
  BY <1>1, <1>2, <1>3, <1>5 DEF Stands
<1> QED BY <1>4, <1>6

LEMMA WholeStands ==
  ASSUME NEW data \in Seq(Nat)
  PROVE  Stands(data, 0, data)
BY DEF Stands

\* A varint that stands somewhere is read there.
LEMMA VarintIsRead ==
  ASSUME NEW data, NEW p, NEW bytes, NEW v, IsVarint(bytes, v), Stands(data, p, bytes)
  PROVE  /\ EndOfVarint(data, p + 1) = p + Len(bytes)
         /\ Lenient(data, p + 1) = [v |-> v, next |-> p + Len(bytes) + 1]
<1> DEFINE n == Len(bytes)
           S == {i \in p + 1 .. Len(data) : data[i] < Radix} \cup {Len(data)}
<1>1. /\ data \in Seq(Nat) /\ p \in Nat /\ n \in Nat /\ n >= 1 /\ Len(data) \in Nat
      /\ p + n <= Len(data) /\ \A i \in 1 .. n : data[p + i] = bytes[i]
      /\ bytes[n] < Radix /\ \A i \in 1 .. n - 1 : bytes[i] >= Radix
      /\ Radix \in Nat /\ bytes \in Seq(Nat)
  BY RadixAssumption DEF Stands, IsVarint
<1> HIDE DEF n
<1>2. p + n \in S
  <2>1. data[p + n] < Radix
    BY <1>1
  <2> QED BY <1>1, <2>1
<1>3. ASSUME NEW y \in S PROVE p + n <= y
  <2>1. CASE y \in p + 1 .. Len(data) /\ data[y] < Radix
    <3>1. SUFFICES ASSUME y < p + n PROVE FALSE
      BY <1>1, <2>1
    <3> DEFINE i == y - p
    <3>2. i \in 1 .. n - 1 /\ i \in 1 .. n /\ p + i = y
      BY <1>1, <2>1, <3>1
    <3> HIDE DEF i
    <3>3. data[y] >= Radix
      BY <1>1, <3>2
    <3>4. data[y] \in Nat
      BY <1>1, <2>1
    <3> QED BY <1>1, <2>1, <3>3, <3>4
  <2>2. CASE y = Len(data)
    BY <1>1, <2>2
  <2> QED BY <2>1, <2>2
<1>4. S \subseteq Int
  BY <1>1
<1>5. EndOfVarint(data, p + 1) = Min(S)
  BY DEF EndOfVarint
<1> HIDE DEF S
<1>6. EndOfVarint(data, p + 1) = p + n
  BY <1>2, <1>3, <1>4, <1>5, LeastIs
<1>7. SubSeq(data, p + 1, p + n) = bytes
  BY SliceThatStands DEF n
<1>8. ValueOf(bytes) = v
  BY DEF IsVarint
<1>9. Lenient(data, p + 1) = [v |-> v, next |-> p + n + 1]
  BY <1>6, <1>7, <1>8 DEF Lenient
<1> QED BY <1>6, <1>9 DEF n
-----------------------------------------------------------------------------
\* What the loop of Packed has written after i values.
Writes(l, vals) ==
  /\ l[0] = <<>>
  /\ \A i \in 1 .. Len(vals) : l[i] = l[i - 1] \o EncodeVarint(vals[i])
  /\ Packed(vals) = l[Len(vals)]

LEMMA PackedLoop ==
  ASSUME NEW vals \in Seq(Nat)
  PROVE  \E l : Writes(l, vals)
<1> DEFINE n == Len(vals)
           More(i, x) == x \o EncodeVarint(vals[i])
           Runs(g, k) == g = [i \in 0 .. k |-> IF i = 0 THEN <<>> ELSE More(i, g[i - 1])]
           T == {k \in 0 .. n : \E g : Runs(g, k)}
           c == CHOOSE g : Runs(g, n)
<1>1. n \in Nat
  OBVIOUS
<1>2. Packed(vals) = c[n]
  BY DEF Packed
<1>3. \A i, x : More(i, x) = x \o EncodeVarint(vals[i])
  OBVIOUS
<1> HIDE DEF n, More
<1>4. 0 \in T
  <2>1. Runs([i \in 0 .. 0 |-> <<>>], 0)
    OBVIOUS
  <2> HIDE DEF Runs
  <2> QED BY <1>1, <2>1
<1>5. ASSUME NEW k \in 1 .. n, k - 1 \in T PROVE k \in T
  <2>1. PICK g : Runs(g, k - 1)
    BY <1>5
  <2> DEFINE m == [i \in 0 .. k |-> IF i = k THEN More(k, g[k - 1]) ELSE g[i]]
  <2>2. Runs(m, k)
    BY <1>1, <2>1
  <2> HIDE DEF Runs, m
  <2> QED BY <2>2
<1> HIDE DEF T
<1>6. Runs(c, n)
  <2>1. \A k \in 0 .. n : k \in T
    BY <1>1, <1>4, <1>5, UpTo
  <2>2. n \in T
    BY <1>1, <2>1
  <2>3. \E g : Runs(g, n)
    BY <2>2 DEF T
  <2> QED BY <2>3
<1> HIDE DEF c
<1>7. c[0] = <<>> /\ \A i \in 1 .. n : c[i] = More(i, c[i - 1])
  BY <1>1, <1>6
<1>8. \A i \in 1 .. n : c[i] = c[i - 1] \o EncodeVarint(vals[i])
  BY <1>3, <1>7
<1> QED BY <1>2, <1>7, <1>8 DEF n, Writes

\* Every value takes a byte at least.
LEMMA PackedType ==
  ASSUME NEW vals \in Seq(Nat), NEW l, Writes(l, vals)
  PROVE  \A k \in 0 .. Len(vals) : l[k] \in Seq(Nat) /\ Len(l[k]) >= k
<1> DEFINE n == Len(vals)
           U == {k \in 0 .. n : l[k] \in Seq(Nat) /\ Len(l[k]) >= k}
<1>0. n \in Nat
  OBVIOUS
<1>1. l[0] = <<>> /\ \A i \in 1 .. n : l[i] = l[i - 1] \o EncodeVarint(vals[i])
  BY DEF Writes
<1> HIDE DEF n
<1>2. 0 \in U
  <2>1. l[0] \in Seq(Nat) /\ Len(l[0]) = 0
    BY <1>1
  <2> QED BY <1>0, <2>1
<1>3. ASSUME NEW k \in 1 .. n, k - 1 \in U PROVE k \in U
  <2> DEFINE e == EncodeVarint(vals[k])
             before == l[k - 1]
  <2>1. e \in Seq(Nat) /\ Len(e) >= 1
    <3>1. vals[k] \in Nat
      BY DEF n
    <3> QED BY <3>1, VarintIsWritten DEF IsVarint
  <2>2. before \in Seq(Nat) /\ Len(before) >= k - 1 /\ l[k] = before \o e
    BY <1>1, <1>3
  <2> HIDE DEF e, before
  <2>3. before \o e \in Seq(Nat) /\ Len(before \o e) = Len(before) + Len(e)
    BY <2>1, <2>2
  <2>4. Len(before) \in Nat /\ Len(e) \in Nat
    BY <2>1, <2>2
  <2>5. Len(before) + Len(e) >= k
    BY <2>1, <2>2, <2>4
  <2>6. l[k] \in Seq(Nat) /\ Len(l[k]) >= k /\ k \in 0 .. n
    BY <1>0, <2>2, <2>3, <2>5
  <2> QED BY <2>6
<1> HIDE DEF U
<1>4. \A k \in 0 .. n : k \in U
  BY <1>0, <1>2, <1>3, UpTo
<1> QED BY <1>4 DEF U, n

\* Where the whole stands, so does what was written before the last values.
LEMMA FirstStand ==
  ASSUME NEW vals \in Seq(Nat), NEW l, Writes(l, vals), NEW data, NEW p,
         Stands(data, p, Packed(vals))
  PROVE  \A k \in 0 .. Len(vals) : Stands(data, p, l[k])
<1> DEFINE n == Len(vals)
           U == {j \in 0 .. n : Stands(data, p, l[n - j])}
<1>0. n \in Nat
  OBVIOUS
<1>1. /\ n \in Nat /\ \A i \in 1 .. n : l[i] = l[i - 1] \o EncodeVarint(vals[i])
      /\ Packed(vals) = l[n]
  BY <1>0 DEF Writes
<1>2. \A k \in 0 .. n : l[k] \in Seq(Nat)
  BY PackedType
<1>3. \A i \in 1 .. n : vals[i] \in Nat
  OBVIOUS
<1> HIDE DEF n
<1>4. 0 \in U
  BY <1>1
<1>5. ASSUME NEW j \in 1 .. n, j - 1 \in U PROVE j \in U
  <2> DEFINE k == n - (j - 1)
  <2>1. k \in 1 .. n /\ k - 1 \in 0 .. n /\ k - 1 = n - j
    BY <1>1
  <2>2. Stands(data, p, l[k])
    BY <1>5
  <2> HIDE DEF k
  <2>3. l[k] = l[k - 1] \o EncodeVarint(vals[k])
    BY <1>1, <2>1
  <2>4. EncodeVarint(vals[k]) \in Seq(Nat)
    BY <1>3, <2>1, VarintIsWritten DEF IsVarint
  <2>5. Stands(data, p, l[k - 1])
    BY <1>2, <2>1, <2>2, <2>3, <2>4, PartsStand
  <2> QED BY <2>1, <2>5
<1> HIDE DEF U
<1>6. \A j \in 0 .. n : j \in U
  BY <1>1, <1>4, <1>5, UpTo
<1>7. ASSUME NEW k \in 0 .. n PROVE Stands(data, p, l[k])
  <2>1. n - k \in 0 .. n /\ n - (n - k) = k
    BY <1>1
  <2>2. n - k \in U
    BY <1>6, <2>1
  <2> QED BY <2>1, <2>2 DEF U
<1> QED BY <1>7 DEF n

\* What the loop over packed varints has read after k turns.
Reads(r, data, p) ==
  /\ r[0] = [pos |-> p, vals |-> <<>>]
  /\ \A k \in 1 .. Len(data) : r[k] = NextVarint(data, r[k - 1])
  /\ VarintsFrom(data, p) = r[Len(data)].vals

LEMMA ReadLoop ==
  ASSUME NEW data \in Seq(Nat), NEW p
  PROVE  \E r : Reads(r, data, p)
<1> DEFINE n == Len(data)
           start == [pos |-> p, vals |-> <<>>]
           Runs(g, k) == g = [i \in 0 .. k |-> IF i = 0 THEN start ELSE NextVarint(data, g[i - 1])]
           T == {k \in 0 .. n : \E g : Runs(g, k)}
           c == CHOOSE g : Runs(g, n)
<1>1. n \in Nat
  OBVIOUS
<1>2. VarintsFrom(data, p) = c[n].vals
  BY DEF VarintsFrom
<1>3. start = [pos |-> p, vals |-> <<>>]
  OBVIOUS
<1> HIDE DEF n, start
<1>4. 0 \in T
  <2>1. Runs([i \in 0 .. 0 |-> start], 0)
    OBVIOUS
  <2> HIDE DEF Runs
  <2> QED BY <1>1, <2>1
<1>5. ASSUME NEW k \in 1 .. n, k - 1 \in T PROVE k \in T
  <2>1. PICK g : Runs(g, k - 1)
    BY <1>5
  <2> DEFINE m == [i \in 0 .. k |-> IF i = k THEN NextVarint(data, g[k - 1]) ELSE g[i]]
  <2>2. Runs(m, k)
    BY <1>1, <2>1
  <2> HIDE DEF Runs, m
  <2> QED BY <2>2
<1> HIDE DEF T
<1>6. Runs(c, n)
  <2>1. \A k \in 0 .. n : k \in T
    BY <1>1, <1>4, <1>5, UpTo
  <2>2. n \in T
    BY <1>1, <2>1
  <2>3. \E g : Runs(g, n)
    BY <2>2 DEF T
  <2> QED BY <2>3
<1> HIDE DEF c
<1>7. c[0] = start /\ \A i \in 1 .. n : c[i] = NextVarint(data, c[i - 1])
  BY <1>1, <1>6
<1> QED BY <1>2, <1>3, <1>7 DEF n, Reads

\* The first k values.
FirstOf(vals, k) == [i \in 1 .. k |-> vals[i]]

LEMMA OneValueMore ==
  ASSUME NEW vals \in Seq(Nat), NEW k \in 1 .. Len(vals)
  PROVE  Append(FirstOf(vals, k - 1), vals[k]) = FirstOf(vals, k)
<1> DEFINE first == FirstOf(vals, k - 1)
           more == Append(first, vals[k])
<1>1. first \in Seq(Nat) /\ Len(first) = k - 1 /\ \A i \in 1 .. k - 1 : first[i] = vals[i]
  BY DEF FirstOf
<1> HIDE DEF first
<1>2. vals[k] \in Nat
  OBVIOUS
<1>3. more \in Seq(Nat) /\ Len(more) = k /\ \A i \in 1 .. k : more[i] = vals[i]
  BY <1>1, <1>2
<1> HIDE DEF more
<1>4. more = [i \in 1 .. k |-> more[i]]
  BY <1>3
<1>5. more = FirstOf(vals, k)
  BY <1>3, <1>4 DEF FirstOf
<1> QED BY <1>5 DEF more, first

\* Packed integers up to the end of the bytes are read as they were.
LEMMA PackedIsRead ==
  ASSUME NEW vals \in Seq(Nat), NEW data, NEW p, Stands(data, p, Packed(vals)),
         p + Len(Packed(vals)) = Len(data)
  PROVE  VarintsFrom(data, p + 1) = vals
<1> DEFINE n == Len(vals)
           end == Len(data)
<1>1. data \in Seq(Nat) /\ p \in Nat /\ n \in Nat /\ end \in Nat
  BY DEF Stands
<1>2. PICK l : Writes(l, vals)
  BY PackedLoop
<1>3. /\ l[0] = <<>> /\ \A i \in 1 .. n : l[i] = l[i - 1] \o EncodeVarint(vals[i])
      /\ Packed(vals) = l[n]
  BY <1>2 DEF Writes
<1>4. \A k \in 0 .. n : l[k] \in Seq(Nat) /\ Len(l[k]) >= k
  BY <1>2, PackedType
<1>5. \A k \in 0 .. n : Stands(data, p, l[k])
  BY <1>2, FirstStand
<1>6. PICK r : Reads(r, data, p + 1)
  BY <1>1, ReadLoop
<1>7. /\ r[0] = [pos |-> p + 1, vals |-> <<>>]
      /\ \A k \in 1 .. end : r[k] = NextVarint(data, r[k - 1])
      /\ VarintsFrom(data, p + 1) = r[end].vals
  BY <1>6 DEF Reads
<1>8. p + Len(l[n]) = end /\ n <= end
  <2>1. l[n] \in Seq(Nat) /\ Len(l[n]) >= n
    BY <1>1, <1>4
  <2> QED BY <1>1, <1>3, <2>1
<1>9. \A k \in 1 .. n : vals[k] \in Nat
  OBVIOUS
<1> HIDE DEF end, n
<1> DEFINE Read(k) == [pos |-> p + Len(l[k]) + 1, vals |-> FirstOf(vals, k)]
           U == {k \in 0 .. n : r[k] = Read(k)}
<1>10. 0 \in U
  <2>1. FirstOf(vals, 0) = <<>> /\ Len(l[0]) = 0
    BY <1>3 DEF FirstOf
  <2>2. p + 0 + 1 = p + 1
    BY <1>1
  <2> QED BY <1>1, <1>7, <2>1, <2>2
<1>11. ASSUME NEW k \in 1 .. n, k - 1 \in U PROVE k \in U
  <2> DEFINE e == EncodeVarint(vals[k])
             q == p + Len(l[k - 1])
  <2>0. k \in 1 .. end /\ k - 1 \in 0 .. n /\ k \in 0 .. n
    BY <1>1, <1>8
  <2>1. IsVarint(e, vals[k]) /\ e \in Seq(Nat) /\ Len(e) >= 1
    BY <1>9, VarintIsWritten DEF IsVarint
  <2>2. l[k] = l[k - 1] \o e /\ l[k - 1] \in Seq(Nat)
    BY <1>3, <1>4, <2>0
  <2> HIDE DEF e
  <2>3. Len(l[k]) = Len(l[k - 1]) + Len(e) /\ Len(l[k - 1]) \in Nat /\ Len(e) \in Nat
    BY <2>1, <2>2
  <2>4. Stands(data, p, l[k - 1] \o e)
    BY <1>5, <2>0, <2>2
  <2>5. Stands(data, q, e)
    BY <2>1, <2>2, <2>4, PartsStand
  <2>6. q \in Nat /\ q + Len(e) <= end
    BY <2>5 DEF Stands, end
  <2>7. r[k - 1] = [pos |-> q + 1, vals |-> FirstOf(vals, k - 1)]
    BY <1>11
  <2> HIDE DEF q
  <2>8. Lenient(data, q + 1) = [v |-> vals[k], next |-> q + Len(e) + 1]
    BY <2>1, <2>5, VarintIsRead
  <2>9. q + 1 <= Len(data)
    BY <1>1, <2>1, <2>3, <2>6 DEF end
  <2>10. NextVarint(data, r[k - 1])
           = [pos |-> q + Len(e) + 1, vals |-> Append(FirstOf(vals, k - 1), vals[k])]
    <3>1. r[k - 1].pos = q + 1 /\ r[k - 1].vals = FirstOf(vals, k - 1)
      BY <2>7
    <3>2. ~(r[k - 1].pos > Len(data))
      BY <1>1, <2>6, <2>9, <3>1 DEF end
    <3>3. NextVarint(data, r[k - 1])
            = [pos |-> Lenient(data, r[k - 1].pos).next,
               vals |-> Append(r[k - 1].vals, Lenient(data, r[k - 1].pos).v)]
      BY <3>2 DEF NextVarint
    <3>4. Lenient(data, q + 1).v = vals[k] /\ Lenient(data, q + 1).next = q + Len(e) + 1
      BY <2>8
    <3> QED BY <3>1, <3>3, <3>4, Zenon
  <2>11. q + Len(e) + 1 = p + Len(l[k]) + 1
    BY <1>1, <2>3 DEF q
  <2>12. Append(FirstOf(vals, k - 1), vals[k]) = FirstOf(vals, k)
    BY OneValueMore DEF n
  <2>13. r[k] = Read(k)
    BY <1>7, <2>0, <2>10, <2>11, <2>12
  <2> QED BY <2>0, <2>13
<1> HIDE DEF U
<1>12. r[n].pos = end + 1 /\ r[n].vals = FirstOf(vals, n)
  <2>1. \A k \in 0 .. n : k \in U
    BY <1>1, <1>10, <1>11, UpTo
  <2>2. n \in U
    BY <1>1, <2>1
  <2>3. r[n] = Read(n)
    <3> HIDE DEF Read
    <3> QED BY <2>2 DEF U
  <2> QED BY <1>8, <2>3
<1> HIDE DEF Read
<1> DEFINE V == {j \in 0 .. end - n : r[n + j] = r[n]}
<1>13. 0 \in V
  BY <1>1, <1>8
<1>14. ASSUME NEW j \in 1 .. end - n, j - 1 \in V PROVE j \in V
  <2> DEFINE k == n + j
  <2>1. k \in 1 .. end /\ k - 1 = n + (j - 1) /\ j \in 0 .. end - n
    BY <1>1, <1>8
  <2>2. r[n + (j - 1)] = r[n]
    BY <1>14
  <2> HIDE DEF k
  <2>3. r[k] = NextVarint(data, r[n])
    BY <1>7, <2>1, <2>2
  <2>4. r[n].pos > Len(data)
    BY <1>1, <1>12 DEF end
  <2>5. r[k] = r[n]
    BY <2>3, <2>4 DEF NextVarint
  <2> QED BY <2>1, <2>5 DEF k
<1> HIDE DEF V
<1>15. r[end] = r[n]
  <2>1. end - n \in Nat /\ n + (end - n) = end
    BY <1>1, <1>8
  <2>2. \A j \in 0 .. end - n : j \in V
    BY <1>13, <1>14, <2>1, UpTo
  <2>3. end - n \in V
    BY <2>1, <2>2
  <2> QED BY <2>1, <2>3 DEF V
<1>16. FirstOf(vals, n) = vals
  <2>1. vals = [i \in 1 .. n |-> vals[i]]
    BY DEF n
  <2> QED BY <2>1 DEF FirstOf
<1> QED BY <1>7, <1>12, <1>15, <1>16
-----------------------------------------------------------------------------
\* A field whose tag is one byte: where its parts stand.
FieldAt(data, p, f, body, q) ==
  /\ data[p + 1] = f * 8 + 2
  /\ Lenient(data, p + 2) = [v |-> Len(body), next |-> q + 1]
  /\ EndOfVarint(data, p + 2) = q
  /\ Stands(data, q, body)
  /\ q >= p + 2 /\ q + Len(body) = p + Len(EncodeBytesField(f, body))

LEMMA BytesFieldType ==
  ASSUME NEW f \in Nat, NEW body \in Seq(Nat)
  PROVE  EncodeBytesField(f, body) \in Seq(Nat)
<1>1. f * 8 + LEN \in Nat /\ Len(body) \in Nat
  BY DEF LEN
<1>2. EncodeVarint(f * 8 + LEN) \in Seq(Nat) /\ EncodeVarint(Len(body)) \in Seq(Nat)
  BY <1>1, VarintIsWritten DEF IsVarint
<1>3. EncodeVarint(f * 8 + LEN) \o EncodeVarint(Len(body)) \in Seq(Nat)
  BY <1>2
<1> QED BY <1>3 DEF EncodeBytesField

LEMMA FieldStands ==
  ASSUME NEW f \in Nat, f * 8 + 2 < Radix, NEW body \in Seq(Nat), NEW data, NEW p,
         Stands(data, p, EncodeBytesField(f, body))
  PROVE  \E q \in Nat : FieldAt(data, p, f, body, q)
<1> DEFINE tag == EncodeVarint(f * 8 + LEN)
           length == EncodeVarint(Len(body))
           head == tag \o length
           q == p + 1 + Len(length)
<1>1. f * 8 + LEN \in Nat /\ f * 8 + LEN = f * 8 + 2 /\ Len(body) \in Nat
  BY DEF LEN
<1>2. tag = <<f * 8 + 2>> /\ tag \in Seq(Nat) /\ Len(tag) = 1
  <2>1. tag = <<f * 8 + 2>>
    BY <1>1, VarintIsWritten
  <2> HIDE DEF tag
  <2> QED BY <1>1, <2>1
<1>3. IsVarint(length, Len(body)) /\ length \in Seq(Nat) /\ Len(length) >= 1
  BY <1>1, VarintIsWritten DEF IsVarint
<1>4. EncodeBytesField(f, body) = (tag \o length) \o body
  BY DEF EncodeBytesField
<1> HIDE DEF tag, length
<1>5. head \in Seq(Nat) /\ Len(head) = 1 + Len(length) /\ Len(length) \in Nat
  BY <1>2, <1>3
<1>6. Stands(data, p, head) /\ Stands(data, p + Len(head), body)
  <2>1. Stands(data, p, head \o body)
    BY <1>4
  <2> HIDE DEF head
  <2> QED BY <1>5, <2>1, PartsStand
<1>7. Stands(data, p, tag) /\ Stands(data, p + Len(tag), length)
  <2>1. Stands(data, p, tag \o length)
    BY <1>6
  <2>2. tag \in Seq(Nat) /\ length \in Seq(Nat)
    BY <1>2, <1>3
  <2> QED BY <2>1, <2>2, PartsStand
<1>8. p \in Nat /\ p + 1 + 1 = p + 2 /\ p + (1 + Len(length)) = q
  <2>1. p \in Nat
    BY <1>7 DEF Stands
  <2> QED BY <1>5, <2>1
<1>9. data[p + 1] = f * 8 + 2
  <2>1. data[p + 1] = tag[1]
    BY <1>2, <1>7 DEF Stands
  <2> QED BY <1>2, <2>1
<1>10. Stands(data, p + 1, length)
  BY <1>2, <1>7
<1>11. /\ EndOfVarint(data, p + 1 + 1) = p + 1 + Len(length)
       /\ Lenient(data, p + 1 + 1) = [v |-> Len(body), next |-> p + 1 + Len(length) + 1]
  BY <1>3, <1>10, VarintIsRead
<1>12. Stands(data, q, body)
  BY <1>5, <1>6, <1>8
<1>13. Len(EncodeBytesField(f, body)) = 1 + Len(length) + Len(body)
  <2>0. EncodeBytesField(f, body) = head \o body
    BY <1>4
  <2> HIDE DEF head
  <2>1. head \in Seq(Nat) /\ body \in Seq(Nat)
    BY <1>5
  <2>2. Len(head \o body) = Len(head) + Len(body)
    BY <2>1
  <2> QED BY <1>5, <2>0, <2>2
<1>14. q \in Nat /\ q >= p + 2 /\ q + Len(body) = p + Len(EncodeBytesField(f, body))
  BY <1>1, <1>3, <1>5, <1>8, <1>13
<1>15. FieldAt(data, p, f, body, q)
  BY <1>8, <1>9, <1>11, <1>12, <1>14 DEF FieldAt
<1> QED BY <1>14, <1>15
-----------------------------------------------------------------------------
\* What a walk has found once it has read such a field.
AlsoFound(found, f, body) ==
  IF f \notin {1, 2} THEN found ELSE [found EXCEPT ![f] = VarintsFrom(body, 1)]

LEMMA FieldIsRead ==
  ASSUME NEW f \in Nat, f * 8 + 2 < Radix, NEW body \in Seq(Nat), NEW data, NEW p,
         Stands(data, p, EncodeBytesField(f, body)), NEW found
  PROVE  NextField(data, [pos |-> p + 1, found |-> found])
           = [pos |-> p + Len(EncodeBytesField(f, body)) + 1, found |-> AlsoFound(found, f, body)]
<1> DEFINE read == [pos |-> p + 1, found |-> found]
           size == Len(EncodeBytesField(f, body))
           n == Len(body)
<1>1. PICK q \in Nat : FieldAt(data, p, f, body, q)
  BY FieldStands
<1>2. /\ data[p + 1] = f * 8 + 2 /\ Stands(data, q, body)
      /\ Lenient(data, p + 2) = [v |-> n, next |-> q + 1]
      /\ q >= p + 2 /\ q + n = p + size
  BY <1>1 DEF FieldAt
<1>3. data \in Seq(Nat) /\ p \in Nat /\ q + n <= Len(data)
  BY <1>2 DEF Stands
<1>4. n \in Nat /\ Len(data) \in Nat
  BY <1>3
<1>5. SubSeq(data, q + 1, q + n) = body
  BY <1>2, SliceThatStands
<1> HIDE DEF n, size
<1>6. read.pos = p + 1 /\ read.found = found /\ p + 1 + 1 = p + 2
  BY <1>3
<1> HIDE DEF read
<1>7. /\ Lenient(data, read.pos + 1).v = n /\ Lenient(data, read.pos + 1).next = q + 1
      /\ data[read.pos] = f * 8 + 2
  BY <1>2, <1>6
<1>8. (f * 8 + 2) % 8 = 2 /\ (f * 8 + 2) \div 8 = f
  OBVIOUS
<1>9. ~(read.pos > Len(data))
  BY <1>2, <1>3, <1>4, <1>6
<1>10. Min({q + 1 + n - 1, Len(data)}) = q + n
  <2> DEFINE S == {q + 1 + n - 1, Len(data)}
  <2>1. S \subseteq Int /\ q + n \in S /\ \A y \in S : q + n <= y
    BY <1>3, <1>4
  <2> HIDE DEF S
  <2>2. Min(S) = q + n
    BY <2>1, LeastIs
  <2> QED BY <2>2 DEF S
<1>11. NextField(data, read)
         = [pos |-> q + 1 + n,
            found |-> IF f \notin {1, 2} THEN found ELSE [found EXCEPT ![f] = VarintsFrom(body, 1)]]
  BY <1>5, <1>6, <1>7, <1>8, <1>9, <1>10 DEF NextField, LEN
<1>12. q + 1 + n = p + size + 1
  BY <1>2, <1>3, <1>4
<1> QED BY <1>11, <1>12 DEF read, size, AlsoFound

\* What the loop over the fields has read after k turns.
Walks(r, data) ==
  /\ r[0] = [pos |-> 1, found |-> <<<<>>, <<>>>>]
  /\ \A k \in 1 .. Len(data) : r[k] = NextField(data, r[k - 1])
  /\ WalkCells(data) = r[Len(data)].found

LEMMA WalkLoop ==
  ASSUME NEW data \in Seq(Nat)
  PROVE  \E r : Walks(r, data)
<1> DEFINE n == Len(data)
           start == [pos |-> 1, found |-> <<<<>>, <<>>>>]
           Runs(g, k) == g = [i \in 0 .. k |-> IF i = 0 THEN start ELSE NextField(data, g[i - 1])]
           T == {k \in 0 .. n : \E g : Runs(g, k)}
           c == CHOOSE g : Runs(g, n)
<1>1. n \in Nat
  OBVIOUS
<1>2. WalkCells(data) = c[n].found
  BY DEF WalkCells
<1>3. start = [pos |-> 1, found |-> <<<<>>, <<>>>>]
  OBVIOUS
<1> HIDE DEF n, start
<1>4. 0 \in T
  <2>1. Runs([i \in 0 .. 0 |-> start], 0)
    OBVIOUS
  <2> HIDE DEF Runs
  <2> QED BY <1>1, <2>1
<1>5. ASSUME NEW k \in 1 .. n, k - 1 \in T PROVE k \in T
  <2>1. PICK g : Runs(g, k - 1)
    BY <1>5
  <2> DEFINE m == [i \in 0 .. k |-> IF i = k THEN NextField(data, g[k - 1]) ELSE g[i]]
  <2>2. Runs(m, k)
    BY <1>1, <2>1
  <2> HIDE DEF Runs, m
  <2> QED BY <2>2
<1> HIDE DEF T
<1>6. Runs(c, n)
  <2>1. \A k \in 0 .. n : k \in T
    BY <1>1, <1>4, <1>5, UpTo
  <2>2. n \in T
    BY <1>1, <2>1
  <2>3. \E g : Runs(g, n)
    BY <2>2 DEF T
  <2> QED BY <2>3
<1> HIDE DEF c
<1>7. c[0] = start /\ \A i \in 1 .. n : c[i] = NextField(data, c[i - 1])
  BY <1>1, <1>6
<1> QED BY <1>2, <1>3, <1>7 DEF n, Walks

\* After some turns, no more than there are bytes behind it, the walk is behind
\* the first p bytes.
Reaches(data, r, p, found) ==
  \E k \in 0 .. Len(data) : k <= p /\ r[k] = [pos |-> p + 1, found |-> found]

LEMMA StepOver ==
  ASSUME NEW data, NEW r, Walks(r, data), NEW p, NEW found, Reaches(data, r, p, found),
         NEW f \in Nat, f * 8 + 2 < Radix, NEW body \in Seq(Nat),
         Stands(data, p, EncodeBytesField(f, body))
  PROVE  Reaches(data, r, p + Len(EncodeBytesField(f, body)), AlsoFound(found, f, body))
<1> DEFINE field == EncodeBytesField(f, body)
<1>1. /\ data \in Seq(Nat) /\ p \in Nat /\ p + Len(field) <= Len(data) /\ field \in Seq(Nat)
  BY DEF Stands
<1>2. Len(field) >= 2
  <2>1. PICK q \in Nat : FieldAt(data, p, f, body, q)
    BY FieldStands
  <2>2. q >= p + 2 /\ q + Len(body) = p + Len(field)
    BY <2>1 DEF FieldAt
  <2>3. Len(body) \in Nat /\ Len(field) \in Nat
    BY <1>1
  <2> HIDE DEF field
  <2> QED BY <1>1, <2>2, <2>3
<1>3. PICK k \in 0 .. Len(data) : k <= p /\ r[k] = [pos |-> p + 1, found |-> found]
  BY DEF Reaches
<1>4. NextField(data, r[k]) = [pos |-> p + Len(field) + 1, found |-> AlsoFound(found, f, body)]
  BY <1>3, FieldIsRead
<1> HIDE DEF field
<1>5. Len(field) \in Nat /\ Len(data) \in Nat
  BY <1>1
<1>6. k + 1 \in 1 .. Len(data) /\ k + 1 - 1 = k /\ k + 1 <= p + Len(field) /\ k + 1 \in 0 .. Len(data)
  <2> DEFINE m == Len(field)
             n == Len(data)
  <2>1. p \in Nat /\ m \in Nat /\ n \in Nat /\ m >= 2 /\ p + m <= n /\ k \in 0 .. n /\ k <= p
    BY <1>1, <1>2, <1>3, <1>5
  <2> HIDE DEF m, n
  <2>2. k + 1 \in 1 .. n /\ k + 1 - 1 = k /\ k + 1 <= p + m /\ k + 1 \in 0 .. n
    BY <2>1
  <2> QED BY <2>2 DEF m, n
<1>7. r[k + 1] = NextField(data, r[k])
  BY <1>6 DEF Walks
<1>8. Reaches(data, r, p + Len(field), AlsoFound(found, f, body))
  BY <1>4, <1>6, <1>7 DEF Reaches
<1> QED BY <1>8 DEF field

\* A walk that is behind all bytes has found what it is going to find.
LEMMA WalkEnds ==
  ASSUME NEW data \in Seq(Nat), NEW r, Walks(r, data), NEW found,
         Reaches(data, r, Len(data), found)
  PROVE  WalkCells(data) = found
<1> DEFINE n == Len(data)
<1>1. n \in Nat
  OBVIOUS
<1>2. PICK k \in 0 .. n : r[k] = [pos |-> n + 1, found |-> found]
  BY DEF Reaches
<1>3. (\A i \in 1 .. n : r[i] = NextField(data, r[i - 1])) /\ WalkCells(data) = r[n].found
  BY DEF Walks
<1> HIDE DEF n
<1> DEFINE V == {j \in 0 .. n - k : r[k + j] = r[k]}
<1>4. 0 \in V
  BY <1>1
<1>5. ASSUME NEW j \in 1 .. n - k, j - 1 \in V PROVE j \in V
  <2> DEFINE i == k + j
  <2>1. i \in 1 .. n /\ i - 1 = k + (j - 1) /\ j \in 0 .. n - k
    BY <1>1
  <2>2. r[k + (j - 1)] = r[k]
    BY <1>5
  <2> HIDE DEF i
  <2>3. r[i] = NextField(data, r[k])
    BY <1>3, <2>1, <2>2
  <2>4. r[k].pos > Len(data)
    BY <1>1, <1>2 DEF n
  <2>5. r[i] = r[k]
    BY <2>3, <2>4 DEF NextField
  <2> QED BY <2>1, <2>5 DEF i
<1> HIDE DEF V
<1>6. r[n] = r[k]
  <2>1. n - k \in Nat /\ k + (n - k) = n
    BY <1>1
  <2>2. \A j \in 0 .. n - k : j \in V
    BY <1>4, <1>5, <2>1, UpTo
  <2>3. n - k \in V
    BY <2>1, <2>2
  <2> QED BY <2>1, <2>3 DEF V
<1> QED BY <1>2, <1>3, <1>6
-----------------------------------------------------------------------------
LEMMA PackedBack ==
  ASSUME NEW vals \in Seq(Nat)
  PROVE  /\ Packed(vals) \in Seq(Nat) /\ Len(Packed(vals)) >= Len(vals)
         /\ VarintsFrom(Packed(vals), 1) = vals
<1>1. PICK l : Writes(l, vals)
  BY PackedLoop
<1>2. Packed(vals) = l[Len(vals)] /\ Len(vals) \in 0 .. Len(vals)
  BY <1>1 DEF Writes
<1>3. Packed(vals) \in Seq(Nat) /\ Len(Packed(vals)) >= Len(vals)
  BY <1>1, <1>2, PackedType
<1>4. Stands(Packed(vals), 0, Packed(vals))
  BY <1>3, WholeStands
<1>5. 0 + Len(Packed(vals)) = Len(Packed(vals)) /\ 0 + 1 = 1
  BY <1>3
<1>6. VarintsFrom(Packed(vals), 0 + 1) = vals
  BY <1>4, <1>5, PackedIsRead
<1> QED BY <1>3, <1>5, <1>6

\* The fields around the cells: none, or one that is not theirs.
OtherField(other) ==
  \/ other = <<>>
  \/ \E f \in Nat, body \in Seq(Nat) : f > 2 /\ f * 8 + 2 < Radix /\ other = EncodeBytesField(f, body)

LEMMA OtherIsSkipped ==
  ASSUME NEW data, NEW r, Walks(r, data), NEW p, NEW found, Reaches(data, r, p, found),
         NEW other, OtherField(other), Stands(data, p, other)
  PROVE  Reaches(data, r, p + Len(other), found)
<1>1. CASE other = <<>>
  <2>1. Len(other) = 0 /\ p \in Nat
    BY <1>1 DEF Stands
  <2>2. p + Len(other) = p
    BY <2>1
  <2> QED BY <2>2
<1>2. CASE \E f \in Nat, body \in Seq(Nat) :
             f > 2 /\ f * 8 + 2 < Radix /\ other = EncodeBytesField(f, body)
  <2>1. PICK f \in Nat, body \in Seq(Nat) :
               f > 2 /\ f * 8 + 2 < Radix /\ other = EncodeBytesField(f, body)
    BY <1>2
  <2>2. Reaches(data, r, p + Len(other), AlsoFound(found, f, body))
    BY <2>1, StepOver
  <2>3. AlsoFound(found, f, body) = found
    BY <2>1 DEF AlsoFound
  <2> QED BY <2>2, <2>3
<1> QED BY <1>1, <1>2 DEF OtherField

LEMMA CellsAreStepped ==
  ASSUME NEW data, NEW r, Walks(r, data), NEW p, NEW found, Reaches(data, r, p, found),
         NEW f \in {1, 2}, NEW vals \in Seq(Nat),
         Stands(data, p, EncodeBytesField(f, Packed(vals)))
  PROVE  Reaches(data, r, p + Len(EncodeBytesField(f, Packed(vals))), [found EXCEPT ![f] = vals])
<1>1. f \in Nat /\ f * 8 + 2 < Radix
  BY RadixAssumption
<1>2. Packed(vals) \in Seq(Nat) /\ VarintsFrom(Packed(vals), 1) = vals
  BY PackedBack
<1>3. AlsoFound(found, f, Packed(vals)) = [found EXCEPT ![f] = vals]
  BY <1>2 DEF AlsoFound
<1>4. Reaches(data, r, p + Len(EncodeBytesField(f, Packed(vals))), AlsoFound(found, f, Packed(vals)))
  BY <1>1, <1>2, StepOver
<1> QED BY <1>3, <1>4

\* Three parts of the bytes, one behind the other.
ThreeStand(data, a, b, d) ==
  /\ data \in Seq(Nat) /\ Stands(data, 0, a) /\ Stands(data, 0 + Len(a), b)
  /\ Stands(data, 0 + Len(a) + Len(b), d) /\ 0 + Len(a) + Len(b) + Len(d) = Len(data)

LEMMA PartsOfThree ==
  ASSUME NEW a \in Seq(Nat), NEW b \in Seq(Nat), NEW d \in Seq(Nat)
  PROVE  ThreeStand((a \o b) \o d, a, b, d)
<1> DEFINE ab == a \o b
           data == ab \o d
<1>1. ab \in Seq(Nat) /\ Len(ab) = Len(a) + Len(b) /\ Len(a) \in Nat /\ Len(b) \in Nat
  OBVIOUS
<1>2. data = ab \o d /\ d \in Seq(Nat) /\ ab = a \o b
  OBVIOUS
<1> HIDE DEF ab
<1>3. data \in Seq(Nat) /\ Len(data) = Len(ab) + Len(d) /\ Len(d) \in Nat
  <2>1. ab \in Seq(Nat) /\ d \in Seq(Nat)
    BY <1>1
  <2> QED BY <2>1
<1> HIDE DEF data
<1>4. Stands(data, 0, ab \o d)
  BY <1>2, <1>3, WholeStands
<1>5. Stands(data, 0, ab) /\ Stands(data, 0 + Len(ab), d)
  BY <1>1, <1>4, PartsStand
<1>6. Stands(data, 0, a \o b)
  BY <1>2, <1>5
<1>7. Stands(data, 0, a) /\ Stands(data, 0 + Len(a), b)
  BY <1>6, PartsStand
<1>8. 0 + Len(a) + Len(b) = 0 + Len(ab) /\ 0 + Len(a) + Len(b) + Len(d) = Len(data)
  BY <1>1, <1>3
<1>9. ThreeStand(data, a, b, d)
  BY <1>3, <1>5, <1>7, <1>8 DEF ThreeStand
<1> QED BY <1>9 DEF data, ab

\* The walk finds both lists, in either order.
LEMMA ListsAreFound ==
  ASSUME NEW is \in Seq(Nat), NEW vs \in Seq(Nat), NEW other, OtherField(other), NEW first \in BOOLEAN
  PROVE  LET idxs == EncodeBytesField(1, Packed(is))
             vals == EncodeBytesField(2, Packed(vs))
         IN  WalkCells(IF first THEN vals \o other \o idxs ELSE other \o idxs \o vals) = <<is, vs>>
<1> DEFINE idxs == EncodeBytesField(1, Packed(is))
           vals == EncodeBytesField(2, Packed(vs))
           none == <<<<>>, <<>>>>
<1>1. idxs \in Seq(Nat) /\ vals \in Seq(Nat)
  BY PackedBack, BytesFieldType
<1>2. other \in Seq(Nat)
  <2>1. CASE other = <<>>
    BY <2>1
  <2>2. ASSUME NEW f \in Nat, NEW body \in Seq(Nat), other = EncodeBytesField(f, body)
        PROVE  other \in Seq(Nat)
    BY <2>2, BytesFieldType
  <2> QED BY <2>1, <2>2 DEF OtherField
<1>3. ASSUME NEW data, NEW p, NEW found, NEW r, Walks(r, data), Reaches(data, r, p, found),
             Stands(data, p, idxs)
      PROVE  Reaches(data, r, p + Len(idxs), [found EXCEPT ![1] = is])
  BY <1>3, CellsAreStepped
<1>4. ASSUME NEW data, NEW p, NEW found, NEW r, Walks(r, data), Reaches(data, r, p, found),
             Stands(data, p, vals)
      PROVE  Reaches(data, r, p + Len(vals), [found EXCEPT ![2] = vs])
  BY <1>4, CellsAreStepped
<1>5. ASSUME NEW data \in Seq(Nat), NEW r, Walks(r, data) PROVE Reaches(data, r, 0, none)
  <2>1. 0 \in 0 .. Len(data) /\ 0 + 1 = 1 /\ 0 <= 0
    OBVIOUS
  <2>2. r[0] = [pos |-> 0 + 1, found |-> none]
    BY <1>5, <2>1 DEF Walks
  <2> QED BY <2>1, <2>2 DEF Reaches
<1>6. [[none EXCEPT ![1] = is] EXCEPT ![2] = vs] = <<is, vs>>
  OBVIOUS
<1>7. [[none EXCEPT ![2] = vs] EXCEPT ![1] = is] = <<is, vs>>
  OBVIOUS
<1> HIDE DEF idxs, vals, none
<1>8. WalkCells(vals \o other \o idxs) = <<is, vs>>
  <2> DEFINE data == (vals \o other) \o idxs
             p == 0 + Len(vals)
             q == p + Len(other)
  <2>1. /\ data \in Seq(Nat) /\ Stands(data, 0, vals) /\ Stands(data, p, other)
        /\ Stands(data, q, idxs) /\ q + Len(idxs) = Len(data)
    <3>1. ThreeStand(data, vals, other, idxs)
      BY <1>1, <1>2, PartsOfThree
    <3> HIDE DEF data
    <3> QED BY <3>1 DEF ThreeStand
  <2>0. vals \o other \o idxs = data
    OBVIOUS
  <2> HIDE DEF data
  <2>2. PICK r : Walks(r, data)
    BY <2>1, WalkLoop
  <2>3. Reaches(data, r, p, [none EXCEPT ![2] = vs])
    BY <1>4, <1>5, <2>1, <2>2
  <2> HIDE DEF p
  <2>4. Reaches(data, r, q, [none EXCEPT ![2] = vs])
    BY <2>1, <2>2, <2>3, OtherIsSkipped
  <2> HIDE DEF q
  <2>5. Reaches(data, r, q + Len(idxs), [[none EXCEPT ![2] = vs] EXCEPT ![1] = is])
    BY <1>3, <2>1, <2>2, <2>4
  <2>6. WalkCells(data) = <<is, vs>>
    <3>1. Reaches(data, r, Len(data), <<is, vs>>)
      BY <1>7, <2>1, <2>5
    <3> QED BY <2>1, <2>2, <3>1, WalkEnds
  <2> QED BY <2>0, <2>6
<1>9. WalkCells(other \o idxs \o vals) = <<is, vs>>
  <2> DEFINE data == (other \o idxs) \o vals
             p == 0 + Len(other)
             q == p + Len(idxs)
  <2>1. /\ data \in Seq(Nat) /\ Stands(data, 0, other) /\ Stands(data, p, idxs)
        /\ Stands(data, q, vals) /\ q + Len(vals) = Len(data)
    <3>1. ThreeStand(data, other, idxs, vals)
      BY <1>1, <1>2, PartsOfThree
    <3> HIDE DEF data
    <3> QED BY <3>1 DEF ThreeStand
  <2>0. other \o idxs \o vals = data
    OBVIOUS
  <2> HIDE DEF data
  <2>2. PICK r : Walks(r, data)
    BY <2>1, WalkLoop
  <2>3. Reaches(data, r, p, none)
    BY <1>5, <2>1, <2>2, OtherIsSkipped
  <2> HIDE DEF p
  <2>4. Reaches(data, r, q, [none EXCEPT ![1] = is])
    BY <1>3, <2>1, <2>2, <2>3
  <2> HIDE DEF q
  <2>5. Reaches(data, r, q + Len(vals), [[none EXCEPT ![1] = is] EXCEPT ![2] = vs])
    BY <1>4, <2>1, <2>2, <2>4
  <2>6. WalkCells(data) = <<is, vs>>
    <3>1. Reaches(data, r, Len(data), <<is, vs>>)
      BY <1>6, <2>1, <2>5
    <3> QED BY <2>1, <2>2, <3>1, WalkEnds
  <2> QED BY <2>0, <2>6
<1> QED BY <1>8, <1>9 DEF idxs, vals
-----------------------------------------------------------------------------
\* A cell and its index in the grid.
LEMMA CellOfIndex ==
  ASSUME NEW w \in Nat \ {0}, NEW x \in 0 .. w - 1, NEW y \in Nat
  PROVE  y * w + x \in Nat /\ (y * w + x) % w = x /\ (y * w + x) \div w = y
<1> DEFINE q == (y * w + x) \div w
           e == (y * w + x) % w
<1>1. y * w \in Nat
  OBVIOUS
<1>2. y * w + x \in Nat
  BY <1>1
<1>3. q \in Int /\ e \in 0 .. w - 1 /\ y * w + x = w * q + e
  BY <1>2
<1> HIDE DEF q, e
<1>4. q = y
  <2>1. CASE q > y
    <3>1. w * (q - y - 1) >= 0
      BY <1>3, <2>1
    <3>2. w * (q - y - 1) = w * q - y * w - w
      BY <1>3
    <3> QED BY <1>1, <1>3, <3>1, <3>2
  <2>2. CASE q < y
    <3>1. w * (y - q - 1) >= 0
      BY <1>3, <2>2
    <3>2. w * (y - q - 1) = y * w - w * q - w
      BY <1>3
    <3> QED BY <1>1, <1>3, <3>1, <3>2
  <2> QED BY <1>3, <2>1, <2>2
<1>5. e = x
  <2>1. w * y = y * w
    OBVIOUS
  <2> QED BY <1>1, <1>3, <1>4, <2>1
<1> QED BY <1>2, <1>4, <1>5 DEF q, e

\* The cells arrive, whatever the robot sees.
LEMMA CellsArrive ==
  ASSUME NEW w \in Nat \ {0}, NEW seen \in Seq((0 .. w - 1) \X Nat \X Nat),
         NEW valued \in 0 .. Len(seen), NEW first \in BOOLEAN, NEW other, OtherField(other)
  PROVE  WallsArrive(seen, valued, w, first, other)
<1> DEFINE n == Len(seen)
           is == [i \in DOMAIN seen |-> seen[i][2] * w + seen[i][1]]
           vs == [i \in 1 .. valued |-> seen[i][3]]
           data == WallBytes(seen, valued, w, first, other)
<1>1. /\ n \in Nat /\ valued \in 0 .. n /\ DOMAIN seen = 1 .. n
      /\ \A i \in 1 .. n : seen[i][1] \in 0 .. w - 1 /\ seen[i][2] \in Nat /\ seen[i][3] \in Nat
  OBVIOUS
<1> HIDE DEF n
<1>2. /\ \A i \in 1 .. n : is[i] = seen[i][2] * w + seen[i][1] /\ is[i] \in Nat
      /\ \A i \in 1 .. n : is[i] % w = seen[i][1] /\ is[i] \div w = seen[i][2]
  BY <1>1, CellOfIndex
<1>3. is = [i \in 1 .. n |-> is[i]]
  BY <1>1
<1>4. vs = [i \in 1 .. valued |-> vs[i]] /\ \A i \in 1 .. valued : vs[i] = seen[i][3] /\ vs[i] \in Nat
  BY <1>1
<1>5. WalkCells(data) = <<is, vs>>
  <2>1. data = IF first
               THEN EncodeBytesField(2, Packed(vs)) \o other \o EncodeBytesField(1, Packed(is))
               ELSE other \o EncodeBytesField(1, Packed(is)) \o EncodeBytesField(2, Packed(vs))
    BY DEF WallBytes
  <2> HIDE DEF is, vs, data
  <2>2. is \in Seq(Nat)
    <3>1. n \in Nat /\ \A i \in 1 .. n : is[i] \in Nat
      BY <1>1, <1>2
    <3>2. [i \in 1 .. n |-> is[i]] \in Seq(Nat)
      BY <3>1
    <3> QED BY <1>3, <3>2
  <2>3. vs \in Seq(Nat)
    <3>1. valued \in Nat /\ \A i \in 1 .. valued : vs[i] \in Nat
      BY <1>1, <1>4
    <3>2. [i \in 1 .. valued |-> vs[i]] \in Seq(Nat)
      BY <3>1
    <3> QED BY <1>4, <3>2
  <2> QED BY <2>1, <2>2, <2>3, ListsAreFound
<1> HIDE DEF is, vs, data
<1>6. \A i \in 1 .. n : ValueAt(vs, i) = IF i <= valued THEN seen[i][3] ELSE 0
  <2>1. Len(vs) = valued
    BY <1>1, <1>4
  <2> QED BY <1>1, <1>4, <2>1 DEF ValueAt
<1>7. DecodeWallCells(data) = [i \in 1 .. n |-> <<is[i], ValueAt(vs, i)>>]
  <2>1. DOMAIN is = 1 .. n
    BY <1>3
  <2>2. <<is, vs>>[1] = is /\ <<is, vs>>[2] = vs
    OBVIOUS
  <2> QED BY <1>5, <2>1, <2>2 DEF DecodeWallCells
<1> DEFINE cells == DecodeWallCells(data)
<1>8. DOMAIN cells = 1 .. n /\ \A i \in 1 .. n : cells[i][1] = is[i] /\ cells[i][2] = ValueAt(vs, i)
  BY <1>7
<1> HIDE DEF cells
<1>9. Observed(data, w) = [i \in 1 .. n |-> <<cells[i][1] % w, cells[i][1] \div w, cells[i][2]>>]
  BY <1>8 DEF Observed, cells
<1>10. Observed(data, w)
        = [i \in 1 .. n |-> <<seen[i][1], seen[i][2], IF i <= valued THEN seen[i][3] ELSE 0>>]
  <2>1. \A i \in 1 .. n :
          /\ cells[i][1] % w = seen[i][1] /\ cells[i][1] \div w = seen[i][2]
          /\ cells[i][2] = IF i <= valued THEN seen[i][3] ELSE 0
    BY <1>2, <1>6, <1>8
  <2> DEFINE There(i) == <<cells[i][1] % w, cells[i][1] \div w, cells[i][2]>>
             Here(i) == <<seen[i][1], seen[i][2], IF i <= valued THEN seen[i][3] ELSE 0>>
  <2>2. \A i \in 1 .. n : There(i) = Here(i)
    BY <2>1
  <2>3. Observed(data, w) = [i \in 1 .. n |-> There(i)]
    BY <1>9
  <2> HIDE DEF There, Here
  <2>4. Observed(data, w) = [i \in 1 .. n |-> Here(i)]
    BY <2>2, <2>3
  <2> QED BY <2>4 DEF Here
<1> QED BY <1>1, <1>10 DEF WallsArrive, data
-----------------------------------------------------------------------------
LEMMA ExactDivision ==
  ASSUME NEW a \in Int, NEW d \in Nat \ {0}
  PROVE  (a * d) \div d = a
<1> DEFINE q == (a * d) \div d
           e == (a * d) % d
<1>1. q \in Int /\ e \in 0 .. d - 1 /\ a * d = d * q + e
  OBVIOUS
<1>2. e = d * (a - q)
  BY <1>1
<1> HIDE DEF q, e
<1>3. a = q
  <2>1. CASE a > q
    <3>1. d * (a - q - 1) >= 0
      BY <1>1, <2>1
    <3>2. d * (a - q - 1) = d * (a - q) - d
      BY <1>1
    <3> QED BY <1>1, <1>2, <3>1, <3>2
  <2>2. CASE a < q
    <3>1. d * (q - a - 1) >= 0
      BY <1>1, <2>2
    <3>2. d * (q - a - 1) = 0 - d * (a - q) - d
      BY <1>1
    <3> QED BY <1>1, <1>2, <3>1, <3>2
  <2> QED BY <1>1, <2>1, <2>2
<1> QED BY <1>3 DEF q

\* The calibration turns the pixel of a cell into the world point of the cell.
Calibrated(w, h, ox, oy, scale, x, y) ==
  WorldOf(CalibrationPoints(w, h, ox, oy, scale), PixelOf(<<x, y>>, h, scale)) = <<x + ox, y + oy>>

LEMMA CalibrationHolds ==
  ASSUME NEW w \in Nat, w >= 2, NEW h \in Nat, h >= 2, NEW ox \in Int, NEW oy \in Int,
         NEW scale \in Nat \ {0}, NEW x \in 0 .. w - 1, NEW y \in 0 .. h - 1
  PROVE  Calibrated(w, h, ox, oy, scale, x, y)
<1> DEFINE px == x * scale
           py == (h - 1 - y) * scale
           dx == (w - 1) * scale
           dy == (h - 1) * scale
<1> DEFINE points == CalibrationPoints(w, h, ox, oy, scale)
           p == PixelOf(<<x, y>>, h, scale)
<1>1. WorldOf(points, p)
        = <<ox + ((w - 1 + ox - ox) * px) \div dx + ((ox - ox) * py) \div dy,
            h - 1 + oy + ((h - 1 + oy - (h - 1 + oy)) * px) \div dx + ((oy - (h - 1 + oy)) * py) \div dy>>
  <2>1. points[1].vacuum[1] = ox /\ points[1].vacuum[2] = h - 1 + oy
    BY DEF CalibrationPoints
  <2>2. points[2].vacuum[1] = w - 1 + ox /\ points[2].vacuum[2] = h - 1 + oy /\ points[2].map[1] = dx
    BY DEF CalibrationPoints
  <2>3. points[3].vacuum[1] = ox /\ points[3].vacuum[2] = oy /\ points[3].map[2] = dy
    BY DEF CalibrationPoints
  <2>4. p[1] = px /\ p[2] = py
    BY DEF PixelOf
  <2>5. 2 - 1 = 1 /\ 3 - 1 = 2
    OBVIOUS
  <2> HIDE DEF points, p, px, py, dx, dy
  <2>6. WorldOf(points, p)
          = <<points[1].vacuum[1]
                + ((points[2].vacuum[1] - points[1].vacuum[1]) * p[2 - 1]) \div points[2].map[2 - 1]
                + ((points[3].vacuum[1] - points[1].vacuum[1]) * p[3 - 1]) \div points[3].map[3 - 1],
              points[1].vacuum[2]
                + ((points[2].vacuum[2] - points[1].vacuum[2]) * p[2 - 1]) \div points[2].map[2 - 1]
                + ((points[3].vacuum[2] - points[1].vacuum[2]) * p[3 - 1]) \div points[3].map[3 - 1]>>
    BY Zenon DEF WorldOf
  <2>7. ((points[2].vacuum[1] - points[1].vacuum[1]) * p[2 - 1]) \div points[2].map[2 - 1]
          = ((w - 1 + ox - ox) * px) \div dx
    BY <2>1, <2>2, <2>3, <2>4, <2>5
  <2>8. ((points[3].vacuum[1] - points[1].vacuum[1]) * p[3 - 1]) \div points[3].map[3 - 1]
          = ((ox - ox) * py) \div dy
    BY <2>1, <2>2, <2>3, <2>4, <2>5
  <2>9. ((points[2].vacuum[2] - points[1].vacuum[2]) * p[2 - 1]) \div points[2].map[2 - 1]
          = ((h - 1 + oy - (h - 1 + oy)) * px) \div dx
    BY <2>1, <2>2, <2>3, <2>4, <2>5
  <2>10. ((points[3].vacuum[2] - points[1].vacuum[2]) * p[3 - 1]) \div points[3].map[3 - 1]
          = ((oy - (h - 1 + oy)) * py) \div dy
    BY <2>1, <2>2, <2>3, <2>4, <2>5
  <2> QED BY <2>1, <2>6, <2>7, <2>8, <2>9, <2>10, Zenon
<1>2. px \in Nat /\ py \in Nat /\ dx \in Nat \ {0} /\ dy \in Nat \ {0}
  OBVIOUS
<1>3. (w - 1 + ox - ox) * px = x * dx
  OBVIOUS
<1>4. (oy - (h - 1 + oy)) * py = (0 - (h - 1 - y)) * dy
  OBVIOUS
<1> HIDE DEF px, py, dx, dy
<1>5. (ox - ox) * py = 0 * dy /\ (h - 1 + oy - (h - 1 + oy)) * px = 0 * dx
  BY <1>2
<1>6. (x * dx) \div dx = x /\ (0 * dx) \div dx = 0 /\ (0 * dy) \div dy = 0
  BY <1>2, ExactDivision
<1>7. ((0 - (h - 1 - y)) * dy) \div dy = 0 - (h - 1 - y)
  BY <1>2, ExactDivision
<1>8. WorldOf(points, p) = <<ox + x + 0, h - 1 + oy + 0 + (0 - (h - 1 - y))>>
  <2> HIDE DEF points, p
  <2> QED BY <1>1, <1>3, <1>4, <1>5, <1>6, <1>7, Zenon
<1>9. ox + x + 0 = x + ox /\ h - 1 + oy + 0 + (0 - (h - 1 - y)) = y + oy
  OBVIOUS
<1>10. WorldOf(points, p) = <<x + ox, y + oy>>
  BY <1>8, <1>9, Zenon
<1> QED BY <1>10 DEF Calibrated, points, p

\* The pixels of the map are read as they are.
LEMMA PixelsAreRead ==
  ASSUME NEW pixels \in Seq(Nat), Len(pixels) >= 2
  PROVE  DecodePackedVarints(MapBytes(pixels)) = pixels
<1> DEFINE body == Packed(pixels)
           data == MapBytes(pixels)
<1>1. body \in Seq(Nat) /\ Len(body) >= Len(pixels)
  BY PackedBack
<1>2. data = EncodeBytesField(1, body)
  BY DEF MapBytes
<1>3. 1 * 8 + 2 < Radix /\ 1 * 8 + 2 = 10
  BY RadixAssumption
<1> HIDE DEF data
<1>4. data \in Seq(Nat) /\ Stands(data, 0, EncodeBytesField(1, body))
  <2>1. data \in Seq(Nat)
    BY <1>1, <1>2, BytesFieldType
  <2> QED BY <1>2, <2>1, WholeStands
<1>5. PICK q \in Nat : FieldAt(data, 0, 1, body, q)
  BY <1>1, <1>3, <1>4, FieldStands
<1>6. /\ data[0 + 1] = 10 /\ EndOfVarint(data, 0 + 2) = q /\ Stands(data, q, body)
      /\ q >= 0 + 2 /\ q + Len(body) = 0 + Len(data)
  BY <1>2, <1>3, <1>5 DEF FieldAt
<1>7. Len(data) >= 4 /\ q + Len(body) = Len(data) /\ 0 + 1 = 1 /\ 0 + 2 = 2
  <2>1. Len(data) \in Nat /\ Len(body) \in Nat /\ Len(pixels) \in Nat
    BY <1>1, <1>4
  <2> HIDE DEF body
  <2> QED BY <1>1, <1>6, <2>1
<1>8. VarintsFrom(data, q + 1) = pixels
  BY <1>6, <1>7, PackedIsRead
<1> HIDE DEF body
<1>9. data[1] = 10 /\ EndOfVarint(data, 2) = q /\ ~(Len(data) < 4)
  <2>1. Len(data) \in Nat
    BY <1>4
  <2> QED BY <1>6, <1>7, <2>1
<1>10. DecodePackedVarints(data) = pixels
  BY <1>8, <1>9 DEF DecodePackedVarints
<1> QED BY <1>10 DEF data

LEMMA IndexInGrid ==
  ASSUME NEW w \in Nat, NEW h \in Nat, NEW x \in 0 .. w - 1, NEW y \in 0 .. h - 1
  PROVE  y * w + x \in 0 .. w * h - 1
<1>1. y * w \in Nat /\ (h - 1 - y) * w \in Nat
  OBVIOUS
<1>2. w * h = y * w + (h - 1 - y) * w + w
  OBVIOUS
<1> QED BY <1>1, <1>2

LEMMA TapsFind ==
  ASSUME NEW w \in Nat, w >= 2, NEW h \in Nat, h >= 2, NEW ox \in Int, NEW oy \in Int,
         NEW scale \in Nat \ {0}, NEW pixels \in Seq(Nat), Len(pixels) = w * h
  PROVE  TapFindsTheRoom(pixels, w, h, ox, oy, scale)
<1> DEFINE World(x, y) == WorldOf(CalibrationPoints(w, h, ox, oy, scale), PixelOf(<<x, y>>, h, scale))
           data == MapBytes(pixels)
<1>1. DecodePackedVarints(data) = pixels
  <2>1. w * h >= 2 * h
    <3>1. (w - 2) * h >= 0
      OBVIOUS
    <3> QED BY <3>1
  <2>2. Len(pixels) >= 2
    BY <2>1
  <2> QED BY <2>2, PixelsAreRead
<1> HIDE DEF data
<1>2. ASSUME NEW x \in 0 .. w - 1, NEW y \in 0 .. h - 1
      PROVE  LET val == pixels[y * w + x + 1]
             IN  LookupRoom(data, w, h, World(x, y)[1] - ox, World(x, y)[2] - oy)
                   = IF val \in NoRoom THEN 0 ELSE RoomOf(val)
  <2>1. World(x, y) = <<x + ox, y + oy>>
    <3>1. Calibrated(w, h, ox, oy, scale, x, y)
      BY CalibrationHolds
    <3> QED BY <3>1 DEF Calibrated
  <2> HIDE DEF World
  <2>2. World(x, y)[1] - ox = x /\ World(x, y)[2] - oy = y
    BY <2>1
  <2>3. ~(y * w + x >= Len(pixels))
    <3>1. y * w + x \in 0 .. w * h - 1
      BY IndexInGrid
    <3>2. w * h \in Int
      OBVIOUS
    <3> QED BY <3>1, <3>2
  <2>4. LookupRoom(data, w, h, x, y)
          = IF pixels[y * w + x + 1] \in NoRoom THEN 0 ELSE RoomOf(pixels[y * w + x + 1])
    BY <1>1, <2>3 DEF LookupRoom
  <2> QED BY <2>2, <2>4
<1> QED BY <1>2 DEF TapFindsTheRoom, data
-----------------------------------------------------------------------------
\* TapsFindTheRoom of Algorithms, for any map, origin and room and at every scale
\* (map_renderer.py:239 and 1283): a tap on a cell of the picture, turned into
\* the world by the calibration points and into the grid by the origin, is
\* answered with the room the robot has there.  The three points span the picture
\* when it has two columns and two rows.
THEOREM TapsFindTheRoomHolds ==
  ASSUME NEW w \in Nat, w >= 2, NEW h \in Nat, h >= 2, NEW ox \in Int, NEW oy \in Int,
         NEW pixels \in Seq(Nat), Len(pixels) = w * h,
         job = [kind |-> "grid", w |-> w, h |-> h, ox |-> ox, oy |-> oy, pixels |-> pixels]
  PROVE  TapsFindTheRoom
<1>1. job.w = w /\ job.h = h /\ job.ox = ox /\ job.oy = oy /\ job.pixels = pixels
  OBVIOUS
<1>2. \A scale \in 1 .. 6 : TapFindsTheRoom(pixels, w, h, ox, oy, scale)
  BY TapsFind
<1> QED BY <1>1, <1>2 DEF TapsFindTheRoom

\* WallsAreWhereSeen of Algorithms, for any grid width and any cells
\* (map_renderer.py:224 and coordinator.py:323): the cells of display_map are put
\* where the robot saw them, with their values as far as it sent some, in
\* whichever order its fields come and with another one among them.
THEOREM WallsAreWhereSeenHolds ==
  ASSUME NEW w \in Nat \ {0}, NEW seen \in Seq((0 .. w - 1) \X Nat \X Nat),
         NEW valued \in 0 .. Len(seen), NEW first \in BOOLEAN, NEW other, OtherField(other),
         job = [kind |-> "walls", w |-> w, valued |-> valued, first |-> first, other |-> other,
                seen |-> seen]
  PROVE  WallsAreWhereSeen
<1>1. /\ job.w = w /\ job.valued = valued /\ job.first = first /\ job.other = other
      /\ job.seen = seen
  OBVIOUS
<1>2. WallsArrive(seen, valued, w, first, other)
  BY CellsArrive
<1> QED BY <1>1, <1>2 DEF WallsAreWhereSeen
=============================================================================
