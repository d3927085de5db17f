-------------------------- MODULE MapLayersProofs --------------------------
(***************************************************************************)
(* Proofs about MapLayers.  A frame's items are collected by a loop, so    *)
(* the first lemmas are an induction over what a loop has done so far.     *)
(***************************************************************************)
EXTENDS MapLayers, FiniteSetTheorems, FunctionTheorems, SequenceTheorems,
        WellFoundedInduction, TLAPS

\* Induction up to n, for a set of numbers.
LEMMA UpTo ==
  ASSUME NEW n \in Nat, NEW T, 0 \in T, \A i \in 1 .. n : i - 1 \in T => i \in T
  PROVE  \A i \in 0 .. n : i \in T
<1> DEFINE U == {i \in 0 .. n : i \notin T}
<1>1. SUFFICES ASSUME U # {} PROVE FALSE
  OBVIOUS
<1>2. U \subseteq Nat
  OBVIOUS
<1>3. PICK x \in U : \A y \in U : <<y, x>> \notin OpToRel(<, Nat)
  BY <1>1, <1>2, NatLessThanWellFounded, WFMin
<1>4. x \in 1 .. n /\ x - 1 \in T
  <2>1. x \in 1 .. n
    OBVIOUS
  <2>2. <<x - 1, x>> \in OpToRel(<, Nat)
    BY <2>1 DEF OpToRel
  <2>3. x - 1 \notin U
    BY <1>3, <2>2
  <2> QED BY <2>1, <2>3
<1> QED BY <1>4

\* A loop of n steps over S, and what it has computed after each.
Steps(n, S) == [1 .. n -> [S -> S]]

IsRun(l, n, base, step) == l[0] = base /\ \A i \in 1 .. n : l[i] = step[i][l[i - 1]]

\* Every loop has a run.
LEMMA Iteration ==
  ASSUME NEW n \in Nat, NEW S, NEW base \in S, NEW step \in Steps(n, S)
  PROVE  \E l \in [0 .. n -> S] : IsRun(l, n, base, step)
<1>0. step \in [1 .. n -> [S -> S]]
  BY DEF Steps
<1> DEFINE Runs(k) == {l \in [0 .. k -> S] :
                         l[0] = base /\ \A i \in 1 .. k : l[i] = step[i][l[i - 1]]}
           T == {k \in 0 .. n : Runs(k) # {}}
<1>1. 0 \in T
  <2>1. [i \in 0 .. 0 |-> base] \in Runs(0)
    OBVIOUS
  <2> QED BY <2>1
<1>2. ASSUME NEW k \in 1 .. n, k - 1 \in T PROVE k \in T
  <2>1. PICK l \in Runs(k - 1) : TRUE
    BY <1>2
  <2> DEFINE m == [i \in 0 .. k |-> IF i = k THEN step[k][l[k - 1]] ELSE l[i]]
  <2>2. l \in [0 .. k - 1 -> S] /\ l[0] = base
        /\ \A i \in 1 .. k - 1 : l[i] = step[i][l[i - 1]]
    BY <2>1
  <2>3. step[k][l[k - 1]] \in S
    BY <1>0, <2>2
  <2>4. m \in [0 .. k -> S]
    BY <2>2, <2>3
  <2>5. m[0] = base /\ m[k] = step[k][m[k - 1]]
    BY <2>2
  <2>6. \A i \in 1 .. k - 1 : m[i] = step[i][m[i - 1]]
    BY <2>2
  <2>7. m \in Runs(k)
    BY <2>4, <2>5, <2>6
  <2> QED BY <2>7
<1> HIDE DEF T
<1>3. \A k \in 0 .. n : k \in T
  BY <1>1, <1>2, UpTo
<1>4. n \in T
  BY <1>3
<1> QED BY <1>4 DEF T, IsRun

\* What the loop over a frame's items does, item by item.
Lists(T, K) == [list : Seq(T), seen : SUBSET K]

Collects(l, list, known, new, key) ==
  /\ l[0] = [list |-> list, seen |-> known]
  /\ \A i \in 1 .. Len(new) : l[i] = Collect(l[i - 1], new[i], key[new[i]])
  /\ Collected(list, known, new, key) = l[Len(new)]

LEMMA CollectedLoop ==
  ASSUME NEW T, NEW K, NEW list \in Seq(T), NEW known \in SUBSET K,
         NEW new \in Seq(T), NEW key \in [T -> K]
  PROVE  \E l \in [0 .. Len(new) -> Lists(T, K)] : Collects(l, list, known, new, key)
<1> DEFINE n == Len(new)
           S == Lists(T, K)
           base == [list |-> list, seen |-> known]
           step == [i \in 1 .. n |-> [x \in S |-> Collect(x, new[i], key[new[i]])]]
           Runs(g) == g = [i \in 0 .. n |->
                        IF i = 0 THEN base ELSE Collect(g[i - 1], new[i], key[new[i]])]
           c == CHOOSE g : Runs(g)
<1>1. n \in Nat /\ base \in S
  BY DEF Lists
<1>2. ASSUME NEW i \in 1 .. n, NEW x \in S
      PROVE  Collect(x, new[i], key[new[i]]) \in S
  <2>1. new[i] \in T /\ key[new[i]] \in K
    OBVIOUS
  <2>2. x.list \in Seq(T) /\ x.seen \in SUBSET K
    BY DEF Lists
  <2>3. Append(x.list, new[i]) \in Seq(T) /\ x.seen \cup {key[new[i]]} \in SUBSET K
    BY <2>1, <2>2
  <2> QED BY <2>3 DEF Collect, Lists
<1>3. step \in Steps(n, S)
  BY <1>2 DEF Steps
<1> HIDE DEF S, base, n
<1>4. PICK m \in [0 .. n -> S] : m[0] = base /\ \A i \in 1 .. n : m[i] = step[i][m[i - 1]]
  <2> HIDE DEF step
  <2>1. \E m \in [0 .. n -> S] : IsRun(m, n, base, step)
    BY <1>1, <1>3, Iteration
  <2> QED BY <2>1 DEF IsRun
<1>5. ASSUME NEW i \in 1 .. n
      PROVE  m[i] = Collect(m[i - 1], new[i], key[new[i]])
  <2>1. m[i] = step[i][m[i - 1]]
    BY <1>4
  <2>2. m[i - 1] \in S
    BY <1>1, <1>4
  <2>3. step[i] = [x \in S |-> Collect(x, new[i], key[new[i]])]
    OBVIOUS
  <2> QED BY <2>1, <2>2, <2>3
<1>6. Runs(m)
  BY <1>1, <1>4, <1>5
<1>7. Runs(c)
  BY <1>6
<1>8. \A i \in 0 .. n : c[i] = m[i]
  <2> DEFINE U == {i \in 0 .. n : c[i] = m[i]}
  <2> HIDE DEF c
  <2>1. 0 \in U
    BY <1>1, <1>4, <1>7
  <2>2. ASSUME NEW i \in 1 .. n, i - 1 \in U PROVE i \in U
    BY <1>1, <1>5, <1>7, <2>2
  <2> HIDE DEF U
  <2>3. \A i \in 0 .. n : i \in U
    BY <1>1, <2>1, <2>2, UpTo
  <2> QED BY <2>3 DEF U
<1>9. Collected(list, known, new, key) = c[n]
  BY DEF Collected, n, base
<1>10. Collected(list, known, new, key) = m[n]
  BY <1>1, <1>8, <1>9
<1> QED BY <1>4, <1>5, <1>10 DEF n, S, base, Collects
\* What the loop over the list of cells does at the beginning of a session.
KeepsCarpet(l, list) ==
  /\ l[0] = <<>>
  /\ \A i \in 1 .. Len(list) : l[i] = KeepCarpet(l[i - 1], list[i])
  /\ Carpets(list) = l[Len(list)]

LEMMA CarpetsLoop ==
  ASSUME NEW list \in Seq(Observations)
  PROVE  \E l \in [0 .. Len(list) -> Seq(Observations)] : KeepsCarpet(l, list)
<1> DEFINE n == Len(list)
           S == Seq(Observations)
           step == [i \in 1 .. n |-> [x \in S |-> KeepCarpet(x, list[i])]]
           Runs(g) == g = [i \in 0 .. n |->
                             IF i = 0 THEN <<>> ELSE KeepCarpet(g[i - 1], list[i])]
           c == CHOOSE g : Runs(g)
<1>1. n \in Nat /\ <<>> \in S
  OBVIOUS
<1>2. ASSUME NEW i \in 1 .. n, NEW x \in S
      PROVE  KeepCarpet(x, list[i]) \in S
  <2>1. list[i] \in Observations
    OBVIOUS
  <2>2. Append(x, list[i]) \in S
    BY <2>1
  <2> QED BY <2>2 DEF KeepCarpet
<1> HIDE DEF S, n
<1>3. step \in Steps(n, S)
  BY <1>2 DEF Steps
<1>4. PICK m \in [0 .. n -> S] : m[0] = <<>> /\ \A i \in 1 .. n : m[i] = step[i][m[i - 1]]
  <2> HIDE DEF step
  <2>1. \E m \in [0 .. n -> S] : IsRun(m, n, <<>>, step)
    BY <1>1, <1>3, Iteration
  <2> QED BY <2>1 DEF IsRun
<1>5. ASSUME NEW i \in 1 .. n
      PROVE  m[i] = KeepCarpet(m[i - 1], list[i])
  <2>1. m[i] = step[i][m[i - 1]]
    BY <1>4
  <2>2. m[i - 1] \in S
    BY <1>1, <1>4
  <2>3. step[i] = [x \in S |-> KeepCarpet(x, list[i])]
    OBVIOUS
  <2> QED BY <2>1, <2>2, <2>3
<1>6. Runs(m)
  BY <1>1, <1>4, <1>5
<1>7. Runs(c)
  BY <1>6
<1>8. \A i \in 0 .. n : c[i] = m[i]
  <2> DEFINE U == {i \in 0 .. n : c[i] = m[i]}
  <2> HIDE DEF c
  <2>1. 0 \in U
    BY <1>1, <1>4, <1>7
  <2>2. ASSUME NEW i \in 1 .. n, i - 1 \in U PROVE i \in U
    BY <1>1, <1>5, <1>7, <2>2
  <2> HIDE DEF U
  <2>3. \A i \in 0 .. n : i \in U
    BY <1>1, <2>1, <2>2, UpTo
  <2> QED BY <2>3 DEF U
<1>9. Carpets(list) = c[n]
  BY DEF Carpets, n
<1>10. Carpets(list) = m[n]
  BY <1>1, <1>8, <1>9
<1> QED BY <1>4, <1>5, <1>10 DEF n, S, KeepsCarpet
-----------------------------------------------------------------------------
Keys(list, key) == {key[list[i]] : i \in 1 .. Len(list)}

Distinct(list, key) ==
  \A i, j \in 1 .. Len(list) : key[list[i]] = key[list[j]] => i = j

\* A loop that begins with what was seen of a list ends with it.
LEMMA CollectedKeys ==
  ASSUME NEW T, NEW K, NEW list \in Seq(T), NEW known \in SUBSET K,
         NEW new \in Seq(T), NEW key \in [T -> K],
         NEW r, r = Collected(list, known, new, key)
  PROVE  /\ r \in Lists(T, K)
         /\ Keys(list, key) = known /\ Distinct(list, key)
              => Keys(r.list, key) = r.seen /\ Distinct(r.list, key)
<1>1. PICK l \in [0 .. Len(new) -> Lists(T, K)] : Collects(l, list, known, new, key)
  BY CollectedLoop
<1>2. Len(new) \in Nat /\ r = l[Len(new)] /\ r \in [list : Seq(T), seen : SUBSET K]
  BY <1>1 DEF Collects, Lists
<1>3. ASSUME Keys(list, key) = known, Distinct(list, key)
      PROVE  Keys(r.list, key) = r.seen /\ Distinct(r.list, key)
  <2> DEFINE Ok(x) == Keys(x.list, key) = x.seen /\ Distinct(x.list, key)
             U == {i \in 0 .. Len(new) : Ok(l[i])}
  <2>1. 0 \in U
    BY <1>1, <1>2, <1>3 DEF Collects
  <2>2. ASSUME NEW i \in 1 .. Len(new), i - 1 \in U PROVE i \in U
    <3> DEFINE x == l[i - 1]
               s == x.list
               k == key[new[i]]
    <3>1. x \in [list : Seq(T), seen : SUBSET K] /\ Ok(x)
      BY <1>1, <1>2, <2>2 DEF Lists
    <3>2. l[i] = Collect(x, new[i], k)
      BY <1>1 DEF Collects
    <3>3. CASE k \in x.seen
      BY <3>1, <3>2, <3>3 DEF Collect
    <3>4. CASE k \notin x.seen
      <4> DEFINE t == Append(s, new[i])
      <4>1. l[i] = [list |-> t, seen |-> x.seen \cup {k}]
        BY <3>2, <3>4 DEF Collect
      <4>2. s \in Seq(T) /\ new[i] \in T
        BY <3>1
      <4>3. /\ Len(s) \in Nat /\ Len(t) = Len(s) + 1 /\ t[Len(s) + 1] = new[i]
            /\ \A j \in 1 .. Len(s) : t[j] = s[j]
        BY <4>2
      <4>4. Keys(s, key) = x.seen /\ Distinct(s, key)
        BY <3>1
      <4> HIDE DEF t, s, x
      <4>5. Keys(t, key) = x.seen \cup {k}
        <5>1. ASSUME NEW j \in 1 .. Len(t) PROVE key[t[j]] \in x.seen \cup {k}
          <6>1. CASE j \in 1 .. Len(s)
            <7>1. key[s[j]] \in Keys(s, key)
              BY <6>1 DEF Keys
            <7> QED BY <4>3, <4>4, <6>1, <7>1
          <6>2. CASE j = Len(s) + 1
            BY <4>3, <6>2
          <6> QED BY <4>3, <6>1, <6>2
        <5>2. \A j \in 1 .. Len(s) : key[s[j]] \in Keys(t, key)
          BY <4>3 DEF Keys
        <5>3. k \in Keys(t, key)
          BY <4>3 DEF Keys
        <5>4. x.seen \subseteq Keys(t, key)
          BY <4>4, <5>2 DEF Keys
        <5>5. Keys(t, key) \subseteq x.seen \cup {k}
          BY <5>1 DEF Keys
        <5> QED BY <5>3, <5>4, <5>5
      <4>6. Distinct(t, key)
        <5>1. \A j \in 1 .. Len(s) : key[t[j]] = key[s[j]] /\ key[s[j]] # k
          BY <3>4, <4>3, <4>4 DEF Keys
        <5>2. key[t[Len(s) + 1]] = k
          BY <4>3
        <5>3. SUFFICES ASSUME NEW a \in 1 .. Len(t), NEW b \in 1 .. Len(t),
                              key[t[a]] = key[t[b]]
                       PROVE  a = b
          BY DEF Distinct
        <5>4. CASE a \in 1 .. Len(s) /\ b \in 1 .. Len(s)
          BY <4>4, <5>1, <5>3, <5>4 DEF Distinct
        <5>5. CASE a \notin 1 .. Len(s) \/ b \notin 1 .. Len(s)
          BY <4>3, <5>1, <5>2, <5>3, <5>5
        <5> QED BY <5>4, <5>5
      <4>7. Ok(l[i])
        BY <4>1, <4>5, <4>6
      <4> QED BY <4>7
    <3> QED BY <3>3, <3>4
  <2> HIDE DEF U
  <2>3. \A i \in 0 .. Len(new) : i \in U
    BY <1>2, <2>1, <2>2, UpTo
  <2>4. Len(new) \in U
    BY <1>2, <2>3
  <2> QED BY <1>2, <2>4 DEF U
<1> QED BY <1>2, <1>3 DEF Lists

\* The carpet kept of a list is part of it, and in its order.
LEMMA CarpetsKeys ==
  ASSUME NEW list \in Seq(Observations), NEW r, r = Carpets(list)
  PROVE  r \in Seq(Observations) /\ (Distinct(list, CellOf) => Distinct(r, CellOf))
<1> DEFINE n == Len(list)
<1>1. PICK l \in [0 .. n -> Seq(Observations)] : KeepsCarpet(l, list)
  BY CarpetsLoop
<1>2. n \in Nat /\ r = l[n] /\ r \in Seq(Observations)
  BY <1>1 DEF KeepsCarpet
<1>3. ASSUME Distinct(list, CellOf) PROVE Distinct(r, CellOf)
  <2> DEFINE Of(s, i) == \A j \in 1 .. Len(s) : \E k \in 1 .. i : s[j] = list[k]
             Ok(s, i) == Distinct(s, CellOf) /\ Of(s, i)
             U == {i \in 0 .. n : Ok(l[i], i)}
  <2>1. 0 \in U
    <3>1. l[0] = <<>>
      BY <1>1 DEF KeepsCarpet
    <3> QED BY <1>2, <3>1 DEF Distinct
  <2>2. ASSUME NEW i \in 1 .. n, i - 1 \in U PROVE i \in U
    <3> DEFINE s == l[i - 1]
               t == Append(s, list[i])
    <3>1. s \in Seq(Observations) /\ Distinct(s, CellOf) /\ Of(s, i - 1)
      BY <1>1, <1>2, <2>2
    <3>2. l[i] = KeepCarpet(s, list[i])
      BY <1>1 DEF KeepsCarpet
    <3>3. CASE ~IsCarpet(list[i])
      <4>1. l[i] = s
        BY <3>2, <3>3 DEF KeepCarpet
      <4>2. Of(s, i)
        BY <3>1
      <4>3. Ok(l[i], i)
        BY <3>1, <4>1, <4>2
      <4> QED BY <4>3
    <3>4. CASE IsCarpet(list[i])
      <4>1. l[i] = t
        BY <3>2, <3>4 DEF KeepCarpet
      <4>2. /\ Len(s) \in Nat /\ Len(t) = Len(s) + 1 /\ t[Len(s) + 1] = list[i]
            /\ \A j \in 1 .. Len(s) : t[j] = s[j]
        BY <3>1
      <4> HIDE DEF t, s
      <4>3. Of(t, i)
        <5>1. ASSUME NEW j \in 1 .. Len(t) PROVE \E k \in 1 .. i : t[j] = list[k]
          <6>1. CASE j \in 1 .. Len(s)
            <7>1. PICK k \in 1 .. i - 1 : s[j] = list[k]
              BY <3>1, <6>1
            <7> QED BY <4>2, <6>1, <7>1
          <6>2. CASE j = Len(s) + 1
            BY <4>2, <6>2
          <6> QED BY <4>2, <6>1, <6>2
        <5> QED BY <5>1
      <4>4. Distinct(t, CellOf)
        <5>1. ASSUME NEW j \in 1 .. Len(s)
              PROVE  CellOf[t[j]] = CellOf[s[j]] /\ CellOf[s[j]] # CellOf[list[i]]
          <6>1. PICK k \in 1 .. i - 1 : s[j] = list[k]
            BY <3>1
          <6>2. CellOf[list[k]] # CellOf[list[i]]
            BY <1>3 DEF Distinct
          <6> QED BY <4>2, <6>1, <6>2
        <5>2. CellOf[t[Len(s) + 1]] = CellOf[list[i]]
          BY <4>2
        <5>3. SUFFICES ASSUME NEW a \in 1 .. Len(t), NEW b \in 1 .. Len(t),
                              CellOf[t[a]] = CellOf[t[b]]
                       PROVE  a = b
          BY DEF Distinct
        <5>4. CASE a \in 1 .. Len(s) /\ b \in 1 .. Len(s)
          BY <3>1, <5>1, <5>3, <5>4 DEF Distinct
        <5>5. CASE a \notin 1 .. Len(s) \/ b \notin 1 .. Len(s)
          BY <4>2, <5>1, <5>2, <5>3, <5>5
        <5> QED BY <5>4, <5>5
      <4>5. Ok(l[i], i)
        BY <4>1, <4>3, <4>4
      <4> QED BY <4>5
    <3> QED BY <3>3, <3>4
  <2> HIDE DEF U
  <2>3. \A i \in 0 .. n : i \in U
    BY <1>2, <2>1, <2>2, UpTo
  <2>4. n \in U
    BY <1>2, <2>3
  <2> QED BY <1>2, <2>4 DEF U
<1> QED BY <1>2, <1>3
-----------------------------------------------------------------------------
\* The cells of a list, and their number, when none is listed twice.
LEMMA CountCells ==
  ASSUME NEW list \in Seq(Observations)
  PROVE  /\ Keys(list, CellOf) = CellsOf(Range(list))
         /\ Distinct(list, CellOf) => Len(list) = Cardinality(Keys(list, CellOf))
<1>1. \A i \in 1 .. Len(list) : list[i] \in Observations /\ CellOf[list[i]] = list[i][1]
  BY DEF CellOf
<1>2. DOMAIN list = 1 .. Len(list) /\ Len(list) \in Nat
  OBVIOUS
<1>3. Keys(list, CellOf) = CellsOf(Range(list))
  BY <1>1, <1>2 DEF Keys, CellsOf, Range
<1>4. ASSUME Distinct(list, CellOf)
      PROVE  Len(list) = Cardinality(Keys(list, CellOf))
  <2> DEFINE f == [i \in 1 .. Len(list) |-> CellOf[list[i]]]
             S == 1 .. Len(list)
             K == Keys(list, CellOf)
  <2>1. f \in [S -> K]
    BY DEF Keys
  <2>2. \A a, b \in S : f[a] = f[b] => a = b
    BY <1>4 DEF Distinct
  <2>3. \A c \in K : \E a \in S : f[a] = c
    BY DEF Keys
  <2> HIDE DEF f, K
  <2>4. f \in Bijection(S, K)
    BY <2>1, <2>2, <2>3, Fun_IsBij
  <2>5. ExistsBijection(S, K)
    BY <2>4 DEF ExistsBijection
  <2>6. IsFiniteSet(S) /\ Cardinality(S) = Len(list)
    BY <1>2, FS_Interval
  <2> HIDE DEF S
  <2>7. Cardinality(K) = Cardinality(S)
    BY <2>5, <2>6, FS_Bijection
  <2> QED BY <2>6, <2>7 DEF K
<1> QED BY <1>3, <1>4
-----------------------------------------------------------------------------
(***************************************************************************)
(* The types.                                                              *)
(***************************************************************************)

StateTypes ==
  /\ status \in {"unknown", "session", "idle"}
  /\ display \in Frames \cup {None}
  /\ mapTs \in Maps \cup {None}

ListTypes ==
  /\ quads \in Seq(Quads) /\ cells \in Seq(Observations)
  /\ seen \in SUBSET Cells /\ lidarTs \in Maps \cup {0}
  /\ wasSession \in BOOLEAN

LayerTypes ==
  /\ made \in BOOLEAN /\ strip \in SUBSET Quads /\ drawn \in Nat \X Nat
  /\ lidar \in [DOMAIN lidar -> BOOLEAN] /\ DOMAIN lidar \subseteq Cells

RenderTypes ==
  /\ render \in {"idle", "begun", "base", "rooms", "frame"}
  /\ cached \in BOOLEAN
  /\ baseTs \in Maps \cup {None} /\ renderTs \in Maps \cup {None}
  /\ job \in Jobs \cup {None}
  /\ (job # None) = (render = "frame")
  /\ (renderTs # None) = (render = "base")

LEMMA TypeParts ==
  TypeOK <=> StateTypes /\ ListTypes /\ LayerTypes /\ RenderTypes /\ cut \in BOOLEAN
BY DEF TypeOK, StateTypes, ListTypes, LayerTypes, RenderTypes

LEMMA TypePartsNext ==
  TypeOK' <=> StateTypes' /\ ListTypes' /\ LayerTypes' /\ RenderTypes' /\ cut' \in BOOLEAN
BY DEF TypeOK, StateTypes, ListTypes, LayerTypes, RenderTypes

LEMMA KeyTypes == QuadKey \in [Quads -> Quads] /\ CellOf \in [Observations -> Cells]
BY DEF QuadKey, CellOf, Observations

\* The members of a list, and the cells of observations.
LEMMA Members ==
  /\ \A S : \A s \in Seq(S) : Range(s) \in SUBSET S
  /\ \A o \in SUBSET Observations : CellsOf(o) \in SUBSET Cells
BY DEF Range, CellsOf, Observations

\* What the loop makes of the two lists.
LEMMA ListsCollected ==
  /\ \A list, new \in Seq(Quads) : \A known \in SUBSET Quads :
       Collected(list, known, new, QuadKey).list \in Seq(Quads)
  /\ \A list, new \in Seq(Observations) : \A known \in SUBSET Cells :
       /\ Collected(list, known, new, CellOf).list \in Seq(Observations)
       /\ Collected(list, known, new, CellOf).seen \in SUBSET Cells
<1>1. ASSUME NEW list \in Seq(Quads), NEW known \in SUBSET Quads, NEW new \in Seq(Quads)
      PROVE  Collected(list, known, new, QuadKey) \in Lists(Quads, Quads)
  BY KeyTypes, CollectedKeys
<1>2. ASSUME NEW list \in Seq(Observations), NEW known \in SUBSET Cells,
             NEW new \in Seq(Observations)
      PROVE  Collected(list, known, new, CellOf) \in Lists(Observations, Cells)
  BY KeyTypes, CollectedKeys
<1> QED BY <1>1, <1>2 DEF Lists

\* What the lists are before a frame is taken into account.
LEMMA KeptTypes ==
  ASSUME ListTypes
  PROVE  /\ QuadsKept \in Seq(Quads) /\ CellsKept \in Seq(Observations)
         /\ SeenKept \in SUBSET Cells
<1>1. QuadsKept \in Seq(Quads)
  BY DEF ListTypes, QuadsKept
<1>2. CellsKept \in Seq(Observations)
  BY CarpetsKeys DEF ListTypes, CellsKept
<1>3. SeenKept \in SUBSET Cells
  BY <1>2, Members DEF ListTypes, SeenKept
<1> QED BY <1>1, <1>2, <1>3

\* A broadcast keeps the types of the lists.
LEMMA ListTypeStep == ListTypes /\ StateTypes' /\ UpdateTrail => ListTypes'
<1> SUFFICES ASSUME ListTypes, StateTypes', UpdateTrail PROVE ListTypes'
  OBVIOUS
<1>1. wasSession' \in BOOLEAN
  <2>1. (status' = "session") \in BOOLEAN
    OBVIOUS
  <2> QED BY <2>1 DEF UpdateTrail, ListTypes
<1>2. display' \in Frames => display'.quads \in Seq(Quads) /\ display'.cells \in Seq(Observations)
  BY LayersAssumption DEF LayersAssumption
<1>3. Layered => display' \in Frames /\ mapTs' \in Maps
  BY DEF StateTypes, Layered
<1>4. quads' \in Seq(Quads)
  <2> DEFINE new == IF Layered /\ Len(QuadsKept) < SwathMax THEN display'.quads ELSE <<>>
             r == Collected(QuadsKept, Range(QuadsKept), new, QuadKey)
  <2>1. new \in Seq(Quads)
    BY <1>2, <1>3
  <2>2. Range(QuadsKept) \in SUBSET Quads
    BY KeptTypes, Members
  <2>3. quads' = r.list
    BY DEF UpdateTrail, Strip
  <2> HIDE DEF new
  <2>4. r.list \in Seq(Quads)
    BY <2>1, <2>2, KeptTypes, ListsCollected
  <2> QED BY <2>3, <2>4
<1>5. /\ cells' \in Seq(Observations) /\ seen' \in SUBSET Cells
      /\ lidarTs' \in Maps \cup {0}
  <2> DEFINE before == IF MapChanged THEN <<>> ELSE CellsKept
             known == IF MapChanged THEN {} ELSE SeenKept
             new == IF Layered /\ Len(before) < LidarMax THEN display'.cells ELSE <<>>
             r == Collected(before, known, new, CellOf)
  <2>1. before \in Seq(Observations) /\ known \in SUBSET Cells
    BY KeptTypes
  <2>2. new \in Seq(Observations)
    BY <1>2, <1>3
  <2>3. /\ cells' = r.list /\ seen' = r.seen
        /\ lidarTs' = IF MapChanged THEN mapTs' ELSE lidarTs
    BY DEF UpdateTrail, Lidar
  <2>4. lidarTs' \in Maps \cup {0}
    BY <1>3, <2>3 DEF MapChanged, ListTypes
  <2> HIDE DEF new, before, known
  <2>5. r.list \in Seq(Observations) /\ r.seen \in SUBSET Cells
    BY <2>1, <2>2, ListsCollected
  <2> QED BY <2>3, <2>4, <2>5
<1> QED BY <1>1, <1>4, <1>5 DEF ListTypes

\* A render begins only with a map, and a map is never lost again.
TypeInv == TypeOK /\ (render = "begun" => mapTs # None)

LEMMA NoneIsNoJob == \A j \in Jobs : j # None
BY LayersAssumption DEF LayersAssumption

LEMMA NotifyTypes ==
  LayerTypes /\ RenderTypes /\ Notify => LayerTypes' /\ RenderTypes'
<1> SUFFICES ASSUME LayerTypes, RenderTypes, Notify PROVE LayerTypes' /\ RenderTypes'
  OBVIOUS
<1>1. LayerTypes'
  BY DEF Notify, LayerTypes, layerVars, renderVars
<1>2. RenderTypes'
  BY DEF Notify, RenderTypes, layerVars, renderVars
<1> QED BY <1>1, <1>2

LEMMA ForgottenTypes == Forgotten => LayerTypes'
<1>1. DOMAIN <<>> = {} /\ <<>> \in [{} -> BOOLEAN]
  OBVIOUS
<1>2. <<0, 0>> \in Nat \X Nat
  OBVIOUS
<1>3. Forgotten => /\ lidar' \in [DOMAIN lidar' -> BOOLEAN]
                   /\ DOMAIN lidar' \subseteq Cells
  BY <1>1 DEF Forgotten
<1> QED BY <1>2, <1>3 DEF Forgotten, LayerTypes

\* The items that are not drawn yet are items of the lists.
LEMMA CaptureTypes ==
  ListTypes /\ LayerTypes /\ Capture => LayerTypes' /\ job' \in Jobs /\ cut' \in BOOLEAN
<1> SUFFICES ASSUME ListTypes, LayerTypes, Capture
             PROVE  LayerTypes' /\ job' \in Jobs /\ cut' \in BOOLEAN
  OBVIOUS
<1> DEFINE anew == Len(quads) < drawn[1] \/ Len(cells) < drawn[2]
           from == IF anew THEN <<0, 0>> ELSE drawn
<1>1. LayerTypes'
  BY ForgottenTypes DEF Capture, LayerTypes, layerVars
<1>2. from[1] \in Nat /\ from[2] \in Nat
  BY DEF LayerTypes
<1>3. job' = [quads |-> SubSeq(quads, from[1] + 1, Len(quads)),
              cells |-> SubSeq(cells, from[2] + 1, Len(cells)),
              totals |-> <<Len(quads), Len(cells)>>]
  BY DEF Capture
<1>4. (cut /\ ~anew /\ made) \in BOOLEAN
  OBVIOUS
<1>5. cut' \in BOOLEAN
  BY <1>4 DEF Capture
<1> HIDE DEF from
<1>6. SubSeq(quads, from[1] + 1, Len(quads)) \in Seq(Quads)
  <2>1. quads \in Seq(Quads) /\ Len(quads) \in Nat
    BY DEF ListTypes
  <2>2. \A i \in from[1] + 1 .. Len(quads) : quads[i] \in Quads
    BY <1>2, <2>1
  <2> QED BY <1>2, <2>1, <2>2, SubSeqProperties
<1>7. SubSeq(cells, from[2] + 1, Len(cells)) \in Seq(Observations)
  <2>1. cells \in Seq(Observations) /\ Len(cells) \in Nat
    BY DEF ListTypes
  <2>2. \A i \in from[2] + 1 .. Len(cells) : cells[i] \in Observations
    BY <1>2, <2>1
  <2> QED BY <1>2, <2>1, <2>2, SubSeqProperties
<1>8. <<Len(quads), Len(cells)>> \in Nat \X Nat
  BY DEF ListTypes
<1>9. job' \in Jobs
  BY <1>3, <1>6, <1>7, <1>8 DEF Jobs
<1> QED BY <1>1, <1>5, <1>9

\* Drawing adds marks of known cells to a layer.
LEMMA DrawnTypes ==
  ASSUME LayerTypes, NEW o \in SUBSET Observations
  PROVE  /\ DrawnOn(lidar, o) \in [DOMAIN DrawnOn(lidar, o) -> BOOLEAN]
         /\ DOMAIN DrawnOn(lidar, o) = DOMAIN lidar \cup CellsOf(o)
         /\ DOMAIN DrawnOn(lidar, o) \subseteq Cells
<1>1. \A c \in CellsOf(o) : (<<c, TRUE>> \in o) \in BOOLEAN
  OBVIOUS
<1>2. \A c \in DOMAIN lidar : lidar[c] \in BOOLEAN
  BY DEF LayerTypes
<1>3. CellsOf(o) \subseteq Cells /\ DOMAIN lidar \subseteq Cells
  BY Members DEF LayerTypes
<1>4. DOMAIN DrawnOn(lidar, o) = DOMAIN lidar \cup CellsOf(o)
  BY DEF DrawnOn
<1>5. DrawnOn(lidar, o) \in [DOMAIN lidar \cup CellsOf(o) -> BOOLEAN]
  BY <1>1, <1>2 DEF DrawnOn
<1> QED BY <1>3, <1>4, <1>5

LEMMA DrawTypes ==
  ASSUME LayerTypes, RenderTypes, render = "frame"
  PROVE  /\ job \in Jobs
         /\ strip \cup Range(job.quads) \in SUBSET Quads
         /\ Range(job.cells) \in SUBSET Observations
         /\ job.totals \in Nat \X Nat
<1>1. job \in Jobs
  BY DEF RenderTypes
<1> QED BY <1>1, Members DEF Jobs, LayerTypes

LEMMA TypeStep == TypeInv /\ [Next]_vars => TypeInv'
<1> SUFFICES ASSUME TypeInv, [Next]_vars PROVE TypeInv'
  OBVIOUS
<1>1. StateTypes /\ ListTypes /\ LayerTypes /\ RenderTypes /\ cut \in BOOLEAN
      /\ (render = "begun" => mapTs # None)
  BY TypeParts DEF TypeInv
<1>2. None \notin Maps
  BY LayersAssumption DEF LayersAssumption
<1>3. ASSUME StateTypes', ListTypes', LayerTypes', RenderTypes', cut' \in BOOLEAN,
             render' = "begun" => mapTs' # None
      PROVE  TypeInv'
  BY <1>3, TypePartsNext DEF TypeInv
<1>4. CASE Broadcast
  <2>1. UpdateTrail /\ Notify
    BY <1>4 DEF Broadcast, DisplayMap, OtherBroadcast
  <2>2. StateTypes' /\ mapTs' = mapTs
    BY <1>1, <1>4 DEF Broadcast, DisplayMap, OtherBroadcast, StateTypes
  <2>3. ListTypes'
    BY <1>1, <2>1, <2>2, ListTypeStep
  <2>4. LayerTypes' /\ RenderTypes'
    BY <1>1, <2>1, NotifyTypes
  <2>5. cut' \in BOOLEAN
    <3>1. (cut \/ ~IsPrefix(quads, quads') \/ ~IsPrefix(cells, cells')) \in BOOLEAN
      OBVIOUS
    <3> QED BY <2>1, <3>1 DEF UpdateTrail
  <2>6. render' = "begun" => mapTs' # None
    BY <1>1, <2>1, <2>2 DEF Notify, renderVars
  <2> QED BY <1>3, <2>2, <2>3, <2>4, <2>5, <2>6
<1>5. CASE Unannounced
  <2>1. StateTypes' /\ (mapTs' = mapTs \/ mapTs' \in Maps)
    BY <1>1, <1>5 DEF Unannounced, StateTypes
  <2>2. ListTypes' /\ cut' \in BOOLEAN
    BY <1>1, <1>5 DEF Unannounced, ListTypes, listVars
  <2>3. CASE Notify
    <3>1. LayerTypes' /\ RenderTypes'
      BY <1>1, <2>3, NotifyTypes
    <3>2. render' = "begun" => mapTs' # None
      BY <1>1, <1>2, <2>1, <2>3 DEF Notify, renderVars
    <3> QED BY <1>3, <2>1, <2>2, <3>1, <3>2
  <2>4. CASE UNCHANGED <<layerVars, renderVars>>
    <3>1. LayerTypes' /\ RenderTypes'
      BY <1>1, <2>4 DEF LayerTypes, RenderTypes, layerVars, renderVars
    <3>2. render' = "begun" => mapTs' # None
      BY <1>1, <1>2, <2>1, <2>4 DEF renderVars
    <3> QED BY <1>3, <2>1, <2>2, <3>1, <3>2
  <2> QED BY <1>5, <2>3, <2>4 DEF Unannounced
<1>6. ASSUME Rendering PROVE StateTypes' /\ ListTypes' /\ mapTs' = mapTs
  <2>1. UNCHANGED stateVars /\ UNCHANGED listVars
    BY <1>6 DEF Rendering, RenderBegins, BaseRendered, RoomsOutlined, FrameRendered, RenderFails
  <2> QED BY <1>1, <2>1 DEF stateVars, listVars, StateTypes, ListTypes
<1>7. CASE RenderBegins
  <2>1. Rendering
    BY <1>7 DEF Rendering
  <2>2. job = None /\ renderTs = None /\ cached' = cached /\ baseTs' = baseTs
    BY <1>1, <1>7 DEF RenderTypes, RenderBegins
  <2>3. CASE render' = "base"
    <3>1. renderTs' = mapTs /\ UNCHANGED <<layerVars, job, cut>>
      BY <1>7, <2>3 DEF RenderBegins, Capture
    <3>2. mapTs # None /\ mapTs \in Maps
      BY <1>1, <1>7 DEF RenderBegins, StateTypes
    <3>3. RenderTypes'
      BY <1>1, <2>2, <2>3, <3>1, <3>2 DEF RenderTypes
    <3>4. LayerTypes' /\ cut' \in BOOLEAN
      BY <1>1, <3>1 DEF LayerTypes, layerVars
    <3> QED BY <1>3, <1>6, <2>1, <2>3, <3>3, <3>4
  <2>4. CASE render' = "rooms"
    <3>1. UNCHANGED <<layerVars, job, cut, renderTs>>
      BY <1>7, <2>4 DEF RenderBegins, Capture
    <3>2. RenderTypes'
      BY <1>1, <2>2, <2>4, <3>1 DEF RenderTypes
    <3>3. LayerTypes' /\ cut' \in BOOLEAN
      BY <1>1, <3>1 DEF LayerTypes, layerVars
    <3> QED BY <1>3, <1>6, <2>1, <2>4, <3>2, <3>3
  <2>5. CASE Capture /\ UNCHANGED renderTs
    <3>1. render' = "frame"
      BY <2>5 DEF Capture
    <3>2. LayerTypes' /\ job' \in Jobs /\ cut' \in BOOLEAN
      BY <1>1, <2>5, CaptureTypes
    <3>3. job' # None
      BY <3>2, NoneIsNoJob
    <3>4. RenderTypes'
      BY <1>1, <2>2, <2>5, <3>1, <3>2, <3>3 DEF RenderTypes
    <3> QED BY <1>3, <1>6, <2>1, <3>1, <3>2, <3>4
  <2> QED BY <1>7, <2>3, <2>4, <2>5 DEF RenderBegins
<1>8. CASE BaseRendered
  <2>1. Rendering
    BY <1>8 DEF Rendering
  <2>2. LayerTypes' /\ cut' \in BOOLEAN
    BY <1>1, <1>8, ForgottenTypes DEF BaseRendered
  <2>3. RenderTypes' /\ render' # "begun"
    BY <1>1, <1>8 DEF BaseRendered, RenderTypes
  <2> QED BY <1>3, <1>6, <2>1, <2>2, <2>3
<1>9. CASE RoomsOutlined
  <2>1. Rendering
    BY <1>9 DEF Rendering
  <2>2. LayerTypes' /\ job' \in Jobs /\ cut' \in BOOLEAN /\ render' = "frame"
    BY <1>1, <1>9, CaptureTypes DEF RoomsOutlined, Capture
  <2>3. job' # None
    BY <2>2, NoneIsNoJob
  <2>4. RenderTypes'
    BY <1>1, <1>9, <2>2, <2>3 DEF RenderTypes, RoomsOutlined
  <2> QED BY <1>3, <1>6, <2>1, <2>2, <2>4
<1>10. CASE FrameRendered
  <2>1. Rendering
    BY <1>10 DEF Rendering
  <2>2. render = "frame"
    BY <1>10 DEF FrameRendered
  <2>3. LayerTypes' /\ cut' \in BOOLEAN
    BY <1>1, <1>10, <2>2, DrawTypes, DrawnTypes
    DEF FrameRendered, LayerTypes, DrawStrip, DrawLidar
  <2>4. RenderTypes' /\ render' # "begun"
    BY <1>1, <1>10 DEF FrameRendered, RenderTypes
  <2> QED BY <1>3, <1>6, <2>1, <2>3, <2>4
<1>11. CASE RenderFails
  <2>1. Rendering
    BY <1>11 DEF Rendering
  <2>2. RenderTypes' /\ render' # "begun"
    BY <1>1, <1>11 DEF RenderFails, RenderTypes
  <2>3. cut' \in BOOLEAN /\ made' = made /\ drawn' = drawn
    BY <1>1, <1>11 DEF RenderFails
  <2>4. CASE UNCHANGED <<strip, lidar>>
    BY <1>1, <1>3, <1>6, <2>1, <2>2, <2>3, <2>4 DEF LayerTypes
  <2>5. CASE render = "frame" /\ DrawStrip /\ (DrawLidar \/ UNCHANGED lidar)
    <3>1. LayerTypes'
      BY <1>1, <2>3, <2>5, DrawTypes, DrawnTypes DEF LayerTypes, DrawStrip, DrawLidar
    <3> QED BY <1>3, <1>6, <2>1, <2>2, <2>3, <3>1
  <2> QED BY <1>11, <2>4, <2>5 DEF RenderFails
<1>12. CASE UNCHANGED vars
  BY <1>1, <1>3, <1>12
  DEF vars, stateVars, listVars, layerVars, renderVars, StateTypes, ListTypes, LayerTypes,
      RenderTypes
<1> QED BY <1>4, <1>5, <1>7, <1>8, <1>9, <1>10, <1>11, <1>12 DEF Next, Rendering

LEMMA TypeInductive == Spec => []TypeInv
<1>1. Init => TypeInv
  <2> SUFFICES ASSUME Init PROVE TypeInv
    OBVIOUS
  <2>1. StateTypes
    BY DEF Init, StateTypes
  <2>2. ListTypes
    <3>1. <<>> \in Seq(Quads) /\ <<>> \in Seq(Observations)
      OBVIOUS
    <3> QED BY <3>1 DEF Init, ListTypes
  <2>3. LayerTypes
    <3>1. DOMAIN <<>> = {} /\ <<>> \in [{} -> BOOLEAN]
      OBVIOUS
    <3>2. lidar \in [DOMAIN lidar -> BOOLEAN] /\ DOMAIN lidar \subseteq Cells
      BY <3>1 DEF Init
    <3> QED BY <3>2 DEF Init, LayerTypes
  <2>4. RenderTypes /\ cut \in BOOLEAN
    BY DEF Init, RenderTypes
  <2> QED BY <2>1, <2>2, <2>3, <2>4, TypeParts DEF TypeInv, Init
<1> QED BY <1>1, TypeStep, PTL DEF Spec

\* The variables have their types.
THEOREM TypeCorrect == Spec => []TypeOK
<1>1. TypeInv => TypeOK
  BY DEF TypeInv
<1> QED BY <1>1, TypeInductive, PTL
-----------------------------------------------------------------------------
(***************************************************************************)
(* _lidar_seen follows lidar_cells.                                        *)
(***************************************************************************)

\* No cell is listed twice, and the cells listed are those seen.
SeenInv == Keys(cells, CellOf) = seen /\ Distinct(cells, CellOf)

\* A loop over observations that begins with what was seen of a list ends with it.
LEMMA SeenCollected ==
  ASSUME NEW list \in Seq(Observations), NEW known \in SUBSET Cells,
         NEW new \in Seq(Observations),
         Keys(list, CellOf) = known, Distinct(list, CellOf)
  PROVE  LET r == Collected(list, known, new, CellOf)
         IN  Keys(r.list, CellOf) = r.seen /\ Distinct(r.list, CellOf)
BY KeyTypes, CollectedKeys

LEMMA SeenStep == TypeInv /\ SeenInv /\ [Next]_vars => SeenInv'
<1> SUFFICES ASSUME TypeInv, SeenInv, [Next]_vars PROVE SeenInv'
  OBVIOUS
<1>1. ListTypes /\ StateTypes /\ TypeInv'
  BY TypeParts, TypeStep DEF TypeInv
<1>2. StateTypes'
  BY <1>1, TypePartsNext DEF TypeInv
<1>3. CASE Broadcast
  <2> DEFINE before == IF MapChanged THEN <<>> ELSE CellsKept
             known == IF MapChanged THEN {} ELSE SeenKept
             new == IF Layered /\ Len(before) < LidarMax THEN display'.cells ELSE <<>>
             r == Collected(before, known, new, CellOf)
  <2>1. before \in Seq(Observations) /\ known \in SUBSET Cells
    BY <1>1, KeptTypes
  <2>2. new \in Seq(Observations)
    BY <1>2, LayersAssumption DEF LayersAssumption, Layered, StateTypes
  <2>3. cells' = r.list /\ seen' = r.seen
    BY <1>3 DEF Broadcast, DisplayMap, OtherBroadcast, UpdateTrail, Lidar
  <2>4. Keys(<<>>, CellOf) = {} /\ Distinct(<<>>, CellOf)
    BY DEF Keys, Distinct
  <2>5. Keys(CellsKept, CellOf) = SeenKept /\ Distinct(CellsKept, CellOf)
    <3>1. CASE Begins
      <4>1. CellsKept = Carpets(cells) /\ SeenKept = CellsOf(Range(CellsKept))
        BY <3>1 DEF CellsKept, SeenKept
      <4>2. CellsKept \in Seq(Observations) /\ Distinct(CellsKept, CellOf)
        BY <1>1, <4>1, CarpetsKeys DEF ListTypes, SeenInv
      <4> QED BY <4>1, <4>2, CountCells
    <3>2. CASE ~Begins
      BY <3>2 DEF CellsKept, SeenKept, SeenInv
    <3> QED BY <3>1, <3>2
  <2>6. Keys(before, CellOf) = known /\ Distinct(before, CellOf)
    BY <2>4, <2>5
  <2> HIDE DEF before, known, new
  <2>7. Keys(r.list, CellOf) = r.seen /\ Distinct(r.list, CellOf)
    BY <2>1, <2>2, <2>6, SeenCollected
  <2> QED BY <2>3, <2>7 DEF SeenInv
<1>4. CASE Unannounced \/ Rendering \/ UNCHANGED vars
  <2>1. cells' = cells /\ seen' = seen
    BY <1>4 DEF Unannounced, Rendering, RenderBegins, BaseRendered, RoomsOutlined,
                FrameRendered, RenderFails, vars, listVars
  <2> QED BY <2>1 DEF SeenInv
<1> QED BY <1>3, <1>4 DEF Next

\* The set has the cells of the list, each of which is listed once.
THEOREM SeenInductive == Spec => []SeenInv
<1>1. Init => SeenInv
  BY DEF Init, SeenInv, Keys, Distinct
<1> QED BY <1>1, SeenStep, TypeInductive, PTL DEF Spec

\* _lidar_seen and lidar_cells agree, for maps and frames of any size.
THEOREM SeenIsListedHolds == Spec => []SeenIsListed
<1>1. TypeInv /\ SeenInv => SeenIsListed
  BY TypeParts, CountCells DEF TypeInv, SeenInv, SeenIsListed, ListTypes
<1> QED BY <1>1, SeenInductive, TypeInductive, PTL
-----------------------------------------------------------------------------
(***************************************************************************)
(* What is drawn.                                                          *)
(***************************************************************************)

\* The frame in the executor brings the layers up to its totals.
JobFits ==
  /\ job.totals[1] <= Len(quads) /\ job.totals[2] <= Len(cells)
  /\ Prefix(quads, job.totals[1]) \subseteq Prefix(quads, drawn[1]) \cup Range(job.quads)
  /\ Prefix(cells, job.totals[2]) \subseteq Prefix(cells, drawn[2]) \cup Range(job.cells)
  /\ Range(job.quads) \subseteq Range(quads)
  /\ Range(job.cells) \subseteq Range(cells)

Empty == strip = {} /\ lidar = <<>> /\ drawn = <<0, 0>>

MarksInv ==
  /\ ~made => Empty
  /\ LayersFollow
  /\ ~cut /\ render = "frame" => JobFits

\* A list that grows keeps its prefixes.
LEMMA Grows ==
  ASSUME NEW S, NEW s \in Seq(S), NEW t \in Seq(S), IsPrefix(s, t)
  PROVE  /\ Len(s) <= Len(t)
         /\ \A n \in Nat : n <= Len(s) => Prefix(t, n) = Prefix(s, n)
         /\ Range(s) \subseteq Range(t)
<1>1. Len(s) \in Nat /\ Len(t) \in Nat /\ Len(s) <= Len(t)
  BY DEF IsPrefix
<1>2. ASSUME NEW i \in 1 .. Len(s) PROVE t[i] = s[i]
  <2>1. SubSeq(s, 1, Len(s)) = SubSeq(t, 1, Len(s))
    BY DEF IsPrefix
  <2>2. /\ \A j \in 1 .. Len(s) : s[j] \in S
        /\ \A j \in 1 .. Len(s) : t[j] \in S
    BY <1>1
  <2>3. \A j \in 1 .. Len(s) - 1 + 1 : SubSeq(s, 1, Len(s))[j] = s[1 + j - 1]
    BY <1>1, <2>2, SubSeqProperties
  <2>4. \A j \in 1 .. Len(s) - 1 + 1 : SubSeq(t, 1, Len(s))[j] = t[1 + j - 1]
    BY <1>1, <2>2, SubSeqProperties
  <2>5. i \in 1 .. Len(s) - 1 + 1 /\ 1 + i - 1 = i
    BY <1>1
  <2> QED BY <2>1, <2>3, <2>4, <2>5
<1>3. \A n \in Nat : n <= Len(s) => Prefix(t, n) = Prefix(s, n)
  BY <1>1, <1>2 DEF Prefix
<1>4. Range(s) \subseteq Range(t)
  <2>1. DOMAIN s = 1 .. Len(s) /\ DOMAIN t = 1 .. Len(t)
    OBVIOUS
  <2>2. \A i \in 1 .. Len(s) : i \in 1 .. Len(t)
    BY <1>1
  <2> QED BY <1>2, <2>1, <2>2 DEF Range
<1> QED BY <1>1, <1>3, <1>4

\* What is left of a list when it is drawn up to some item.
LEMMA Rest ==
  ASSUME NEW S, NEW s \in Seq(S), NEW n \in Nat, n <= Len(s)
  PROVE  /\ Prefix(s, Len(s)) \subseteq Prefix(s, n) \cup Range(SubSeq(s, n + 1, Len(s)))
         /\ Range(SubSeq(s, n + 1, Len(s))) \subseteq Range(s)
<1> DEFINE r == SubSeq(s, n + 1, Len(s))
           k == Len(s) - (n + 1) + 1
<1>1. Len(s) \in Nat /\ DOMAIN s = 1 .. Len(s)
  OBVIOUS
<1>2. \A i \in n + 1 .. Len(s) : s[i] \in S
  BY <1>1
<1>3. /\ r \in Seq(S)
      /\ Len(r) = IF n + 1 <= Len(s) THEN k ELSE 0
      /\ \A i \in 1 .. k : r[i] = s[n + 1 + i - 1]
  BY <1>1, <1>2, SubSeqProperties
<1> HIDE DEF r
<1>4. DOMAIN r = 1 .. k /\ k \in Nat /\ k = Len(s) - n
  <2>1. k \in Nat /\ k = Len(s) - n
    BY <1>1
  <2>2. Len(r) = k
    <3>1. CASE n + 1 <= Len(s)
      BY <1>3, <3>1
    <3>2. CASE ~(n + 1 <= Len(s))
      <4>1. \A a, b \in Nat : b <= a /\ ~(b + 1 <= a) => a - b = 0
        OBVIOUS
      <4>2. k = 0
        BY <1>1, <2>1, <3>2, <4>1
      <4> QED BY <1>3, <3>2, <4>2
    <3> QED BY <3>1, <3>2
  <2>3. DOMAIN r = 1 .. Len(r)
    BY <1>3
  <2> QED BY <2>1, <2>2, <2>3
<1>5. ASSUME NEW i \in 1 .. Len(s), i > n PROVE s[i] \in Range(r)
  <2>1. i - n \in 1 .. k /\ n + 1 + (i - n) - 1 = i
    BY <1>1, <1>4, <1>5
  <2> QED BY <1>3, <1>4, <2>1 DEF Range
<1>6. ASSUME NEW i \in 1 .. k PROVE r[i] \in Range(s)
  <2>1. n + 1 + i - 1 \in 1 .. Len(s)
    BY <1>1, <1>4
  <2> QED BY <1>1, <1>3, <2>1 DEF Range
<1>7. Range(r) \subseteq Range(s)
  BY <1>4, <1>6 DEF Range
<1>8. Prefix(s, Len(s)) \subseteq Prefix(s, n) \cup Range(r)
  BY <1>1, <1>5 DEF Prefix
<1> QED BY <1>7, <1>8 DEF r

\* A drawing with observations of a list shows nothing that is not in the list.
LEMMA DrawnMarks ==
  ASSUME NEW layer, NEW o \in SUBSET Observations, NEW list, o \subseteq Range(list),
         \A c \in DOMAIN layer : <<c, layer[c]>> \in Range(list)
  PROVE  \A c \in DOMAIN DrawnOn(layer, o) : <<c, DrawnOn(layer, o)[c]>> \in Range(list)
<1>1. SUFFICES ASSUME NEW c \in DOMAIN layer \cup CellsOf(o)
               PROVE  <<c, DrawnOn(layer, o)[c]>> \in Range(list)
  BY DEF DrawnOn
<1>2. DrawnOn(layer, o)[c] = IF c \in CellsOf(o) THEN <<c, TRUE>> \in o ELSE layer[c]
  BY <1>1 DEF DrawnOn
<1>3. CASE c \notin CellsOf(o)
  BY <1>2, <1>3
<1>4. CASE <<c, TRUE>> \in o /\ c \in CellsOf(o)
  <2>1. DrawnOn(layer, o)[c] = TRUE
    BY <1>2, <1>4
  <2> QED BY <1>4, <2>1
<1>5. CASE <<c, TRUE>> \notin o /\ c \in CellsOf(o)
  <2>0. (<<c, TRUE>> \in o) = FALSE
    BY <1>5
  <2>1. DrawnOn(layer, o)[c] = FALSE
    BY <1>2, <1>5, <2>0
  <2>2. PICK x \in o : c = x[1]
    BY <1>5 DEF CellsOf
  <2>3. x = <<x[1], x[2]>> /\ x[2] \in BOOLEAN
    BY DEF Observations
  <2>4. x = <<c, FALSE>>
    BY <1>5, <2>2, <2>3
  <2> QED BY <2>1, <2>4
<1> QED BY <1>3, <1>4, <1>5

\* What LayersFollow says of lists and layers.
Follows(q, d, s, x, l) ==
  /\ d[1] <= Len(q) /\ d[2] <= Len(x)
  /\ Prefix(q, d[1]) \subseteq s /\ s \subseteq Range(q)
  /\ CellsOf(Prefix(x, d[2])) \subseteq DOMAIN l
  /\ \A c \in DOMAIN l : <<c, l[c]>> \in Range(x)

LEMMA FollowsSaid ==
  /\ LayersFollow <=> (~cut => Follows(quads, drawn, strip, cells, lidar))
  /\ LayersFollow' <=> (~cut' => Follows(quads', drawn', strip', cells', lidar'))
BY DEF LayersFollow, Follows

LEMMA EmptyFollows ==
  ASSUME NEW q \in Seq(Quads), NEW x \in Seq(Observations)
  PROVE  Follows(q, <<0, 0>>, {}, x, <<>>)
<1>1. Len(q) \in Nat /\ Len(x) \in Nat /\ DOMAIN <<>> = {}
  OBVIOUS
<1>2. Prefix(q, 0) = {} /\ Prefix(x, 0) = {} /\ CellsOf({}) = {}
  BY DEF Prefix, CellsOf
<1>3. <<0, 0>>[1] = 0 /\ <<0, 0>>[2] = 0
  OBVIOUS
<1>4. 0 <= Len(q) /\ 0 <= Len(x) /\ {} \subseteq Range(q)
  BY <1>1
<1>5. \A d : d[1] = 0 /\ d[2] = 0 => Follows(q, d, {}, x, <<>>)
  BY <1>1, <1>2, <1>4 DEF Follows
<1> QED BY <1>3, <1>5

\* What a job says of lists that have grown, and of those it was made from.
Fits(j, q, x, d) ==
  /\ j.totals[1] <= Len(q) /\ j.totals[2] <= Len(x)
  /\ Prefix(q, j.totals[1]) \subseteq Prefix(q, d[1]) \cup Range(j.quads)
  /\ Prefix(x, j.totals[2]) \subseteq Prefix(x, d[2]) \cup Range(j.cells)
  /\ Range(j.quads) \subseteq Range(q)
  /\ Range(j.cells) \subseteq Range(x)

LEMMA FitsSaid ==
  /\ JobFits <=> Fits(job, quads, cells, drawn)
  /\ JobFits' <=> Fits(job', quads', cells', drawn')
BY DEF JobFits, Fits

\* The lists grow under the layers and under a frame in the executor.
LEMMA GrowthKeeps ==
  ASSUME NEW q \in Seq(Quads), NEW x \in Seq(Observations),
         NEW p \in Seq(Quads), NEW y \in Seq(Observations),
         IsPrefix(q, p), IsPrefix(x, y), NEW d \in Nat \X Nat,
         NEW s, NEW l, Follows(q, d, s, x, l)
  PROVE  /\ Follows(p, d, s, y, l)
         /\ \A j \in Jobs : Fits(j, q, x, d) => Fits(j, p, y, d)
<1>1. /\ Len(q) <= Len(p) /\ Range(q) \subseteq Range(p)
      /\ \A n \in Nat : n <= Len(q) => Prefix(p, n) = Prefix(q, n)
  BY Grows
<1>2. /\ Len(x) <= Len(y) /\ Range(x) \subseteq Range(y)
      /\ \A n \in Nat : n <= Len(x) => Prefix(y, n) = Prefix(x, n)
  BY Grows
<1>3. Len(q) \in Nat /\ Len(p) \in Nat /\ Len(x) \in Nat /\ Len(y) \in Nat
      /\ d[1] \in Nat /\ d[2] \in Nat
  OBVIOUS
<1>4. d[1] <= Len(q) /\ d[2] <= Len(x)
  BY DEF Follows
<1>5. d[1] <= Len(p) /\ d[2] <= Len(y)
  BY <1>1, <1>2, <1>3, <1>4
<1>6. Prefix(p, d[1]) = Prefix(q, d[1]) /\ Prefix(y, d[2]) = Prefix(x, d[2])
  BY <1>1, <1>2, <1>3, <1>4
<1>7. Follows(p, d, s, y, l)
  BY <1>1, <1>2, <1>5, <1>6 DEF Follows
<1>8. ASSUME NEW j \in Jobs, Fits(j, q, x, d) PROVE Fits(j, p, y, d)
  <2>1. j.totals[1] \in Nat /\ j.totals[2] \in Nat
    BY DEF Jobs
  <2>2. j.totals[1] <= Len(q) /\ j.totals[2] <= Len(x)
    BY <1>8 DEF Fits
  <2>3. /\ Prefix(p, j.totals[1]) = Prefix(q, j.totals[1])
        /\ Prefix(y, j.totals[2]) = Prefix(x, j.totals[2])
    BY <1>1, <1>2, <2>1, <2>2
  <2>4. j.totals[1] <= Len(p) /\ j.totals[2] <= Len(y)
    BY <1>1, <1>2, <1>3, <2>1, <2>2
  <2> QED BY <1>1, <1>2, <1>6, <1>8, <2>3, <2>4 DEF Fits
<1> QED BY <1>7, <1>8

\* A frame takes the rest of both lists.
LEMMA CaptureFits ==
  ASSUME NEW q \in Seq(Quads), NEW x \in Seq(Observations), NEW d \in Nat \X Nat,
         d[1] <= Len(q), d[2] <= Len(x)
  PROVE  Fits([quads |-> SubSeq(q, d[1] + 1, Len(q)), cells |-> SubSeq(x, d[2] + 1, Len(x)),
               totals |-> <<Len(q), Len(x)>>], q, x, d)
<1>1. Len(q) \in Nat /\ Len(x) \in Nat /\ d[1] \in Nat /\ d[2] \in Nat
  OBVIOUS
<1>2. /\ Prefix(q, Len(q)) \subseteq Prefix(q, d[1]) \cup Range(SubSeq(q, d[1] + 1, Len(q)))
      /\ Range(SubSeq(q, d[1] + 1, Len(q))) \subseteq Range(q)
  BY <1>1, Rest
<1>3. /\ Prefix(x, Len(x)) \subseteq Prefix(x, d[2]) \cup Range(SubSeq(x, d[2] + 1, Len(x)))
      /\ Range(SubSeq(x, d[2] + 1, Len(x))) \subseteq Range(x)
  BY <1>1, Rest
<1> QED BY <1>1, <1>2, <1>3 DEF Fits

LEMMA MarksStep == TypeInv /\ MarksInv /\ [Next]_vars => MarksInv'
<1> SUFFICES ASSUME TypeInv, MarksInv, [Next]_vars PROVE MarksInv'
  OBVIOUS
<1>1. ListTypes /\ LayerTypes /\ RenderTypes /\ ListTypes'
  BY TypeParts, TypePartsNext, TypeStep DEF TypeInv
<1>2. /\ ~made => strip = {} /\ lidar = <<>> /\ drawn = <<0, 0>>
      /\ ~cut => Follows(quads, drawn, strip, cells, lidar)
      /\ ~cut /\ render = "frame" => Fits(job, quads, cells, drawn)
  BY FollowsSaid, FitsSaid DEF MarksInv, Empty
<1>3. /\ quads \in Seq(Quads) /\ cells \in Seq(Observations)
      /\ quads' \in Seq(Quads) /\ cells' \in Seq(Observations)
      /\ drawn \in Nat \X Nat
  BY <1>1 DEF ListTypes, LayerTypes
<1>4. ASSUME ~made' => strip' = {} /\ lidar' = <<>> /\ drawn' = <<0, 0>>,
             ~cut' => Follows(quads', drawn', strip', cells', lidar'),
             ~cut' /\ render' = "frame" => Fits(job', quads', cells', drawn')
      PROVE  MarksInv'
  BY <1>4, FollowsSaid, FitsSaid DEF MarksInv, Empty
\* The camera's part of a notification changes nothing that is drawn.
<1>5. ASSUME UNCHANGED layerVars,
             render' = "frame" => render = "frame" /\ job' = job,
             ~cut' => ~cut /\ IsPrefix(quads, quads') /\ IsPrefix(cells, cells')
      PROVE  MarksInv'
  <2>1. made' = made /\ strip' = strip /\ lidar' = lidar /\ drawn' = drawn
    BY <1>5 DEF layerVars
  <2>2. ASSUME ~cut'
        PROVE  /\ Follows(quads', drawn, strip, cells', lidar)
               /\ \A j \in Jobs : Fits(j, quads, cells, drawn)
                                => Fits(j, quads', cells', drawn)
    BY <1>2, <1>3, <1>5, <2>2, GrowthKeeps
  <2>3. render = "frame" => job \in Jobs
    BY <1>1 DEF RenderTypes
  <2>4. ~cut' /\ render' = "frame" => Fits(job', quads', cells', drawn)
    BY <1>2, <1>5, <2>2, <2>3
  <2>5. ~made' => strip' = {} /\ lidar' = <<>> /\ drawn' = <<0, 0>>
    BY <1>2, <2>1
  <2>6. ~cut' => Follows(quads', drawn', strip', cells', lidar')
    BY <2>1, <2>2
  <2>7. ~cut' /\ render' = "frame" => Fits(job', quads', cells', drawn')
    BY <2>1, <2>4
  <2> QED BY <1>4, <2>5, <2>6, <2>7
<1>6. IsPrefix(quads, quads) /\ IsPrefix(cells, cells)
  BY <1>3 DEF IsPrefix
<1>7. ASSUME Notify \/ UNCHANGED <<layerVars, renderVars>>
      PROVE  UNCHANGED layerVars /\ (render' = "frame" => render = "frame" /\ job' = job)
  BY <1>7 DEF Notify, renderVars
<1>8. CASE Broadcast
  <2>1. Notify /\ cut' = (cut \/ ~IsPrefix(quads, quads') \/ ~IsPrefix(cells, cells'))
    BY <1>8 DEF Broadcast, DisplayMap, OtherBroadcast, UpdateTrail
  <2>2. ~cut' => ~cut /\ IsPrefix(quads, quads') /\ IsPrefix(cells, cells')
    BY <2>1
  <2> QED BY <1>5, <1>7, <2>1, <2>2
<1>9. CASE Unannounced
  <2>1. quads' = quads /\ cells' = cells /\ cut' = cut
    BY <1>9 DEF Unannounced, listVars
  <2>2. ~cut' => ~cut /\ IsPrefix(quads, quads') /\ IsPrefix(cells, cells')
    BY <1>6, <2>1
  <2>3. Notify \/ UNCHANGED <<layerVars, renderVars>>
    BY <1>9 DEF Unannounced
  <2> QED BY <1>5, <1>7, <2>2, <2>3
<1>10. ASSUME Rendering PROVE quads' = quads /\ cells' = cells
  BY <1>10 DEF Rendering, RenderBegins, BaseRendered, RoomsOutlined, FrameRendered,
               RenderFails, listVars
<1>11. ASSUME Capture, quads' = quads, cells' = cells PROVE MarksInv'
  <2> DEFINE anew == Len(quads) < drawn[1] \/ Len(cells) < drawn[2]
             from == IF anew THEN <<0, 0>> ELSE drawn
  <2>1. /\ job' = [quads |-> SubSeq(quads, from[1] + 1, Len(quads)),
                   cells |-> SubSeq(cells, from[2] + 1, Len(cells)),
                   totals |-> <<Len(quads), Len(cells)>>]
        /\ anew => Forgotten
        /\ ~anew => UNCHANGED layerVars
        /\ cut' = (cut /\ ~anew /\ made)
    BY <1>11 DEF Capture
  <2>2. from \in Nat \X Nat /\ from[1] <= Len(quads) /\ from[2] <= Len(cells)
    <3>1. Len(quads) \in Nat /\ Len(cells) \in Nat /\ drawn[1] \in Nat /\ drawn[2] \in Nat
      BY <1>3
    <3>2. CASE anew
      <4>1. from = <<0, 0>>
        BY <3>2
      <4> HIDE DEF from
      <4>2. from[1] = 0 /\ from[2] = 0 /\ from \in Nat \X Nat
        BY <4>1
      <4> QED BY <3>1, <4>2
    <3>3. CASE ~anew
      <4>1. from = drawn
        BY <3>3
      <4>2. drawn[1] <= Len(quads) /\ drawn[2] <= Len(cells)
        BY <3>1, <3>3
      <4> HIDE DEF from
      <4> QED BY <1>3, <4>1, <4>2
    <3> QED BY <3>2, <3>3
  <2>3. drawn' = from
    BY <2>1 DEF Forgotten, layerVars
  <2>4. ~made' => strip' = {} /\ lidar' = <<>> /\ drawn' = <<0, 0>>
    BY <1>2, <2>1 DEF Forgotten, layerVars
  <2>5. CASE anew
    <3>1. strip' = {} /\ lidar' = <<>> /\ drawn' = <<0, 0>>
      BY <2>1, <2>5 DEF Forgotten
    <3>2. Follows(quads', drawn', strip', cells', lidar')
      BY <1>3, <3>1, EmptyFollows
    <3>3. Fits(job', quads', cells', drawn')
      <4> HIDE DEF from
      <4> QED BY <1>3, <1>11, <2>1, <2>2, <2>3, CaptureFits
    <3> QED BY <1>4, <2>4, <3>2, <3>3
  <2>6. CASE ~anew
    <3>1. made' = made /\ strip' = strip /\ lidar' = lidar /\ drawn' = drawn
      BY <2>1, <2>6 DEF layerVars
    <3>2. CASE ~made
      <4>1. Follows(quads', drawn', strip', cells', lidar')
        BY <1>2, <1>3, <3>1, <3>2, EmptyFollows
      <4>2. Fits(job', quads', cells', drawn')
        <5> HIDE DEF from
        <5> QED BY <1>3, <1>11, <2>1, <2>2, <2>3, CaptureFits
      <4> QED BY <1>4, <2>4, <4>1, <4>2
    <3>3. CASE made
      <4>1. cut' = cut
        <5>1. cut \in BOOLEAN
          BY TypeParts DEF TypeInv
        <5>2. cut' = (cut /\ ~anew /\ made)
          BY <2>1
        <5> QED BY <2>6, <3>3, <5>1, <5>2
      <4>2. ~cut' => Follows(quads', drawn', strip', cells', lidar')
        BY <1>2, <1>11, <3>1, <4>1
      <4>3. Fits(job', quads', cells', drawn')
        <5> HIDE DEF from
        <5> QED BY <1>3, <1>11, <2>1, <2>2, <2>3, CaptureFits
      <4> QED BY <1>4, <2>4, <4>2, <4>3
    <3> QED BY <3>2, <3>3
  <2> QED BY <2>5, <2>6
<1>12. CASE RenderBegins
  <2>1. Rendering
    BY <1>12 DEF Rendering
  <2>2. quads' = quads /\ cells' = cells
    BY <1>10, <2>1
  <2>3. CASE Capture
    BY <1>11, <2>2, <2>3
  <2>4. CASE UNCHANGED <<layerVars, job, cut>> /\ render' \in {"base", "rooms"}
    <3>1. ~cut' => ~cut /\ IsPrefix(quads, quads') /\ IsPrefix(cells, cells')
      BY <1>6, <2>2, <2>4
    <3>2. render' # "frame"
      BY <2>4
    <3> QED BY <1>5, <2>4, <3>1, <3>2
  <2> QED BY <1>12, <2>3, <2>4 DEF RenderBegins
<1>13. CASE BaseRendered
  <2>1. Rendering
    BY <1>13 DEF Rendering
  <2>2. strip' = {} /\ lidar' = <<>> /\ drawn' = <<0, 0>> /\ render' # "frame"
    BY <1>13 DEF BaseRendered, Forgotten
  <2>3. Follows(quads', drawn', strip', cells', lidar')
    BY <1>3, <2>2, EmptyFollows
  <2> QED BY <1>4, <2>2, <2>3
<1>14. CASE RoomsOutlined
  <2>1. Rendering /\ Capture
    BY <1>14 DEF Rendering, RoomsOutlined
  <2> QED BY <1>10, <1>11, <2>1
<1>15. CASE UNCHANGED vars
  <2>1. UNCHANGED layerVars /\ render' = render /\ job' = job /\ cut' = cut
        /\ quads' = quads /\ cells' = cells
    BY <1>15 DEF vars, listVars, renderVars
  <2>2. ~cut' => ~cut /\ IsPrefix(quads, quads') /\ IsPrefix(cells, cells')
    BY <1>6, <2>1
  <2> QED BY <1>5, <2>1, <2>2
\* What a frame draws is in the lists.
<1>16. ASSUME ~cut, render = "frame"
       PROVE  /\ job \in Jobs /\ Fits(job, quads, cells, drawn)
              /\ strip \cup Range(job.quads) \subseteq Range(quads)
              /\ DOMAIN DrawnOn(lidar, Range(job.cells)) =
                   DOMAIN lidar \cup CellsOf(Range(job.cells))
              /\ \A c \in DOMAIN DrawnOn(lidar, Range(job.cells)) :
                   <<c, DrawnOn(lidar, Range(job.cells))[c]>> \in Range(cells)
  <2>1. Fits(job, quads, cells, drawn) /\ Follows(quads, drawn, strip, cells, lidar)
    BY <1>2, <1>16
  <2>2. job \in Jobs /\ Range(job.cells) \in SUBSET Observations
    BY <1>1, <1>16, DrawTypes
  <2>3. /\ Range(job.cells) \subseteq Range(cells) /\ Range(job.quads) \subseteq Range(quads)
    BY <2>1 DEF Fits
  <2>4. strip \subseteq Range(quads) /\ \A c \in DOMAIN lidar : <<c, lidar[c]>> \in Range(cells)
    BY <2>1 DEF Follows
  <2>5. DOMAIN DrawnOn(lidar, Range(job.cells)) = DOMAIN lidar \cup CellsOf(Range(job.cells))
    BY DEF DrawnOn
  <2>6. \A c \in DOMAIN DrawnOn(lidar, Range(job.cells)) :
          <<c, DrawnOn(lidar, Range(job.cells))[c]>> \in Range(cells)
    BY <2>2, <2>3, <2>4, DrawnMarks
  <2> QED BY <2>1, <2>2, <2>3, <2>4, <2>5, <2>6
<1>17. \A a, b : CellsOf(a \cup b) = CellsOf(a) \cup CellsOf(b)
  BY DEF CellsOf
<1>18. \A a, b : a \subseteq b => CellsOf(a) \subseteq CellsOf(b)
  BY DEF CellsOf
<1>19. CASE FrameRendered
  <2>1. Rendering
    BY <1>19 DEF Rendering
  <2>2. /\ render = "frame" /\ render' = "idle" /\ made' = TRUE /\ drawn' = job.totals
        /\ strip' = strip \cup Range(job.quads)
        /\ lidar' = DrawnOn(lidar, Range(job.cells)) /\ cut' = cut
        /\ quads' = quads /\ cells' = cells
    BY <1>10, <1>19, <2>1 DEF FrameRendered, DrawStrip, DrawLidar
  <2>3. ASSUME ~cut' PROVE Follows(quads', drawn', strip', cells', lidar')
    <3>1. ~cut /\ Fits(job, quads, cells, drawn) /\ Follows(quads, drawn, strip, cells, lidar)
      BY <1>2, <2>2, <2>3
    <3>2. Prefix(quads, job.totals[1]) \subseteq strip \cup Range(job.quads)
      BY <3>1 DEF Fits, Follows
    <3>3. CellsOf(Prefix(cells, job.totals[2])) \subseteq
            DOMAIN DrawnOn(lidar, Range(job.cells))
      <4>1. CellsOf(Prefix(cells, job.totals[2])) \subseteq
              CellsOf(Prefix(cells, drawn[2])) \cup CellsOf(Range(job.cells))
        <5>1. Prefix(cells, job.totals[2]) \subseteq Prefix(cells, drawn[2]) \cup Range(job.cells)
          BY <3>1 DEF Fits
        <5>2. CellsOf(Prefix(cells, job.totals[2])) \subseteq
                CellsOf(Prefix(cells, drawn[2]) \cup Range(job.cells))
          BY <1>18, <5>1
        <5> QED BY <1>17, <5>2
      <4>2. CellsOf(Prefix(cells, drawn[2])) \subseteq DOMAIN lidar
        BY <3>1 DEF Follows
      <4> QED BY <1>16, <2>2, <3>1, <4>1, <4>2
    <3>4. job.totals[1] <= Len(quads) /\ job.totals[2] <= Len(cells)
      BY <3>1 DEF Fits
    <3>5. Follows(quads, job.totals, strip \cup Range(job.quads), cells,
                  DrawnOn(lidar, Range(job.cells)))
      BY <1>16, <2>2, <3>1, <3>2, <3>3, <3>4 DEF Follows
    <3> QED BY <2>2, <3>5
  <2> QED BY <1>4, <2>2, <2>3
<1>20. CASE RenderFails
  <2>1. Rendering
    BY <1>20 DEF Rendering
  <2>2. /\ render' = "idle" /\ made' = made /\ drawn' = drawn /\ cut' = cut
        /\ quads' = quads /\ cells' = cells
    BY <1>10, <1>20, <2>1 DEF RenderFails
  <2>3. CASE UNCHANGED <<strip, lidar>>
    BY <1>2, <1>4, <2>2, <2>3
  <2>4. CASE made /\ render = "frame" /\ DrawStrip /\ (DrawLidar \/ UNCHANGED lidar)
    <3>1. /\ strip' = strip \cup Range(job.quads)
          /\ lidar' = lidar \/ lidar' = DrawnOn(lidar, Range(job.cells))
      BY <2>4 DEF DrawStrip, DrawLidar
    <3>2. ASSUME ~cut' PROVE Follows(quads', drawn', strip', cells', lidar')
      <4>1. ~cut /\ Follows(quads, drawn, strip, cells, lidar)
        BY <1>2, <2>2, <3>2
      <4>2. /\ strip' \subseteq Range(quads)
            /\ Prefix(quads, drawn[1]) \subseteq strip'
        BY <1>16, <2>4, <3>1, <4>1 DEF Follows
      <4>3. /\ DOMAIN lidar \subseteq DOMAIN lidar'
            /\ \A c \in DOMAIN lidar' : <<c, lidar'[c]>> \in Range(cells)
        BY <1>16, <2>4, <3>1, <4>1 DEF Follows
      <4>4. Follows(quads, drawn, strip', cells, lidar')
        BY <4>1, <4>2, <4>3 DEF Follows
      <4> QED BY <2>2, <4>4
    <3> QED BY <1>4, <2>2, <2>4, <3>2
  <2> QED BY <1>20, <2>3, <2>4 DEF RenderFails
<1> QED BY <1>8, <1>9, <1>12, <1>13, <1>14, <1>15, <1>19, <1>20 DEF Next, Rendering

\* Layers, lists and the frame in the executor fit together, as MarksInv says.
THEOREM MarksInductive == Spec => []MarksInv
<1>1. Init => MarksInv
  <2> SUFFICES ASSUME Init PROVE MarksInv
    OBVIOUS
  <2>1. <<>> \in Seq(Quads) /\ <<>> \in Seq(Observations)
    OBVIOUS
  <2>2. Follows(quads, drawn, strip, cells, lidar)
    BY <2>1, EmptyFollows DEF Init
  <2> QED BY <2>2, FollowsSaid DEF Init, MarksInv, Empty
<1> QED BY <1>1, MarksStep, TypeInductive, PTL DEF Spec

\* The layers show what the trackers say is drawn, and nothing that is not listed.
THEOREM LayersFollowHolds == Spec => []LayersFollow
<1>1. MarksInv => LayersFollow
  BY DEF MarksInv
<1> QED BY <1>1, MarksInductive, PTL
============================================================================
