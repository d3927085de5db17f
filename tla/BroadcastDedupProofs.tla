------------------------ MODULE BroadcastDedupProofs ------------------------
(***************************************************************************)
(* What BroadcastDedup guarantees for any topics, payloads and bound of    *)
(* the cache: its types, and that the frames it drops are invisible; and   *)
(* that a frame carries any topic and payload (module Frames).             *)
(***************************************************************************)
EXTENDS BroadcastDedup, Frames, FiniteSetTheorems, SequenceTheorems, TLAPS

\* The fields of a remembered payload are in the state, unless get_status has
\* overwritten them; a payload that made a setter raise is not remembered.
CacheReflected ==
  \A t \in DOMAIN cache : cache[t] \notin Undecodable =>
    /\ cache[t] \notin Raising
    /\ \A f \in DOMAIN cache[t] :
         state[t][f] = cache[t][f] \/ (t = Base /\ f \in polled)

\* The cache is empty while commands read the socket themselves.
CacheOfListener == ~listening => DOMAIN cache = {}

DedupInv == TypeOK /\ DropsAreInvisible /\ CacheReflected /\ CacheOfListener

LEMMA PayloadFields ==
  ASSUME NEW p \in Payloads
  PROVE  DOMAIN p \subseteq Fields /\ \A f \in DOMAIN p : p[f] \in Values
BY DedupAssumption DEF Partial

LEMMA WrittenFields ==
  ASSUME NEW p \in Payloads, NEW F \in Written(p)
  PROVE  F \subseteq DOMAIN p /\ (p \notin Raising => F = DOMAIN p)
BY DEF Written

LEMMA UpdateFields ==
  ASSUME NEW s \in [Topics -> [Fields -> Values]], NEW t \in Topics,
         NEW p \in Payloads, NEW F \in SUBSET DOMAIN p
  PROVE  /\ Update(s, t, p, F) \in [Topics -> [Fields -> Values]]
         /\ \A f \in F : Update(s, t, p, F)[t][f] = p[f]
         /\ \A f \in Fields \ F : Update(s, t, p, F)[t][f] = s[t][f]
         /\ \A u \in Topics \ {t} : Update(s, t, p, F)[u] = s[u]
BY PayloadFields DEF Update

\* Both ways to take a payload over: the state and the ideal are written alike.
LEMMA WriteAlike ==
  ASSUME DedupInv, NEW t \in Topics, NEW p \in Payloads, NEW F \in Written(p),
         state' = Update(state, t, p, F), ideal' = Update(ideal, t, p, F),
         polled' \in SUBSET Fields,
         t = Base \/ polled' = polled,
         polled \ F \subseteq polled'
  PROVE  /\ state' \in [Topics -> [Fields -> Values]]
         /\ ideal' \in [Topics -> [Fields -> Values]]
         /\ DropsAreInvisible'
<1>1. F \subseteq DOMAIN p
  BY WrittenFields
<1>2. /\ state \in [Topics -> [Fields -> Values]]
      /\ ideal \in [Topics -> [Fields -> Values]]
  BY DEF DedupInv, TypeOK
<1>3. /\ state' \in [Topics -> [Fields -> Values]]
      /\ \A f \in F : state'[t][f] = p[f]
      /\ \A f \in Fields \ F : state'[t][f] = state[t][f]
      /\ \A u \in Topics \ {t} : state'[u] = state[u]
  BY <1>1, <1>2, UpdateFields
<1>4. /\ ideal' \in [Topics -> [Fields -> Values]]
      /\ \A f \in F : ideal'[t][f] = p[f]
      /\ \A f \in Fields \ F : ideal'[t][f] = ideal[t][f]
      /\ \A u \in Topics \ {t} : ideal'[u] = ideal[u]
  BY <1>1, <1>2, UpdateFields
<1>5. ASSUME NEW u \in Topics, NEW f \in Fields
      PROVE  state'[u][f] = ideal'[u][f] \/ (u = Base /\ f \in polled')
  <2>1. state[u][f] = ideal[u][f] \/ (u = Base /\ f \in polled)
    BY DEF DedupInv, DropsAreInvisible
  <2>2. CASE u # t
    BY <2>1, <2>2, <1>3, <1>4
  <2>3. CASE u = t /\ f \in F
    BY <2>3, <1>3, <1>4
  <2>4. CASE u = t /\ f \notin F
    BY <2>1, <2>4, <1>3, <1>4
  <2>. QED  BY <2>2, <2>3, <2>4
<1>. QED  BY <1>3, <1>4, <1>5 DEF DropsAreInvisible

\* What Remember does to the cache: the payload of the topic, unless exempt,
\* and at most one topic less.
LEMMA Remembered ==
  ASSUME TypeOK, NEW t \in Topics, NEW p \in Payloads, Remember(t, p)
  PROVE  /\ DOMAIN cache' \subseteq Topics \ Exempt
         /\ cache' \in [DOMAIN cache' -> Payloads]
         /\ order' \in Seq(Topics)
         /\ t \in DOMAIN cache' => cache'[t] = p
         /\ \A u \in DOMAIN cache' \ {t} : u \in DOMAIN cache /\ cache'[u] = cache[u]
<1>1. CASE t \in Exempt
  BY <1>1 DEF Remember, cacheVars, TypeOK
<1>2. CASE t \notin Exempt
  <2>1. PICK kept \in SUBSET DOMAIN cache :
          cache' = [u \in kept \cup {t} |-> IF u = t THEN p ELSE cache[u]]
    BY <1>2 DEF Remember
  <2>2. PICK left \in Seq(Topics) : order' = left \/ order' = Append(left, t)
    <3>1. CASE t \notin DOMAIN cache /\ Len(order) >= CacheMax
      <4>1. order \in Seq(Topics) /\ order # <<>>
        BY <3>1, DedupAssumption DEF TypeOK
      <4>2. Tail(order) \in Seq(Topics)
        BY <4>1
      <4>. QED  BY <1>2, <3>1, <4>2 DEF Remember
    <3>2. CASE ~(t \notin DOMAIN cache /\ Len(order) >= CacheMax)
      BY <1>2, <3>2 DEF Remember, TypeOK
    <3>. QED  BY <3>1, <3>2
  <2>3. order' \in Seq(Topics)
    BY <2>2
  <2>. QED  BY <1>2, <2>1, <2>3 DEF TypeOK
<1>. QED  BY <1>1, <1>2

LEMMA DroppedKeeps ==
  ASSUME DedupInv, NEW t \in Topics, NEW p \in Payloads, listening, Dropped(t, p)
  PROVE  DedupInv'
<1>1. /\ t \in DOMAIN cache /\ cache[t] = p
      /\ UNCHANGED <<state, listening, cache, order, polled, unseen>>
  BY DEF Dropped, IsDuplicate, cacheVars
<1>2. CASE p \in Undecodable
  <2>1. UNCHANGED ideal
    BY <1>2 DEF Dropped
  <2>. QED
    BY <1>1, <2>1
    DEF DedupInv, TypeOK, DropsAreInvisible, CacheReflected, CacheOfListener
<1>3. CASE p \notin Undecodable
  <2>1. ideal' = Update(ideal, t, p, DOMAIN p)
    BY <1>3 DEF Dropped
  <2>2. ideal \in [Topics -> [Fields -> Values]]
    BY DEF DedupInv, TypeOK
  <2>3. /\ ideal' \in [Topics -> [Fields -> Values]]
        /\ \A f \in DOMAIN p : ideal'[t][f] = p[f]
        /\ \A f \in Fields \ DOMAIN p : ideal'[t][f] = ideal[t][f]
        /\ \A u \in Topics \ {t} : ideal'[u] = ideal[u]
    BY <2>1, <2>2, UpdateFields
  <2>4. \A f \in DOMAIN p : state[t][f] = p[f] \/ (t = Base /\ f \in polled)
    BY <1>1, <1>3 DEF DedupInv, CacheReflected
  <2>5. DropsAreInvisible'
    <3>1. ASSUME NEW u \in Topics, NEW f \in Fields
          PROVE  state[u][f] = ideal'[u][f] \/ (u = Base /\ f \in polled)
      <4>1. CASE u = t /\ f \in DOMAIN p
        BY <4>1, <2>3, <2>4
      <4>2. CASE ~(u = t /\ f \in DOMAIN p)
        <5>1. ideal'[u][f] = ideal[u][f]
          BY <4>2, <2>3
        <5>. QED  BY <5>1 DEF DedupInv, DropsAreInvisible
      <4>. QED  BY <4>1, <4>2
    <3>. QED  BY <3>1, <1>1 DEF DropsAreInvisible
  <2>. QED
    BY <1>1, <2>3, <2>5 DEF DedupInv, TypeOK, CacheReflected, CacheOfListener
<1>. QED  BY <1>2, <1>3

LEMMA NotDecodedKeeps ==
  ASSUME DedupInv, NEW t \in Topics, NEW p \in Payloads, listening,
         NotDecoded(t, p)
  PROVE  DedupInv'
<1>1. /\ p \in Undecodable /\ Remember(t, p)
      /\ UNCHANGED <<state, listening, ideal, polled, unseen>>
  BY DEF NotDecoded
<1>2. /\ DOMAIN cache' \subseteq Topics \ Exempt
      /\ cache' \in [DOMAIN cache' -> Payloads]
      /\ order' \in Seq(Topics)
      /\ t \in DOMAIN cache' => cache'[t] = p
      /\ \A u \in DOMAIN cache' \ {t} : u \in DOMAIN cache /\ cache'[u] = cache[u]
  BY <1>1, Remembered DEF DedupInv
<1>3. TypeOK'
  BY <1>1, <1>2 DEF DedupInv, TypeOK
<1>4. CacheReflected'
  BY <1>1, <1>2 DEF DedupInv, CacheReflected
<1>. QED  BY <1>1, <1>3, <1>4 DEF DedupInv, DropsAreInvisible, CacheOfListener

LEMMA PassedOnKeeps ==
  ASSUME DedupInv, NEW t \in Topics, NEW p \in Payloads, listening,
         PassedOn(t, p)
  PROVE  DedupInv'
<1>1. /\ p \notin Undecodable \cup Raising /\ Remember(t, p) /\ Applied(t, p)
      /\ unseen' = {} /\ UNCHANGED listening
  BY DEF PassedOn
<1>2. /\ state' = Update(state, t, p, DOMAIN p)
      /\ ideal' = Update(ideal, t, p, DOMAIN p)
      /\ polled' = IF t = Base THEN polled \ DOMAIN p ELSE polled
  BY <1>1 DEF Applied, Written
<1>3. polled \in SUBSET Fields /\ state \in [Topics -> [Fields -> Values]]
  BY DEF DedupInv, TypeOK
<1>4. /\ state' \in [Topics -> [Fields -> Values]]
      /\ ideal' \in [Topics -> [Fields -> Values]]
      /\ DropsAreInvisible'
  <2>1. DOMAIN p \in Written(p)
    BY DEF Written
  <2>. QED  BY <1>2, <1>3, <2>1, WriteAlike
<1>5. /\ DOMAIN cache' \subseteq Topics \ Exempt
      /\ cache' \in [DOMAIN cache' -> Payloads]
      /\ order' \in Seq(Topics)
      /\ t \in DOMAIN cache' => cache'[t] = p
      /\ \A u \in DOMAIN cache' \ {t} : u \in DOMAIN cache /\ cache'[u] = cache[u]
  BY <1>1, Remembered DEF DedupInv
<1>6. TypeOK'
  BY <1>1, <1>2, <1>3, <1>4, <1>5 DEF DedupInv, TypeOK
<1>7. CacheReflected'
  <2> SUFFICES ASSUME NEW u \in DOMAIN cache', cache'[u] \notin Undecodable
               PROVE  /\ cache'[u] \notin Raising
                      /\ \A f \in DOMAIN cache'[u] :
                           \/ state'[u][f] = cache'[u][f]
                           \/ u = Base /\ f \in polled'
    BY DEF CacheReflected
  <2>1. /\ \A f \in DOMAIN p : state'[t][f] = p[f]
        /\ \A v \in Topics \ {t} : state'[v] = state[v]
    BY <1>2, <1>3, UpdateFields
  <2>2. CASE u = t
    BY <1>1, <1>5, <2>1, <2>2
  <2>3. CASE u # t
    <3>1. u \in DOMAIN cache /\ cache'[u] = cache[u] /\ u \in Topics
      BY <1>5, <2>3
    <3>2. u = Base => polled' = polled
      BY <1>2, <2>3
    <3>. QED  BY <2>1, <2>3, <3>1, <3>2 DEF DedupInv, CacheReflected
  <2>. QED  BY <2>2, <2>3
<1>. QED  BY <1>1, <1>4, <1>6, <1>7 DEF DedupInv, CacheOfListener

\* With an empty cache there is nothing to reflect: a broadcast whose setter
\* raises, and one that a command reads.
LEMMA AppliedKeeps ==
  ASSUME DedupInv, NEW t \in Topics, NEW p \in Payloads, Applied(t, p),
         listening' = FALSE, DOMAIN cache' = {}, cache' \in [DOMAIN cache' -> Payloads],
         order' \in Seq(Topics), unseen' = unseen \cup {t}
  PROVE  DedupInv'
<1>1. PICK F \in Written(p) :
        /\ state' = Update(state, t, p, F)
        /\ ideal' = Update(ideal, t, p, F)
        /\ polled' = IF t = Base THEN polled \ F ELSE polled
  BY DEF Applied
<1>2. polled \in SUBSET Fields
  BY DEF DedupInv, TypeOK
<1>3. /\ state' \in [Topics -> [Fields -> Values]]
      /\ ideal' \in [Topics -> [Fields -> Values]]
      /\ DropsAreInvisible'
  BY <1>1, <1>2, WriteAlike
<1>4. TypeOK'
  <2>1. DOMAIN cache' \subseteq Topics \ Exempt /\ cache' \in [DOMAIN cache' -> Payloads]
    OBVIOUS
  <2>2. listening' \in BOOLEAN
    OBVIOUS
  <2>3. polled' \subseteq Fields /\ unseen' \subseteq Topics
    BY <1>1 DEF DedupInv, TypeOK
  <2>. QED  BY <1>3, <2>1, <2>2, <2>3 DEF TypeOK
<1>5. CacheReflected' /\ CacheOfListener'
  BY DEF CacheReflected, CacheOfListener
<1>. QED  BY <1>3, <1>4, <1>5 DEF DedupInv

LEMMA SetterRaisesKeeps ==
  ASSUME DedupInv, NEW t \in Topics, NEW p \in Payloads, SetterRaises(t, p)
  PROVE  DedupInv'
<1>1. /\ Applied(t, p) /\ unseen' = unseen \cup {t}
      /\ listening' = FALSE /\ cache' = <<>> /\ order' = <<>>
  BY DEF SetterRaises, Finally
<1>2. DOMAIN cache' = {} /\ cache' \in [DOMAIN cache' -> Payloads] /\ order' \in Seq(Topics)
  BY <1>1
<1>. QED  BY <1>1, <1>2, AppliedKeeps

LEMMA ReadDirectlyKeeps ==
  ASSUME DedupInv, NEW t \in Topics, NEW p \in Payloads, ReadDirectly(t, p)
  PROVE  DedupInv'
<1>1. /\ Applied(t, p) /\ unseen' = unseen \cup {t}
      /\ listening' = FALSE /\ cache' = cache /\ order' = order /\ ~listening
  BY DEF ReadDirectly, cacheVars, DedupInv, TypeOK
<1>2. DOMAIN cache' = {} /\ cache' \in [DOMAIN cache' -> Payloads] /\ order' \in Seq(Topics)
  BY <1>1 DEF DedupInv, CacheOfListener, TypeOK
<1>. QED  BY <1>1, <1>2, AppliedKeeps

LEMMA PollKeeps ==
  ASSUME DedupInv, NEW p \in Payloads, Poll(p)
  PROVE  DedupInv'
<1>1. PICK F \in Written(p) : /\ state' = Update(state, Base, p, F)
                              /\ ideal' = Update(ideal, Base, p, F)
                              /\ polled' = polled \cup F
  BY DEF Poll
<1>2. UNCHANGED <<listening, cache, order>> /\ unseen' \subseteq Topics
  BY DEF Poll, cacheVars, DedupInv, TypeOK
<1>3. F \in SUBSET DOMAIN p /\ F \subseteq Fields /\ Base \in Topics
  BY WrittenFields, PayloadFields, DedupAssumption
<1>4. polled' \in SUBSET Fields
  BY <1>1, <1>3 DEF DedupInv, TypeOK
<1>5. /\ state' \in [Topics -> [Fields -> Values]]
      /\ ideal' \in [Topics -> [Fields -> Values]]
      /\ DropsAreInvisible'
  <2>1. polled \ F \subseteq polled'
    BY <1>1
  <2>. QED  BY <1>1, <1>3, <1>4, <2>1, WriteAlike
<1>6. TypeOK'
  BY <1>2, <1>4, <1>5 DEF DedupInv, TypeOK
<1>7. CacheReflected'
  <2>1. state \in [Topics -> [Fields -> Values]]
    BY DEF DedupInv, TypeOK
  <2>2. /\ \A f \in Fields \ F : state'[Base][f] = state[Base][f]
        /\ \A u \in Topics \ {Base} : state'[u] = state[u]
    BY <1>1, <1>3, <2>1, UpdateFields
  <2>3. ASSUME NEW u \in DOMAIN cache, cache[u] \notin Undecodable
        PROVE  /\ cache[u] \notin Raising
               /\ \A f \in DOMAIN cache[u] :
                    state'[u][f] = cache[u][f] \/ (u = Base /\ f \in polled')
    <3>1. u \in Topics /\ cache[u] \in Payloads
      BY DEF DedupInv, TypeOK
    <3>2. DOMAIN cache[u] \subseteq Fields
      BY <3>1, PayloadFields
    <3>. QED
      BY <1>1, <2>2, <2>3, <3>1, <3>2 DEF DedupInv, CacheReflected
  <2>. QED  BY <1>2, <2>3 DEF CacheReflected
<1>8. CacheOfListener'
  BY <1>2 DEF DedupInv, CacheOfListener
<1>. QED  BY <1>5, <1>6, <1>7, <1>8 DEF DedupInv

LEMMA InitDedup == Init => DedupInv
<1> SUFFICES ASSUME Init PROVE DedupInv
  OBVIOUS
<1>1. DOMAIN cache = {} /\ cache \in [DOMAIN cache -> Payloads] /\ order \in Seq(Topics)
  BY DEF Init
<1>2. TypeOK
  BY <1>1, DedupAssumption DEF Init, TypeOK
<1>3. DropsAreInvisible
  BY DEF Init, DropsAreInvisible
<1>. QED  BY <1>1, <1>2, <1>3 DEF DedupInv, CacheReflected, CacheOfListener

\* The types and the inductive strengthening of DropsAreInvisible: what the
\* cache holds is in the state.
THEOREM DedupInductive == Spec => []DedupInv
<1>1. DedupInv /\ [Next]_vars => DedupInv'
  <2> SUFFICES ASSUME DedupInv, [Next]_vars PROVE DedupInv'
    OBVIOUS
  <2>1. CASE ListenerStarts
    BY <2>1 DEF ListenerStarts, cacheVars, DedupInv, TypeOK, DropsAreInvisible,
                CacheReflected, CacheOfListener
  <2>2. CASE ListenerEnds
    <3>1. /\ UNCHANGED <<state, ideal, polled, unseen>>
          /\ listening' = FALSE /\ cache' = <<>> /\ order' = <<>>
      BY <2>2 DEF ListenerEnds, Finally
    <3>2. DOMAIN cache' = {} /\ cache' \in [DOMAIN cache' -> Payloads] /\ order' \in Seq(Topics)
      BY <3>1
    <3>3. TypeOK'
      BY <3>1, <3>2 DEF DedupInv, TypeOK
    <3>. QED
      BY <3>1, <3>2, <3>3
      DEF DedupInv, DropsAreInvisible, CacheReflected, CacheOfListener
  <2>3. ASSUME NEW t \in Topics, NEW p \in Payloads, Receive(t, p)
        PROVE  DedupInv'
    BY <2>3, DroppedKeeps, NotDecodedKeeps, PassedOnKeeps, SetterRaisesKeeps
    DEF Receive
  <2>4. ASSUME NEW t \in Topics, NEW p \in Payloads, ReadDirectly(t, p)
        PROVE  DedupInv'
    BY <2>4, ReadDirectlyKeeps
  <2>5. ASSUME NEW p \in Payloads, Poll(p)
        PROVE  DedupInv'
    BY <2>5, PollKeeps
  <2>6. CASE UNCHANGED vars
    BY <2>6 DEF vars, cacheVars, DedupInv, TypeOK, DropsAreInvisible,
                CacheReflected, CacheOfListener
  <2>. QED  BY <2>1, <2>2, <2>3, <2>4, <2>5, <2>6 DEF Next
<1>. QED  BY <1>1, InitDedup, PTL DEF Spec

\* Whatever is broadcast, polled, evicted and read past the cache, dropping
\* repetitions loses nothing but the repair of a field that get_status set.
THEOREM DropsAreInvisibleHolds == Spec => []DropsAreInvisible
<1>1. DedupInv => DropsAreInvisible
  BY DEF DedupInv
<1>. QED  BY <1>1, DedupInductive, PTL

LEMMA ReceiveSeen ==
  ASSUME DedupInv, KnownIsSeen, NEW t \in Topics, NEW p \in Payloads, Receive(t, p)
  PROVE  KnownIsSeen'
<1>1. CASE Dropped(t, p)
  BY <1>1 DEF Dropped, cacheVars, KnownIsSeen
<1>2. CASE NotDecoded(t, p)
  <2>1. /\ t \in DOMAIN cache' => cache'[t] = p
        /\ \A u \in DOMAIN cache' \ {t} : u \in DOMAIN cache /\ cache'[u] = cache[u]
    BY <1>2, Remembered DEF NotDecoded, DedupInv
  <2>2. p \in Undecodable /\ unseen' = unseen
    BY <1>2 DEF NotDecoded
  <2>. QED  BY <2>1, <2>2 DEF KnownIsSeen
<1>3. CASE PassedOn(t, p)
  BY <1>3 DEF PassedOn, KnownIsSeen
<1>4. CASE SetterRaises(t, p)
  BY <1>4 DEF SetterRaises, Finally, KnownIsSeen
<1>. QED  BY <1>1, <1>2, <1>3, <1>4 DEF Receive

\* No payload that will be dropped carries news the entities were not told.
THEOREM KnownIsSeenHolds == Spec => []KnownIsSeen
<1>1. Init => KnownIsSeen
  BY DEF Init, KnownIsSeen
<1>2. DedupInv /\ KnownIsSeen /\ [Next]_vars => KnownIsSeen'
  <2> SUFFICES ASSUME DedupInv, KnownIsSeen, [Next]_vars PROVE KnownIsSeen'
    OBVIOUS
  <2>1. CASE ListenerStarts
    BY <2>1 DEF ListenerStarts, cacheVars, KnownIsSeen
  <2>2. CASE ListenerEnds
    BY <2>2 DEF ListenerEnds, Finally, KnownIsSeen
  <2>3. ASSUME NEW t \in Topics, NEW p \in Payloads, Receive(t, p)
        PROVE  KnownIsSeen'
    BY <2>3, ReceiveSeen
  <2>4. ASSUME NEW t \in Topics, NEW p \in Payloads, ReadDirectly(t, p)
        PROVE  KnownIsSeen'
    BY <2>4 DEF ReadDirectly, cacheVars, KnownIsSeen, DedupInv, CacheOfListener
  <2>5. ASSUME NEW p \in Payloads, Poll(p)
        PROVE  KnownIsSeen'
    BY <2>5 DEF Poll, cacheVars, KnownIsSeen
  <2>6. CASE UNCHANGED vars
    BY <2>6 DEF vars, cacheVars, KnownIsSeen
  <2>. QED  BY <2>1, <2>2, <2>3, <2>4, <2>5, <2>6 DEF Next
<1>. QED  BY <1>1, <1>2, DedupInductive, PTL DEF Spec
-----------------------------------------------------------------------------
(***************************************************************************)
(* The frames of the broadcasts, and of the commands.                      *)
(***************************************************************************)

Ascii == 0 .. 127
Byte == 0 .. 255

\* A text without a slash.
Word(s) == s \in Seq(Ascii) /\ \A i \in 1 .. Len(s) : s[i] # Slash

\* What a concatenation, and a part of a sequence, are made of.
Joins(S, j, s, u) ==
  /\ j \in Seq(S) /\ Len(s) \in Nat /\ Len(u) \in Nat /\ Len(j) = Len(s) + Len(u)
  /\ \A i \in 1 .. Len(s) : j[i] = s[i]
  /\ \A i \in 1 .. Len(u) : j[Len(s) + i] = u[i]

LEMMA Joined == \A S : \A s, u \in Seq(S) : Joins(S, s \o u, s, u)
BY DEF Joins

IsPart(S, u, s, n, k) ==
  u \in Seq(S) /\ Len(u) = k /\ \A i \in 1 .. k : u[i] = s[n + i]

LEMMA Parted ==
  \A S : \A s \in Seq(S), n, k \in Nat :
    n + k <= Len(s) => IsPart(S, SubSeq(s, n + 1, n + k), s, n, k)
<1> SUFFICES ASSUME NEW S, NEW s \in Seq(S), NEW n \in Nat, NEW k \in Nat, n + k <= Len(s)
             PROVE  IsPart(S, SubSeq(s, n + 1, n + k), s, n, k)
  OBVIOUS
<1>1. \A i \in n + 1 .. n + k : s[i] \in S
  OBVIOUS
<1>2. /\ n + 1 \in Int /\ n + k \in Int
      /\ (n + k) - (n + 1) + 1 = k /\ (n + 1 <= n + k \/ k = 0)
      /\ \A i \in 1 .. k : (n + 1) + i - 1 = n + i
  OBVIOUS
<1>3. /\ SubSeq(s, n + 1, n + k) \in Seq(S)
      /\ Len(SubSeq(s, n + 1, n + k)) = IF n + 1 <= n + k THEN (n + k) - (n + 1) + 1 ELSE 0
      /\ \A i \in 1 .. (n + k) - (n + 1) + 1 : SubSeq(s, n + 1, n + k)[i] = s[(n + 1) + i - 1]
  BY <1>1, <1>2, SubSeqProperties
<1> QED BY <1>2, <1>3 DEF IsPart

\* Where the three slashes of a full topic are, and what follows them.
Places(t, a, b, short) ==
  /\ t \in Seq(Ascii) /\ Len(t) = b + Len(short) /\ Len(short) \in Nat
  /\ a \in Nat /\ b \in Nat /\ 1 < a /\ a < b
  /\ t[1] = Slash /\ t[a] = Slash /\ t[b] = Slash
  /\ \A i \in 1 .. b : t[i] = Slash => i \in {1, a, b}
  /\ \A i \in 1 .. Len(short) : t[b + i] = short[i]

LEMMA FullTopicPlaces ==
  ASSUME NEW key, NEW id, NEW short \in Seq(Ascii), Word(key), Word(id)
  PROVE  Places(FullTopic(<<Slash>> \o key, id, short),
                Len(key) + 2, Len(key) + Len(id) + 3, short)
<1> DEFINE t == FullTopic(<<Slash>> \o key, id, short)
           a == Len(key) + 2
           b == Len(key) + Len(id) + 3
<1> DEFINE o == <<Slash>>
           p == o \o key
           q == p \o o
           r == q \o id
           s == r \o o
<1>1. key \in Seq(Ascii) /\ id \in Seq(Ascii) /\ Len(key) \in Nat /\ Len(id) \in Nat
      /\ Len(short) \in Nat
  BY DEF Word
<1>2. o \in Seq(Ascii) /\ Len(o) = 1 /\ o[1] = Slash
  BY DEF Slash, Ascii
<1>a. t = s \o short
  BY DEF FullTopic
<1>b. a \in Nat /\ b \in Nat /\ 1 < a /\ a < b
  BY <1>1
<1> HIDE DEF o, t
<1>3. /\ p \in Seq(Ascii) /\ Len(p) = 1 + Len(key) /\ p[1] = Slash
      /\ \A i \in 1 .. Len(key) : p[1 + i] = key[i]
  <2>1. 1 \in 1 .. Len(o)
    BY <1>2
  <2>2. Joins(Ascii, p, o, key)
    BY <1>1, <1>2, Joined
  <2> QED BY <1>1, <1>2, <2>1, <2>2 DEF Joins
<1> HIDE DEF p
<1>4. /\ q \in Seq(Ascii) /\ Len(q) = a /\ q[a] = Slash
      /\ \A i \in 1 .. Len(key) + 1 : q[i] = p[i]
  <2>1. /\ q \in Seq(Ascii) /\ Len(q) = Len(p) + Len(o)
        /\ \A i \in 1 .. Len(p) : q[i] = p[i]
        /\ \A i \in 1 .. Len(o) : q[Len(p) + i] = o[i]
    <3>1. Joins(Ascii, q, p, o)
      BY <1>2, <1>3, Joined
    <3> QED BY <3>1 DEF Joins
  <2>2. 1 \in 1 .. Len(o) /\ Len(p) + 1 = a /\ Len(p) + Len(o) = a /\ 1 .. Len(p) = 1 .. Len(key) + 1
    BY <1>1, <1>2, <1>3
  <2> QED BY <1>2, <2>1, <2>2
<1> HIDE DEF q
<1>5. /\ r \in Seq(Ascii) /\ Len(r) = b - 1
      /\ \A i \in 1 .. a : r[i] = q[i]
      /\ \A i \in 1 .. Len(id) : r[a + i] = id[i]
  <2>1. /\ r \in Seq(Ascii) /\ Len(r) = Len(q) + Len(id)
        /\ \A i \in 1 .. Len(q) : r[i] = q[i]
        /\ \A i \in 1 .. Len(id) : r[Len(q) + i] = id[i]
    <3>1. Joins(Ascii, r, q, id)
      BY <1>1, <1>4, Joined
    <3> QED BY <3>1 DEF Joins
  <2>2. a + Len(id) = b - 1
    BY <1>1
  <2> QED BY <1>4, <2>1, <2>2
<1> HIDE DEF r
<1>6. /\ s \in Seq(Ascii) /\ Len(s) = b /\ s[b] = Slash
      /\ \A i \in 1 .. b - 1 : s[i] = r[i]
  <2>1. /\ s \in Seq(Ascii) /\ Len(s) = Len(r) + Len(o)
        /\ \A i \in 1 .. Len(r) : s[i] = r[i]
        /\ \A i \in 1 .. Len(o) : s[Len(r) + i] = o[i]
    <3>1. Joins(Ascii, s, r, o)
      BY <1>2, <1>5, Joined
    <3> QED BY <3>1 DEF Joins
  <2>2. 1 \in 1 .. Len(o) /\ (b - 1) + 1 = b
    BY <1>b, <1>2
  <2> QED BY <1>2, <1>5, <2>1, <2>2
<1> HIDE DEF s
<1>7. /\ t \in Seq(Ascii) /\ Len(t) = b + Len(short)
      /\ \A i \in 1 .. b : t[i] = s[i]
      /\ \A i \in 1 .. Len(short) : t[b + i] = short[i]
  <2>1. Joins(Ascii, t, s, short)
    BY <1>6, <1>a, Joined
  <2> QED BY <1>6, <2>1 DEF Joins
<1>8. \A i \in 1 .. Len(key) + 1 : t[i] = p[i]
  <2>1. ASSUME NEW i \in 1 .. Len(key) + 1 PROVE i \in 1 .. a /\ i \in 1 .. b - 1 /\ i \in 1 .. b
    BY <1>1
  <2> QED BY <1>4, <1>5, <1>6, <1>7, <2>1
<1>9. \A i \in 1 .. Len(id) : t[a + i] = id[i]
  <2>1. ASSUME NEW i \in 1 .. Len(id) PROVE a + i \in 1 .. b - 1 /\ a + i \in 1 .. b
    BY <1>1
  <2> QED BY <1>5, <1>6, <1>7, <2>1
<1>10. t[1] = Slash /\ t[a] = Slash /\ t[b] = Slash
  <2>1. 1 \in 1 .. Len(key) + 1 /\ a \in 1 .. a /\ a \in 1 .. b - 1 /\ a \in 1 .. b /\ b \in 1 .. b
    BY <1>1
  <2> QED BY <1>3, <1>4, <1>5, <1>6, <1>7, <1>8, <2>1
<1>11. ASSUME NEW i \in 1 .. b, t[i] = Slash PROVE i \in {1, a, b}
  <2>1. CASE i \in 2 .. a - 1
    <3>1. PICK j \in 1 .. Len(key) : i = 1 + j /\ 1 + j \in 1 .. Len(key) + 1
      <4>1. i - 1 \in 1 .. Len(key) /\ i = 1 + (i - 1) /\ i \in 1 .. Len(key) + 1
        BY <1>1, <2>1
      <4> QED BY <4>1
    <3> QED BY <1>3, <1>8, <1>11, <3>1 DEF Word
  <2>2. CASE i \in a + 1 .. b - 1
    <3>1. PICK j \in 1 .. Len(id) : i = a + j
      <4>1. i - a \in 1 .. Len(id) /\ i = a + (i - a)
        BY <1>1, <2>2
      <4> QED BY <4>1
    <3> QED BY <1>9, <1>11, <3>1 DEF Word
  <2> QED BY <1>b, <2>1, <2>2
<1> HIDE DEF t, a, b
<1>12. Places(t, a, b, short)
  BY <1>1, <1>7, <1>b, <1>10, <1>11 DEF Places
<1> QED BY <1>12 DEF t, a, b

LEMMA OneMore ==
  ASSUME NEW S, IsFiniteSet(S), NEW x, x \notin S
  PROVE  IsFiniteSet(S \cup {x}) /\ Cardinality(S \cup {x}) = Cardinality(S) + 1
BY FS_AddElement

LEMMA LenType == \A S : \A s \in Seq(S) : Len(s) \in Nat
OBVIOUS

\* The last part of a full topic is what was asked for.
LEMMA ShortOfFull ==
  ASSUME NEW key, NEW id, NEW short \in Seq(Ascii), Word(key), Word(id)
  PROVE  ShortTopic(FullTopic(<<Slash>> \o key, id, short)) = short
<1> DEFINE t == FullTopic(<<Slash>> \o key, id, short)
           a == Len(key) + 2
           b == Len(key) + Len(id) + 3
           slashes == {i \in DOMAIN t : t[i] = Slash}
           Before(i) == {j \in slashes : j < i}
<1>1. /\ t \in Seq(Ascii) /\ Len(t) = b + Len(short) /\ Len(short) \in Nat
      /\ a \in Nat /\ b \in Nat /\ 1 < a /\ a < b
      /\ t[1] = Slash /\ t[a] = Slash /\ t[b] = Slash
      /\ \A i \in 1 .. b : t[i] = Slash => i \in {1, a, b}
      /\ \A i \in 1 .. Len(short) : t[b + i] = short[i]
  <2>1. Places(t, a, b, short)
    BY FullTopicPlaces
  <2> HIDE DEF t, a, b
  <2> QED BY <2>1 DEF Places
<1>2. ShortTopic(t) = IF Cardinality(slashes) < 3 THEN t
                      ELSE LET third == CHOOSE i \in slashes : Cardinality(Before(i)) = 2
                           IN  SubSeq(t, third + 1, Len(t))
  BY DEF ShortTopic
<1> HIDE DEF t, a, b
<1>3. DOMAIN t = 1 .. Len(t) /\ Len(t) \in Nat
  BY <1>1
<1>4. slashes \subseteq 1 .. Len(t) /\ IsFiniteSet(slashes)
  <2>1. IsFiniteSet(1 .. Len(t))
    BY <1>3, FS_Interval
  <2> QED BY <1>3, <2>1, FS_Subset
<1>5. {1, a, b} \subseteq slashes /\ \A i \in slashes : i \in {1, a, b} \/ i > b
  <2>1. 1 \in DOMAIN t /\ a \in DOMAIN t /\ b \in DOMAIN t
    BY <1>1, <1>3
  <2>2. \A i \in DOMAIN t : i \in 1 .. b \/ i > b
    BY <1>1, <1>3
  <2> QED BY <1>1, <2>1, <2>2
<1> HIDE DEF slashes
<1>6. Before(1) = {} /\ Before(a) = {1} /\ Before(b) = {1, a}
  <2>1. \A j \in slashes : j \in Nat
    BY <1>4
  <2>2. \A j \in slashes : ~(j < 1) /\ (j < a <=> j = 1) /\ (j < b <=> j \in {1, a})
    BY <1>1, <1>5, <2>1
  <2> QED BY <1>5, <2>2
<1>7. Cardinality({}) = 0 /\ Cardinality({1}) = 1 /\ Cardinality({1, a}) = 2
      /\ Cardinality({1, a, b}) = 3
  <2>1. Cardinality({}) = 0
    BY FS_EmptySet
  <2>2. IsFiniteSet({1}) /\ Cardinality({1}) = 1
    BY FS_Singleton
  <2>3. IsFiniteSet({1} \cup {a}) /\ Cardinality({1} \cup {a}) = 2
    <3>1. a \notin {1}
      BY <1>1
    <3> QED BY <2>2, <3>1, OneMore
  <2>4. Cardinality({1} \cup {a} \cup {b}) = 3
    <3> DEFINE T == {1} \cup {a}
    <3>1. b \notin T
      BY <1>1
    <3>2. IsFiniteSet(T) /\ Cardinality(T) = 2
      BY <2>3
    <3> HIDE DEF T
    <3>3. Cardinality(T \cup {b}) = 3
      BY <3>1, <3>2, OneMore
    <3> QED BY <3>3 DEF T
  <2>5. {1} \cup {a} = {1, a} /\ {1} \cup {a} \cup {b} = {1, a, b}
    OBVIOUS
  <2> QED BY <2>1, <2>2, <2>3, <2>4, <2>5
<1>8. ASSUME NEW S, IsFiniteSet(S), {1, a, b} \subseteq S PROVE Cardinality(S) \in Nat /\ Cardinality(S) >= 3
  BY <1>7, <1>8, FS_Subset, FS_CardinalityType
<1>9. ~(Cardinality(slashes) < 3)
  BY <1>4, <1>5, <1>8
<1>10. \A i \in slashes : Cardinality(Before(i)) = 2 <=> i = b
  <2> SUFFICES ASSUME NEW i \in slashes PROVE Cardinality(Before(i)) = 2 <=> i = b
    OBVIOUS
  <2>1. CASE i \in {1, a, b}
    <3> HIDE DEF Before
    <3>1. CASE i = 1
      <4>1. Cardinality(Before(i)) = 0
        BY <1>6, <1>7, <3>1
      <4> QED BY <1>1, <3>1, <4>1
    <3>2. CASE i = a
      <4>1. Cardinality(Before(i)) = 1
        BY <1>6, <1>7, <3>2
      <4> QED BY <1>1, <3>2, <4>1
    <3>3. CASE i = b
      BY <1>6, <1>7, <3>3
    <3> QED BY <2>1, <3>1, <3>2, <3>3
  <2>2. CASE i > b
    <3>1. {1, a, b} \subseteq Before(i)
      BY <1>1, <1>5, <2>2, <1>4
    <3>2. IsFiniteSet(Before(i))
      BY <1>4, FS_Subset
    <3>3. Cardinality(Before(i)) \in Nat /\ Cardinality(Before(i)) >= 3
      <4> HIDE DEF Before
      <4> QED BY <1>8, <3>1, <3>2
    <3> QED BY <1>1, <2>2, <3>3
  <2> QED BY <1>5, <2>1, <2>2
<1> HIDE DEF Before
<1>11. (CHOOSE i \in slashes : Cardinality(Before(i)) = 2) = b
  BY <1>5, <1>10
<1>12. ShortTopic(t) = SubSeq(t, b + 1, Len(t))
  BY <1>2, <1>9, <1>11
<1>13. SubSeq(t, b + 1, Len(t)) = short
  <2> DEFINE u == SubSeq(t, b + 1, b + Len(short))
  <2>1. IsPart(Ascii, u, t, b, Len(short))
    BY <1>1, Parted
  <2> HIDE DEF u
  <2>2. u \in Seq(Ascii) /\ Len(u) = Len(short) /\ \A i \in 1 .. Len(u) : u[i] = short[i]
    BY <1>1, <2>1 DEF IsPart
  <2>3. u = short
    BY <2>2, SeqEqual
  <2> QED BY <1>1, <2>3 DEF u
<1> QED BY <1>12, <1>13 DEF t

\* A frame is read from its first n bytes: refused while the topic is not whole.
Reads(d, n, m, topic, payload) ==
  /\ Len(d) = 4 + Len(topic) + Len(payload)
  /\ Accepted(m) <=> n >= 4 + Len(topic)
  /\ Accepted(m) => /\ m.tag = PROTOBUF_FIELD_TAG /\ m.topic = topic
                    /\ m.payload = SubSeq(payload, 1, n - (4 + Len(topic)))

LEMMA ParsedFrame ==
  ASSUME NEW topic \in Seq(Ascii), Len(topic) \in 1 .. 255, NEW payload \in Seq(Byte),
         NEW n \in 0 .. Len(BuildFrame(topic, payload).data)
  PROVE  LET d == BuildFrame(topic, payload).data
         IN  Reads(d, n, ParseFrame(SubSeq(d, 1, n)), topic, payload)
<1> DEFINE d == BuildFrame(topic, payload).data
           m == ParseFrame(SubSeq(d, 1, n))
           L == Len(topic)
           h == <<FRAME_TYPE_BYTE, (L + 2) % 256, PROTOBUF_FIELD_TAG, L>>
           c == SubSeq(d, 1, n)
           e == Min({4 + c[4], Len(c)})
           u == SubSeq(c, 5, e)
<1>1. L \in Nat /\ Len(payload) \in Nat /\ L <= 255
  <2>1. L \in Nat /\ Len(payload) \in Nat
    BY LenType, Zenon
  <2>2. \A x \in 1 .. 255 : x <= 255
    OBVIOUS
  <2> QED BY <2>1, <2>2, Zenon
<1>2. d = h \o topic \o payload
  BY DEF BuildFrame
<1>d. n \in 0 .. Len(d)
  OBVIOUS
<1> HIDE DEF d
<1>3. h \in Seq(Nat) /\ topic \in Seq(Nat) /\ payload \in Seq(Nat) /\ Len(h) = 4
      /\ h[1] = 1 /\ h[3] = 34 /\ h[4] = L
  <2>1. (L + 2) % 256 \in Nat
    BY <1>1
  <2>2. h \in Seq(Nat) /\ Len(h) = 4 /\ h[1] = 1 /\ h[3] = 34 /\ h[4] = L
    BY <1>1, <2>1 DEF FRAME_TYPE_BYTE, PROTOBUF_FIELD_TAG
  <2>3. topic \in Seq(Nat) /\ payload \in Seq(Nat)
    <3>1. Ascii \subseteq Nat /\ Byte \subseteq Nat
      BY DEF Ascii, Byte
    <3> QED BY <3>1, SeqMonotonic
  <2> QED BY <2>2, <2>3
<1> HIDE DEF h, L
<1>4. /\ d \in Seq(Nat) /\ Len(d) = 4 + L + Len(payload)
      /\ d[1] = 1 /\ d[3] = 34 /\ d[4] = L
      /\ \A i \in 1 .. L : d[4 + i] = topic[i]
      /\ \A i \in 1 .. Len(payload) : d[4 + L + i] = payload[i]
  <2> DEFINE g == h \o topic
  <2>1. Joins(Nat, g, h, topic)
    BY <1>3, Joined
  <2> HIDE DEF g
  <2>2. /\ g \in Seq(Nat) /\ Len(g) = 4 + L
        /\ \A i \in 1 .. 4 : g[i] = h[i]
        /\ \A i \in 1 .. L : g[4 + i] = topic[i]
    BY <1>3, <2>1 DEF Joins, L
  <2>3. Joins(Nat, d, g, payload)
    BY <1>2, <1>3, <2>2, Joined DEF g
  <2>4. /\ d \in Seq(Nat) /\ Len(d) = 4 + L + Len(payload)
        /\ \A i \in 1 .. 4 + L : d[i] = g[i]
        /\ \A i \in 1 .. Len(payload) : d[4 + L + i] = payload[i]
    BY <2>2, <2>3 DEF Joins
  <2>5. \A i \in 1 .. L : 4 + i \in 1 .. 4 + L
    BY <1>1
  <2>6. \A i \in 1 .. 4 : i \in 1 .. 4 + L
    BY <1>1
  <2>7. \A i \in 1 .. 4 : d[i] = h[i]
    BY <2>2, <2>4, <2>6
  <2>8. d[1] = 1 /\ d[3] = 34 /\ d[4] = L
    BY <1>3, <2>7
  <2>9. \A i \in 1 .. L : d[4 + i] = topic[i]
    BY <2>2, <2>4, <2>5
  <2> QED BY <2>4, <2>8, <2>9
<1>n. n \in Nat /\ n <= Len(d)
  BY <1>1, <1>4, <1>d
<1>5. c \in Seq(Nat) /\ Len(c) = n /\ \A i \in 1 .. n : c[i] = d[i]
  <2>1. IsPart(Nat, SubSeq(d, 0 + 1, 0 + n), d, 0, n)
    BY <1>4, <1>n, Parted
  <2>2. 0 + 1 = 1 /\ 0 + n = n /\ \A i \in 1 .. n : 0 + i = i
    BY <1>n
  <2>3. IsPart(Nat, c, d, 0, n)
    BY <2>1, <2>2
  <2> HIDE DEF c
  <2> QED BY <2>2, <2>3 DEF IsPart
<1> HIDE DEF c
<1>6. m = IF /\ Len(c) >= 4 /\ c[1] = FRAME_TYPE_BYTE
             /\ c[3] \in {PROTOBUF_FIELD_TAG, PROTOBUF_FIELD5_TAG}
             /\ WholeTopic(c)
             /\ \A i \in DOMAIN u : u[i] < 128
          THEN [st |-> "ok", topic |-> u, payload |-> SubSeq(c, e + 1, Len(c)),
                header |-> c[2], tag |-> c[3]]
          ELSE Refused
  BY DEF ParseFrame, c
<1> HIDE DEF m
<1>7. ASSUME n < 4 + L PROVE Reads(d, n, m, topic, payload)
  <2>1. ~(Len(c) >= 4 /\ WholeTopic(c))
    <3> SUFFICES ASSUME Len(c) >= 4 PROVE ~WholeTopic(c)
      OBVIOUS
    <3>1. 4 \in 1 .. n
      BY <1>n, <1>5
    <3>2. c[4] = L
      BY <1>4, <1>5, <3>1
    <3> QED BY <1>1, <1>n, <1>5, <1>7, <3>2 DEF WholeTopic
  <2>2. m = Refused
    BY <1>6, <2>1
  <2>3. ~Accepted(m) /\ ~(n >= 4 + L)
    BY <1>1, <1>n, <1>7, <2>2 DEF Accepted, Refused
  <2> QED BY <1>4, <2>3 DEF L, Reads
<1>8. ASSUME n >= 4 + L PROVE Reads(d, n, m, topic, payload)
  <2>1. c[1] = 1 /\ c[3] = 34 /\ c[4] = L /\ Len(c) >= 4 /\ WholeTopic(c)
    <3>1. 1 \in 1 .. n /\ 3 \in 1 .. n /\ 4 \in 1 .. n
      BY <1>1, <1>n, <1>8
    <3>2. c[1] = 1 /\ c[3] = 34 /\ c[4] = L
      BY <1>4, <1>5, <3>1
    <3> QED BY <1>1, <1>n, <1>5, <1>8, <3>2 DEF WholeTopic
  <2>2. e = 4 + L
    <3>1. {4 + c[4], Len(c)} = {4 + L, n} /\ 4 + L <= n /\ 4 + L \in Nat
      BY <1>1, <1>5, <1>8, <2>1
    <3>2. \A x \in {4 + L, n} : (\A y \in {4 + L, n} : x <= y) => x = 4 + L
      BY <1>1, <3>1
    <3>3. \A y \in {4 + L, n} : 4 + L <= y
      BY <1>1, <3>1
    <3> QED BY <3>1, <3>2, <3>3 DEF Min
  <2> HIDE DEF e
  <2>3. u = topic
    <3>1. IsPart(Nat, SubSeq(c, 4 + 1, 4 + L), c, 4, L)
      BY <1>1, <1>5, <1>8, Parted
    <3>2. IsPart(Nat, u, c, 4, L)
      BY <2>2, <3>1
    <3> HIDE DEF u
    <3>3. \A i \in 1 .. L : 4 + i \in 1 .. n
      BY <1>1, <1>n, <1>8
    <3>4. u \in Seq(Nat) /\ Len(u) = L /\ \A i \in 1 .. L : u[i] = c[4 + i]
      BY <3>2 DEF IsPart
    <3>5. \A i \in 1 .. L : u[i] = topic[i]
      <4> SUFFICES ASSUME NEW i \in 1 .. L PROVE u[i] = topic[i]
        OBVIOUS
      <4>1. u[i] = c[4 + i] /\ c[4 + i] = d[4 + i]
        BY <1>5, <3>3, <3>4
      <4>2. d[4 + i] = topic[i]
        BY <1>4
      <4> QED BY <4>1, <4>2
    <3> QED BY <1>3, <3>4, <3>5, SeqEqual DEF L
  <2>4. \A i \in DOMAIN topic : topic[i] < 128
    <3>1. \A i \in DOMAIN topic : topic[i] \in Ascii
      OBVIOUS
    <3>2. \A x \in Ascii : x < 128
      BY DEF Ascii
    <3> QED BY <3>1, <3>2
  <2>5. m = [st |-> "ok", topic |-> u, payload |-> SubSeq(c, e + 1, Len(c)),
             header |-> c[2], tag |-> c[3]]
    <3> HIDE DEF u
    <3> QED BY <1>6, <2>1, <2>3, <2>4 DEF FRAME_TYPE_BYTE, PROTOBUF_FIELD_TAG
  <2> DEFINE k == n - (4 + L)
             v == SubSeq(c, 4 + L + 1, n)
             w == SubSeq(payload, 1, k)
  <2>k. k \in Nat /\ k <= Len(payload) /\ (4 + L) + k = n
    BY <1>1, <1>4, <1>n, <1>8
  <2>6. v = w
    <3>1. /\ IsPart(Nat, SubSeq(c, (4 + L) + 1, (4 + L) + k), c, 4 + L, k)
          /\ IsPart(Nat, SubSeq(payload, 0 + 1, 0 + k), payload, 0, k)
      <4> HIDE DEF k
      <4>1. 4 + L \in Nat /\ (4 + L) + k <= Len(c) /\ 0 + k <= Len(payload) /\ 0 \in Nat
        BY <1>1, <1>n, <1>5, <2>k
      <4> QED BY <1>3, <1>5, <2>k, <4>1, Parted
    <3>2. 0 + 1 = 1 /\ 0 + k = k /\ \A i \in 1 .. k : 0 + i = i
      BY <2>k
    <3>3. IsPart(Nat, v, c, 4 + L, k) /\ IsPart(Nat, w, payload, 0, k)
      <4> HIDE DEF k
      <4> QED BY <2>k, <3>1, <3>2
    <3> HIDE DEF v, w, k
    <3>4. \A i \in 1 .. k : i \in 1 .. Len(payload) /\ (4 + L) + i \in 1 .. n
      BY <1>1, <1>n, <2>k
    <3>5. v \in Seq(Nat) /\ w \in Seq(Nat) /\ Len(v) = k /\ Len(w) = k
          /\ \A i \in 1 .. k : v[i] = c[(4 + L) + i] /\ w[i] = payload[i]
      BY <3>2, <3>3 DEF IsPart
    <3>6. \A i \in 1 .. k : v[i] = w[i]
      <4>1. \A i \in 1 .. k : v[i] = d[(4 + L) + i]
        BY <1>5, <3>4, <3>5
      <4>2. \A i \in 1 .. k : w[i] = d[4 + L + i]
        BY <1>4, <3>4, <3>5
      <4> QED BY <4>1, <4>2
    <3> QED BY <3>5, <3>6, SeqEqual
  <2> HIDE DEF v, w, k
  <2>7. m.payload = v
    <3>1. m.payload = SubSeq(c, e + 1, Len(c))
      BY <2>5
    <3> QED BY <1>5, <2>2, <3>1 DEF v
  <2>8. m.st = "ok" /\ m.tag = c[3] /\ m.topic = u
    <3> HIDE DEF u
    <3> QED BY <2>5
  <2>9. Accepted(m) /\ m.tag = PROTOBUF_FIELD_TAG /\ m.topic = topic /\ m.payload = w
    BY <2>1, <2>3, <2>6, <2>7, <2>8 DEF Accepted, PROTOBUF_FIELD_TAG
  <2> QED BY <1>4, <1>8, <2>9 DEF L, w, k, Reads
<1>9. Reads(d, n, m, topic, payload)
  BY <1>1, <1>n, <1>7, <1>8
<1> QED BY <1>9 DEF d, m

\* A frame of any command, cut anywhere, is never read as another topic, and a
\* whole one is read as it was sent (build_frame, parse_frame, get_short_topic).
THEOREM FrameSurvivesHolds ==
  ASSUME NEW key, NEW id, NEW short \in Seq(Ascii), NEW payload \in Seq(Byte),
         Word(key), Word(id)
  PROVE  FrameSurvives(<<Slash>> \o key, id, short, payload)
<1> DEFINE t == FullTopic(<<Slash>> \o key, id, short)
           f == BuildFrame(t, payload)
<1>1. t \in Seq(Ascii) /\ Len(t) \in Nat /\ Len(t) >= 1 /\ ShortTopic(t) = short
  <2> DEFINE a == Len(key) + 2
             b == Len(key) + Len(id) + 3
  <2>1. t \in Seq(Ascii) /\ Len(t) = b + Len(short) /\ Len(short) \in Nat /\ b \in Nat /\ 1 < a /\ a < b /\ a \in Nat
    <3>1. Places(t, a, b, short)
      BY FullTopicPlaces
    <3> HIDE DEF a, b, t
    <3> QED BY <3>1 DEF Places
  <2> HIDE DEF a, b, t
  <2>2. Len(t) \in Nat /\ Len(t) >= 1
    BY <2>1
  <2> QED BY <2>1, <2>2, ShortOfFull DEF t
<1> HIDE DEF t
<1>l. Len(t) > 255 \/ Len(t) \in 1 .. 255
  <2>1. \A x \in Nat : x >= 1 => x > 255 \/ x \in 1 .. 255
    OBVIOUS
  <2> QED BY <1>1, <2>1
<1>2. FrameSurvives(<<Slash>> \o key, id, short, payload) <=>
        IF ~Accepted(f) THEN Len(t) > 255
        ELSE \A n \in 0 .. Len(f.data) :
               LET m == ParseFrame(SubSeq(f.data, 1, n))
               IN /\ Accepted(m) => /\ m.tag = PROTOBUF_FIELD_TAG
                                    /\ ShortTopic(m.topic) = short
                                    /\ IsPrefix(m.payload, payload)
                  /\ n = Len(f.data) => Accepted(m) /\ m.payload = payload
  BY DEF FrameSurvives, t
<1>3. CASE Len(t) > 255
  <2>1. ~Accepted(f)
    <3>1. Len(t) \notin 1 .. 255
      <4>1. \A x \in Nat : x > 255 => x \notin 1 .. 255
        OBVIOUS
      <4> QED BY <1>1, <1>3, <4>1, Zenon
    <3>2. f = Refused
      BY <3>1 DEF BuildFrame
    <3> HIDE DEF f
    <3> QED BY <3>2 DEF Refused, Accepted
  <2> HIDE DEF f
  <2> QED BY <1>2, <1>3, <2>1
<1>4. CASE Len(t) \in 1 .. 255
  <2>1. Accepted(f)
    BY <1>4 DEF BuildFrame, Accepted
  <2>2. ASSUME NEW n \in 0 .. Len(f.data), NEW m, m = ParseFrame(SubSeq(f.data, 1, n))
        PROVE  /\ Accepted(m) => /\ m.tag = PROTOBUF_FIELD_TAG
                                 /\ ShortTopic(m.topic) = short
                                 /\ IsPrefix(m.payload, payload)
               /\ n = Len(f.data) => Accepted(m) /\ m.payload = payload
    <3> DEFINE k == n - (4 + Len(t))
    <3>1. /\ Len(f.data) = 4 + Len(t) + Len(payload)
          /\ Accepted(m) <=> n >= 4 + Len(t)
          /\ Accepted(m) => /\ m.tag = PROTOBUF_FIELD_TAG /\ m.topic = t
                            /\ m.payload = SubSeq(payload, 1, k)
      <4>1. Reads(f.data, n, m, t, payload)
        BY <1>1, <1>4, <2>2, ParsedFrame
      <4> HIDE DEF f
      <4> QED BY <4>1 DEF Reads
    <3>2. Len(payload) \in Nat /\ n \in Nat
      BY <3>1
    <3>3. n >= 4 + Len(t) => IsPrefix(SubSeq(payload, 1, k), payload)
      <4> SUFFICES ASSUME n >= 4 + Len(t) PROVE IsPrefix(SubSeq(payload, 1, k), payload)
        OBVIOUS
      <4>1. k \in 0 .. Len(payload)
        BY <1>1, <3>1, <3>2
      <4> HIDE DEF k
      <4> DEFINE w == SubSeq(payload, 1, k)
      <4>2. w \in Seq(Byte) /\ Len(w) = k
        BY <4>1
      <4> HIDE DEF w
      <4>3. SubSeq(w, 1, k) = w
        BY <4>2, SubSeqFull
      <4>4. IsPrefix(w, payload)
        BY <4>1, <4>2, <4>3 DEF IsPrefix, w
      <4> QED BY <4>4 DEF w
    <3>4. n = Len(f.data) => k = Len(payload) /\ n >= 4 + Len(t)
      BY <1>1, <3>1, <3>2
    <3>5. SubSeq(payload, 1, Len(payload)) = payload
      BY SubSeqFull
    <3> HIDE DEF k, f
    <3> QED BY <1>1, <3>1, <3>3, <3>4, <3>5
  <2> HIDE DEF f
  <2> QED BY <1>2, <2>1, <2>2
<1> HIDE DEF f
<1> QED BY <1>l, <1>3, <1>4
=============================================================================
