--------------------------- MODULE BroadcastDedup ---------------------------
(***************************************************************************)
(* How a broadcast reaches the state and the entities: the listener drops  *)
(* a frame that repeats the previous one of its topic, a command that      *)
(* waits for its response without a listener applies broadcasts itself and *)
(* knows nothing of that cache, and get_status writes the fields of one    *)
(* topic from an answer that was never broadcast.                          *)
(*                                                                         *)
(* A payload is the function from the fields it sets to their values: the  *)
(* update_from_* methods set the fields that are present, reset a few that *)
(* are absent, and keep the others.  Topics whose payload sets nothing are *)
(* left out.                                                               *)
(***************************************************************************)
EXTENDS Naturals, Sequences, FiniteSets

CONSTANTS Topics,
          Exempt,       \* DEDUP_EXEMPT_TOPICS
          Base,         \* status/robot_base_status
          Fields, Values,
          Default,      \* the value NarwalState gives every field
          Payloads,
          Undecodable,  \* payloads _decode_protobuf raises on
          Raising,      \* payloads an update_from_* method raises on
          CacheMax      \* DEDUP_CACHE_MAX_TOPICS

\* A set of fields of a topic: what one message sets, as a partial function.
Partial == UNION {[F -> Values] : F \in SUBSET Fields}

ASSUME DedupAssumption ==
  /\ Exempt \subseteq Topics
  /\ Base \in Topics \ Exempt
  /\ Default \in Values
  /\ Payloads \subseteq Partial
  /\ Undecodable \subseteq Payloads
  /\ Raising \subseteq Payloads
  /\ CacheMax \in Nat \ {0}

VARIABLES
  state,      \* the fields of NarwalState, by the topic that sets them
  listening,  \* the listener is in its receive loop
  cache,      \* _last_payloads
  order,      \* the keys of _last_payloads, oldest first
  ideal,      \* history: the state of a client that drops nothing
  polled,     \* history: fields of Base last set by get_status
  unseen      \* history: topics changed by a broadcast no callback was told of

cacheVars == <<cache, order>>
vars == <<state, listening, cacheVars, ideal, polled, unseen>>

TypeOK ==
  /\ state \in [Topics -> [Fields -> Values]]
  /\ ideal \in [Topics -> [Fields -> Values]]
  /\ listening \in BOOLEAN
  /\ DOMAIN cache \subseteq Topics \ Exempt
  /\ cache \in [DOMAIN cache -> Payloads]
  /\ order \in Seq(Topics)
  /\ polled \subseteq Fields
  /\ unseen \subseteq Topics

Init ==
  /\ state = [t \in Topics |-> [f \in Fields |-> Default]] /\ ideal = state
  /\ listening = FALSE
  /\ cache = <<>> /\ order = <<>>
  /\ polled = {} /\ unseen = {}
-----------------------------------------------------------------------------
\* The fields in F of topic t as p has them.
Update(s, t, p, F) ==
  [s EXCEPT ![t] = [f \in Fields |-> IF f \in F THEN p[f] ELSE s[t][f]]]

\* A setter that raises has set some of the fields.
Written(p) == IF p \in Raising THEN SUBSET DOMAIN p ELSE {DOMAIN p}

\* A broadcast of p on t is applied.
Applied(t, p) ==
  \E F \in Written(p) :
    /\ state' = Update(state, t, p, F)
    /\ ideal' = Update(ideal, t, p, F)
    /\ polled' = IF t = Base THEN polled \ F ELSE polled

\* Mutant: any entry of the topic counts as a repetition.
IsDuplicate_TopicOnly(t, p) == t \notin Exempt /\ t \in DOMAIN cache

IsDuplicate(t, p) == t \notin Exempt /\ t \in DOMAIN cache /\ cache[t] = p

\* The rest of _is_duplicate_broadcast: a new topic evicts the oldest one.
Remember(t, p) ==
  LET full == t \notin DOMAIN cache /\ Len(order) >= CacheMax
      kept == IF full THEN DOMAIN cache \ {Head(order)} ELSE DOMAIN cache
      left == IF full THEN Tail(order) ELSE order
  IN IF t \in Exempt
       THEN UNCHANGED cacheVars
       ELSE /\ cache' = [u \in kept \cup {t} |-> IF u = t THEN p ELSE cache[u]]
            /\ order' = IF t \in kept THEN left ELSE Append(left, t)

\* Mutant: the finally clause does not forget the payloads.
Finally_KeepsCache ==
  /\ listening' = FALSE
  /\ UNCHANGED cacheVars

\* The listener's finally clause.
Finally ==
  /\ listening' = FALSE
  /\ cache' = <<>> /\ order' = <<>>

-----------------------------------------------------------------------------
\* start_listening enters its receive loop, and leaves it again.
ListenerStarts ==
  /\ ~listening /\ listening' = TRUE
  /\ UNCHANGED <<state, cacheVars, ideal, polled, unseen>>

ListenerEnds ==
  /\ listening /\ Finally
  /\ UNCHANGED <<state, ideal, polled, unseen>>

\* _handle_message.  A repetition is dropped: only a client without the cache
\* would have applied it.
Dropped(t, p) ==
  /\ IsDuplicate(t, p)
  /\ ideal' = IF p \in Undecodable THEN ideal ELSE Update(ideal, t, p, DOMAIN p)
  /\ UNCHANGED <<state, listening, cacheVars, polled, unseen>>

\* Remembered, yet neither applied nor passed on.
NotDecoded(t, p) ==
  /\ ~IsDuplicate(t, p) /\ p \in Undecodable
  /\ Remember(t, p)
  /\ UNCHANGED <<state, listening, ideal, polled, unseen>>

\* on_state_update hands the whole state on.
PassedOn(t, p) ==
  /\ ~IsDuplicate(t, p) /\ p \notin Undecodable \cup Raising
  /\ Remember(t, p)
  /\ Applied(t, p)
  /\ unseen' = {}
  /\ UNCHANGED listening

\* The exception ends the receive loop.
SetterRaises(t, p) ==
  /\ ~IsDuplicate(t, p) /\ p \in Raising \ Undecodable
  /\ Applied(t, p)
  /\ unseen' = unseen \cup {t}
  /\ Finally

Receive(t, p) ==
  /\ listening
  /\ Dropped(t, p) \/ NotDecoded(t, p) \/ PassedOn(t, p) \/ SetterRaises(t, p)

\* _wait_for_field5_response, by a command that reads the socket itself: no
\* cache and no callback.
ReadDirectly(t, p) ==
  /\ ~listening
  /\ p \notin Undecodable
  /\ Applied(t, p)
  /\ unseen' = unseen \cup {t}
  /\ UNCHANGED <<listening, cacheVars>>

\* get_status(full_update=True): any answer, for the robot may answer from a
\* cache of its own.  The coordinator publishes it.
Poll(p) ==
  /\ p \notin Undecodable
  /\ \E F \in Written(p) :
       /\ state' = Update(state, Base, p, F)
       /\ ideal' = Update(ideal, Base, p, F)
       /\ polled' = polled \cup F
  /\ unseen' = IF p \in Raising THEN unseen ELSE {}
  /\ UNCHANGED <<listening, cacheVars>>

Next ==
  \/ ListenerStarts \/ ListenerEnds
  \/ \E t \in Topics, p \in Payloads : Receive(t, p) \/ ReadDirectly(t, p)
  \/ \E p \in Payloads : Poll(p)

Spec == Init /\ [][Next]_vars
-----------------------------------------------------------------------------
\* Dropping repetitions is invisible, across reconnects, evictions and the
\* commands that read the socket themselves: every field is what a client that
\* drops nothing would have.  The exception are the fields that get_status has
\* set since a broadcast last did.
DropsAreInvisible ==
  \A t \in Topics, f \in Fields :
    state[t][f] = ideal[t][f] \/ (t = Base /\ f \in polled)

\* A payload that will be dropped has been seen: nothing that a command read
\* past the callback stays hidden behind the cache.
KnownIsSeen ==
  \A t \in DOMAIN cache : cache[t] \notin Undecodable => t \notin unseen

\* What the docstring of _is_duplicate_broadcast says: the frames that are
\* dropped cannot change anything.
DropsChangeNothing == state = ideal
=============================================================================
