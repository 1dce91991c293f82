-------------------------- MODULE RedisCacheProofs --------------------------
(***************************************************************************)
(* Proofs about RedisCache, for every set of ids, scores, deadlines, lock  *)
(* times and filters, and every batch size: its invariants, its replies,   *)
(* and that it implements MessageCycle, the six sorted sets of a queue     *)
(* behaving as one cell per message.                                       *)
(***************************************************************************)
EXTENDS RedisCache, FiniteSetTheorems, TLAPS

\* The inductive invariant.  No part is inductive alone: MakeAvailable keeps
\* the pools disjoint only because the id it adds to active was in processing
\* and in nothing else, and a lock keeps only current scores only because the
\* id it adds was not locked before.
Inv == TypeOK /\ PoolsDisjoint /\ ScoresOnlyWhileLocked

-----------------------------------------------------------------------------
(***************************************************************************)
(* Sorted sets                                                             *)
(***************************************************************************)
\* Adding scored ids to a sorted set gives a sorted set with those ids too.
LEMMA ZADDType ==
  ASSUME NEW z, NEW add, IsZSet(z), IsZSet(add)
  PROVE  IsZSet(ZADD(z, add)) /\ DOMAIN ZADD(z, add) = DOMAIN z \cup DOMAIN add
BY DEF IsZSet, ZADD

\* Removing ids leaves a sorted set without them.
LEMMA ZREMType ==
  ASSUME NEW z, NEW S, IsZSet(z)
  PROVE  IsZSet(ZREM(z, S)) /\ DOMAIN ZREM(z, S) = DOMAIN z \ S
BY DEF IsZSet, ZREM

\* One score for every member of a set of ids makes a sorted set.
LEMMA ScoredType ==
  ASSUME NEW S \in SUBSET Id, NEW s \in Int
  PROVE  IsZSet(Scored(S, s)) /\ DOMAIN Scored(S, s) = S
BY DEF IsZSet, Scored

\* A selection by rank is a selection from the set it ranks.
LEMMA SelectionSubset ==
  ASSUME NEW z, NEW S, NEW n
  PROVE  FirstN(z, S, n) \subseteq S /\ LastN(z, S, n) \subseteq S
BY DEF FirstN, LastN

\* The expired entries of a sorted set are entries of it, and are past due.
LEMMA ExpiredSubset ==
  ASSUME NEW z
  PROVE  Expired(z) \subseteq {i \in DOMAIN z : z[i] <= now}
BY SelectionSubset DEF Expired

-----------------------------------------------------------------------------
(***************************************************************************)
(* The inductive invariant                                                 *)
(***************************************************************************)
\* An empty cache satisfies the invariant.
LEMMA InitInv == Init => Inv
BY DEF Init, Inv, TypeOK, PoolsDisjoint, ScoresOnlyWhileLocked, IsZSet, Empty, LockTypes

\* addElements adds to active only ids that no pool holds.
LEMMA InsertInv == ASSUME Inv, NEW req \in Requests, Insert(req) PROVE Inv'
<1> DEFINE new == DOMAIN req \ Present
           add == [i \in new |-> req[i]]
<1>0. Scores \subseteq Int
  BY InputAssumption
<1>1. IsZSet(add) /\ DOMAIN add = new
  BY <1>0, Zenon DEF Requests, IsZSet
<1>2. IsZSet(active') /\ DOMAIN active' = DOMAIN active \cup new
  BY <1>1, ZADDType, Zenon DEF Insert, Inv, TypeOK
<1>3. new \subseteq Id
  BY <1>1 DEF IsZSet
<1> QED
  BY <1>2, <1>3
  DEF Insert, Present, Inv, TypeOK, PoolsDisjoint, ScoresOnlyWhileLocked, LockTypes

\* pullElements takes what it adds to processing out of active.
LEMMA PullInv ==
  ASSUME Inv, NEW n, NEW lo, NEW hi, NEW d \in AckDeadlines, PullMessages(n, lo, hi, d)
  PROVE  Inv'
<1> DEFINE deadline == now + IF d = 0 THEN DefaultTimeout ELSE d
           elements == FirstN(active, {i \in DOMAIN active : InRange(active[i], lo, hi)}, n)
<1>1. elements \subseteq DOMAIN active /\ elements \in SUBSET Id
  BY SelectionSubset DEF Inv, TypeOK, IsZSet
<1>2. deadline \in Int
  BY InputAssumption DEF Inv, TypeOK
<1>3. IsZSet(Scored(elements, deadline)) /\ DOMAIN Scored(elements, deadline) = elements
  BY <1>1, <1>2, ScoredType
<1> HIDE DEF elements, deadline
<1>4. IsZSet(processing') /\ DOMAIN processing' = DOMAIN processing \cup elements
  BY <1>3, ZADDType, Zenon DEF PullMessages, Inv, TypeOK, elements, deadline
<1>5. IsZSet(active') /\ DOMAIN active' = DOMAIN active \ elements
  BY ZREMType, Zenon DEF PullMessages, Inv, TypeOK, elements, deadline
<1>6. UNCHANGED <<lock, lockScore, now>> /\ reply' = elements
  BY DEF PullMessages, elements
<1> QED
  BY <1>1, <1>4, <1>5, <1>6 DEF Inv, TypeOK, PoolsDisjoint, ScoresOnlyWhileLocked, LockTypes

\* moveElement adds to active only an id it took out of processing.
LEMMA MakeAvailableInv ==
  ASSUME Inv, NEW i \in Id, NEW s \in Scores, MakeAvailable(i, s) PROVE Inv'
<1>1. CASE i \notin DOMAIN processing
  BY <1>1 DEF MakeAvailable, Inv, TypeOK, PoolsDisjoint, ScoresOnlyWhileLocked
<1>2. CASE i \in DOMAIN processing
  <2>1. IsZSet(Scored({i}, s)) /\ DOMAIN Scored({i}, s) = {i}
    BY InputAssumption, ScoredType
  <2>2. IsZSet(active') /\ DOMAIN active' = DOMAIN active \cup {i}
    BY <1>2, <2>1, ZADDType, Zenon DEF MakeAvailable, Inv, TypeOK
  <2>3. IsZSet(processing') /\ DOMAIN processing' = DOMAIN processing \ {i}
    <3>1. processing' = ZREM(processing, {i}) /\ IsZSet(processing)
      BY <1>2 DEF MakeAvailable, Inv, TypeOK
    <3> QED BY <3>1, ZREMType
  <2>4. UNCHANGED <<lock, lockScore, now>> /\ reply' \in SUBSET Id
    BY <1>2, <2>1 DEF MakeAvailable, ZADDed
  <2> QED
    BY <1>2, <2>2, <2>3, <2>4 DEF Inv, TypeOK, PoolsDisjoint, ScoresOnlyWhileLocked, LockTypes
<1> QED BY <1>1, <1>2

\* lockElement locks only an id it took out of processing, so no older lock or
\* score of it is left.
LEMMA LockMessageInv ==
  ASSUME Inv, NEW i \in Id, NEW t \in LockTypes, NEW ms \in LockTimes, NEW s \in LockScores,
         LockMessage(i, t, ms, s)
  PROVE  Inv'
<1>1. CASE i \notin DOMAIN processing
  BY <1>1 DEF LockMessage, Inv, TypeOK, PoolsDisjoint, ScoresOnlyWhileLocked
<1>2. CASE i \in DOMAIN processing
  <2>1. /\ IsZSet(Scored({i}, s)) /\ DOMAIN Scored({i}, s) = {i}
        /\ IsZSet(Scored({i}, now + ms)) /\ DOMAIN Scored({i}, now + ms) = {i}
    BY InputAssumption, ScoredType DEF Inv, TypeOK
  <2>2. IsZSet(processing') /\ DOMAIN processing' = DOMAIN processing \ {i}
    <3>1. processing' = ZREM(processing, {i}) /\ IsZSet(processing)
      BY <1>2 DEF LockMessage, Inv, TypeOK
    <3> QED BY <3>1, ZREMType
  <2>3. /\ DOMAIN lock' = LockTypes
        /\ IsZSet(lock'[t]) /\ DOMAIN lock'[t] = DOMAIN lock[t] \cup {i}
        /\ \A u \in LockTypes : u # t => lock'[u] = lock[u]
    <3>1. lock' = [lock EXCEPT ![t] = ZADD(lock[t], Scored({i}, now + ms))]
      BY <1>2 DEF LockMessage
    <3>2. DOMAIN lock = LockTypes /\ IsZSet(lock[t])
      BY DEF Inv, TypeOK
    <3>3. lock'[t] = ZADD(lock[t], Scored({i}, now + ms))
      BY <3>1, <3>2
    <3> QED BY <2>1, <3>1, <3>2, <3>3, ZADDType, Zenon
  <2>4. /\ DOMAIN lockScore' = LockTypes
        /\ IsZSet(lockScore'[t]) /\ DOMAIN lockScore'[t] \subseteq DOMAIN lockScore[t] \cup {i}
        /\ \A u \in LockTypes : u # t => lockScore'[u] = lockScore[u]
        /\ \A j \in DOMAIN lockScore'[t] : lockScore'[t][j] # Undefined
    <3>0. \A j \in DOMAIN lockScore[t] : lockScore[t][j] # Undefined
      BY DEF Inv, TypeOK
    <3>1. DOMAIN lockScore = LockTypes /\ IsZSet(lockScore[t])
      BY DEF Inv, TypeOK
    <3>2. CASE s = Undefined
      BY <1>2, <3>0, <3>1, <3>2 DEF LockMessage, KeepsScore
    <3>3. CASE s # Undefined
      <4>1. lockScore' = [lockScore EXCEPT ![t] = ZADD(lockScore[t], Scored({i}, s))]
        BY <1>2, <3>3 DEF LockMessage, KeepsScore
      <4>2. lockScore'[t] = ZADD(lockScore[t], Scored({i}, s))
        BY <3>1, <4>1
      <4>3. \A j \in DOMAIN lockScore'[t] : lockScore'[t][j] # Undefined
        BY <3>0, <3>3, <4>2 DEF ZADD, Scored
      <4> QED BY <2>1, <3>1, <4>1, <4>2, <4>3, ZADDType, Zenon
    <3> QED BY <3>2, <3>3
  <2>5. UNCHANGED <<active, now>> /\ reply' \in SUBSET Id
    BY <1>2, <2>1 DEF LockMessage, ZADDed
  <2>6. TypeOK'
    BY <2>2, <2>3, <2>4, <2>5 DEF Inv, TypeOK
  <2>7. PoolsDisjoint'
    BY <1>2, <2>2, <2>3, <2>5 DEF Inv, PoolsDisjoint
  <2>8. ScoresOnlyWhileLocked'
    BY <2>3, <2>4 DEF Inv, ScoresOnlyWhileLocked
  <2> QED BY <2>6, <2>7, <2>8 DEF Inv
<1> QED BY <1>1, <1>2

\* unlockElements drops the lock and the score of what it adds to active.
LEMMA UnlockMessagesInv ==
  ASSUME Inv, NEW t \in LockTypes, UnlockMessages(t) PROVE Inv'
<1> DEFINE elements == Expired(lock[t])
           add == [i \in elements |-> UnlockScore(i, t)]
<1>1. elements \subseteq DOMAIN lock[t] /\ elements \in SUBSET Id
  BY ExpiredSubset DEF Inv, TypeOK, IsZSet
<1>2. IsZSet(add) /\ DOMAIN add = elements
  <2>1. \A i \in elements : UnlockScore(i, t) \in Int
    BY <1>1 DEF UnlockScore, DefaultScore, Min, Inv, TypeOK, IsZSet
  <2> HIDE DEF elements
  <2> QED BY <1>1, <2>1 DEF IsZSet
<1>3. IsZSet(active') /\ DOMAIN active' = DOMAIN active \cup elements
  BY <1>2, ZADDType, Zenon DEF UnlockMessages, Inv, TypeOK
<1> HIDE DEF elements
<1>4. /\ DOMAIN lock' = LockTypes
      /\ IsZSet(lock'[t]) /\ DOMAIN lock'[t] = DOMAIN lock[t] \ elements
      /\ \A u \in LockTypes : u # t => lock'[u] = lock[u]
  BY ZREMType, Zenon DEF UnlockMessages, Inv, TypeOK, elements
<1>5. /\ DOMAIN lockScore' = LockTypes
      /\ IsZSet(lockScore'[t]) /\ DOMAIN lockScore'[t] = DOMAIN lockScore[t] \ elements
      /\ \A u \in LockTypes : u # t => lockScore'[u] = lockScore[u]
      /\ \A j \in DOMAIN lockScore'[t] : lockScore'[t][j] = lockScore[t][j]
  BY ZREMType, Zenon DEF UnlockMessages, ScoresKept, ZREM, Inv, TypeOK, elements
<1>6. UNCHANGED <<processing, now>> /\ reply' = elements
  BY DEF UnlockMessages, elements
<1>7. TypeOK'
  BY <1>1, <1>3, <1>4, <1>5, <1>6 DEF Inv, TypeOK
<1>8. PoolsDisjoint'
  BY <1>1, <1>3, <1>4, <1>6 DEF Inv, PoolsDisjoint
<1>9. ScoresOnlyWhileLocked'
  BY <1>4, <1>5 DEF Inv, ScoresOnlyWhileLocked
<1> QED BY <1>7, <1>8, <1>9 DEF Inv

\* moveFilteredElements takes what it adds to active out of processing.
LEMMA TimeoutMessagesInv == ASSUME Inv, TimeoutMessages PROVE Inv'
<1> DEFINE elements == Expired(processing)
<1>1. elements \subseteq DOMAIN processing /\ elements \in SUBSET Id
  BY ExpiredSubset DEF Inv, TypeOK, IsZSet
<1>2. IsZSet(Scored(elements, Min)) /\ DOMAIN Scored(elements, Min) = elements
  BY <1>1, ScoredType DEF Min
<1> HIDE DEF elements
<1>3. IsZSet(active') /\ DOMAIN active' = DOMAIN active \cup elements
  BY <1>2, ZADDType, Zenon DEF TimeoutMessages, Inv, TypeOK, elements
<1>4. IsZSet(processing') /\ DOMAIN processing' = DOMAIN processing \ elements
  BY ZREMType, Zenon DEF TimeoutMessages, Inv, TypeOK, elements
<1>5. UNCHANGED <<lock, lockScore, now>> /\ reply' = elements
  BY DEF TimeoutMessages, elements
<1> QED
  BY <1>1, <1>3, <1>4, <1>5 DEF Inv, TypeOK, PoolsDisjoint, ScoresOnlyWhileLocked, LockTypes

\* removeElement drops an id from all six sets.
LEMMA RemoveInv == ASSUME Inv, NEW S \in SUBSET Id, Remove(S) PROVE Inv'
<1>1. /\ IsZSet(active') /\ DOMAIN active' = DOMAIN active \ S
      /\ IsZSet(processing') /\ DOMAIN processing' = DOMAIN processing \ S
  BY ZREMType, Zenon DEF Remove, Inv, TypeOK
<1>2. /\ DOMAIN lock' = LockTypes /\ DOMAIN lockScore' = LockTypes
      /\ \A t \in LockTypes :
           /\ IsZSet(lock'[t]) /\ DOMAIN lock'[t] = DOMAIN lock[t] \ S
           /\ IsZSet(lockScore'[t]) /\ DOMAIN lockScore'[t] = DOMAIN lockScore[t] \ S
           /\ \A i \in DOMAIN lockScore'[t] : lockScore'[t][i] = lockScore[t][i]
  BY ZREMType, Zenon DEF Remove, ZREM, Inv, TypeOK
<1>3. now' = now /\ reply' = {}
  BY DEF Remove
<1>4. TypeOK'
  BY <1>1, <1>2, <1>3 DEF Inv, TypeOK
<1>5. PoolsDisjoint'
  BY <1>1, <1>2 DEF Inv, PoolsDisjoint
<1>6. ScoresOnlyWhileLocked'
  BY <1>2 DEF Inv, ScoresOnlyWhileLocked
<1> QED BY <1>4, <1>5, <1>6 DEF Inv

\* Empty sets satisfy the invariant.
LEMMA ClearInv == ASSUME Inv, Clear PROVE Inv'
BY DEF Clear, Inv, TypeOK, PoolsDisjoint, ScoresOnlyWhileLocked, IsZSet, Empty, LockTypes

\* Time alone moves nothing.
LEMMA TickInv == ASSUME Inv, Tick PROVE Inv'
BY DEF Tick, pools, Inv, TypeOK, PoolsDisjoint, ScoresOnlyWhileLocked

\* Every step of the cache keeps the invariant.
LEMMA NextInv == Inv /\ [Next]_vars => Inv'
<1> SUFFICES ASSUME Inv, [Next]_vars PROVE Inv'
  OBVIOUS
<1>1. CASE \E req \in Requests : Insert(req)
  BY <1>1, InsertInv
<1>2. CASE \E n \in PullSizes, lo, hi \in Limits, d \in AckDeadlines : PullMessages(n, lo, hi, d)
  BY <1>2, PullInv
<1>3. CASE \E i \in Id, s \in Scores : MakeAvailable(i, s)
  BY <1>3, MakeAvailableInv
<1>4. CASE \E i \in Id, t \in LockTypes, ms \in LockTimes, s \in LockScores :
             LockMessage(i, t, ms, s)
  BY <1>4, LockMessageInv
<1>5. CASE \E t \in LockTypes : UnlockMessages(t)
  BY <1>5, UnlockMessagesInv
<1>6. CASE TimeoutMessages
  BY <1>6, TimeoutMessagesInv
<1>7. CASE \E S \in SUBSET Id : Remove(S)
  BY <1>7, RemoveInv
<1>8. CASE Clear
  BY <1>8, ClearInv
<1>9. CASE Tick
  BY <1>9, TickInv
<1>10. CASE UNCHANGED vars
  BY <1>10 DEF vars, Inv, TypeOK, PoolsDisjoint, ScoresOnlyWhileLocked
<1> QED BY <1>1, <1>2, <1>3, <1>4, <1>5, <1>6, <1>7, <1>8, <1>9, <1>10 DEF Next

\* The sorted sets keep their types, a message is in at most one pool, and no
\* score outlives its lock: for any number of messages and any batch size.
THEOREM CacheInvariant == Spec => [](TypeOK /\ PoolsDisjoint /\ ScoresOnlyWhileLocked)
<1>1. Init => Inv
  BY InitInv
<1>2. Inv /\ [Next]_vars => Inv'
  BY NextInv
<1>3. Inv => TypeOK /\ PoolsDisjoint /\ ScoresOnlyWhileLocked
  BY DEF Inv
<1> QED BY <1>1, <1>2, <1>3, PTL DEF Spec

\* Every sorted set of a queue keeps scores and deadlines of its own kind.
THEOREM CacheTypes == Spec => []TypeOK
<1> QED BY CacheInvariant, PTL

\* No lock leaves its return score behind, for a later lock to find.
THEOREM NoStaleScore == Spec => []ScoresOnlyWhileLocked
<1> QED BY CacheInvariant, PTL

-----------------------------------------------------------------------------
(***************************************************************************)
(* What a call reports                                                     *)
(***************************************************************************)
Truthful == \A i \in Id : i \in reply' <=> Place(i)' \notin {Place(i), "none"}

\* addElements reports the ids it added.
LEMMA InsertTruthful == ASSUME Inv, NEW req \in Requests, Insert(req) PROVE Truthful
BY DEF Truthful, Insert, Present, Place, ZADD, Requests

\* pullElements reports the ids it moved.
LEMMA PullTruthful ==
  ASSUME Inv, NEW n, NEW lo, NEW hi, NEW d, PullMessages(n, lo, hi, d) PROVE Truthful
<1> DEFINE elements == FirstN(active, {i \in DOMAIN active : InRange(active[i], lo, hi)}, n)
<1>1. elements \subseteq DOMAIN active
  BY SelectionSubset
<1>2. /\ DOMAIN active' = DOMAIN active \ elements
      /\ DOMAIN processing' = DOMAIN processing \cup elements
      /\ reply' = elements
      /\ UNCHANGED lock
  BY DEF PullMessages, ZADD, ZREM, Scored
<1> HIDE DEF elements
<1> QED BY <1>1, <1>2 DEF Truthful, Place, Inv, PoolsDisjoint

\* moveElement reports true exactly when it moved the id: ZADD counts it, since
\* an id of processing is not in active.
LEMMA MakeAvailableTruthful ==
  ASSUME Inv, NEW i \in Id, NEW s, MakeAvailable(i, s) PROVE Truthful
<1>1. CASE i \notin DOMAIN processing
  BY <1>1 DEF MakeAvailable, Truthful, Place
<1>2. CASE i \in DOMAIN processing
  <2>1. /\ DOMAIN active' = DOMAIN active \cup {i}
        /\ DOMAIN processing' = DOMAIN processing \ {i}
        /\ reply' = {i}
        /\ UNCHANGED lock
    BY <1>2 DEF MakeAvailable, ZADD, ZREM, ZADDed, Scored, Inv, PoolsDisjoint
  <2> QED BY <1>2, <2>1 DEF Truthful, Place, Inv, PoolsDisjoint
<1> QED BY <1>1, <1>2

\* lockElement reports true exactly when it moved the id: both ZADDs count it,
\* since an id of processing has neither a lock nor a score.
LEMMA LockMessageTruthful ==
  ASSUME Inv, NEW i \in Id, NEW t \in LockTypes, NEW ms, NEW s, LockMessage(i, t, ms, s)
  PROVE  Truthful
<1>1. CASE i \notin DOMAIN processing
  BY <1>1 DEF LockMessage, Truthful, Place
<1>2. CASE i \in DOMAIN processing
  <2>1. i \notin DOMAIN active /\ \A u \in LockTypes : i \notin DOMAIN lock[u]
    BY <1>2 DEF Inv, PoolsDisjoint
  <2>2. i \notin DOMAIN lockScore[t]
    BY <2>1 DEF Inv, ScoresOnlyWhileLocked
  <2>3. reply' = {i}
    BY <1>2, <2>1, <2>2 DEF LockMessage, ZADDed, Scored
  <2>4. /\ DOMAIN processing' = DOMAIN processing \ {i}
        /\ DOMAIN lock'[t] = DOMAIN lock[t] \cup {i}
        /\ \A u \in LockTypes : u # t => lock'[u] = lock[u]
        /\ UNCHANGED active
    BY <1>2 DEF LockMessage, ZADD, ZREM, Scored, Inv, TypeOK
  <2> QED BY <1>2, <2>1, <2>3, <2>4 DEF Truthful, Place, LockTypes
<1> QED BY <1>1, <1>2

\* unlockElements reports the ids it moved.
LEMMA UnlockMessagesTruthful ==
  ASSUME Inv, NEW t \in LockTypes, UnlockMessages(t) PROVE Truthful
<1> DEFINE elements == Expired(lock[t])
<1>1. elements \subseteq DOMAIN lock[t]
  BY ExpiredSubset
<1> HIDE DEF elements
<1>2. /\ DOMAIN active' = DOMAIN active \cup elements
      /\ DOMAIN lock'[t] = DOMAIN lock[t] \ elements
      /\ \A u \in LockTypes : u # t => lock'[u] = lock[u]
      /\ reply' = elements
      /\ UNCHANGED processing
  BY DEF UnlockMessages, ZADD, ZREM, Inv, TypeOK, elements
<1>3. elements \cap DOMAIN active = {} /\ elements \cap DOMAIN processing = {}
  BY <1>1 DEF Inv, PoolsDisjoint
<1> QED BY <1>1, <1>2, <1>3 DEF Truthful, Place, LockTypes

\* moveFilteredElements reports the ids it moved.
LEMMA TimeoutMessagesTruthful == ASSUME Inv, TimeoutMessages PROVE Truthful
<1> DEFINE elements == Expired(processing)
<1>1. elements \subseteq DOMAIN processing
  BY ExpiredSubset
<1> HIDE DEF elements
<1>2. /\ DOMAIN active' = DOMAIN active \cup elements
      /\ DOMAIN processing' = DOMAIN processing \ elements
      /\ reply' = elements
      /\ UNCHANGED lock
  BY DEF TimeoutMessages, ZADD, ZREM, Scored, elements
<1> QED BY <1>1, <1>2 DEF Truthful, Place, Inv, PoolsDisjoint

\* removeElement puts no id into another pool.
LEMMA RemoveTruthful == ASSUME Inv, NEW S \in SUBSET Id, Remove(S) PROVE Truthful
<1>1. /\ DOMAIN active' = DOMAIN active \ S
      /\ DOMAIN processing' = DOMAIN processing \ S
      /\ \A t \in LockTypes : DOMAIN lock'[t] = DOMAIN lock[t] \ S
      /\ reply' = {}
  BY DEF Remove, ZREM
<1> QED BY <1>1 DEF Truthful, Place, LockTypes

\* A call reports exactly the messages it moved to another pool, so a worker
\* told that its ack or nack failed knows that the message was no longer its own.
THEOREM ReplyCorrect == Spec => ReplyIsWhatMoved
<1>1. Inv /\ [Next]_vars => [Truthful]_vars
  <2> SUFFICES ASSUME Inv, Next PROVE Truthful
    OBVIOUS
  <2>1. CASE Clear
    BY <2>1 DEF Clear, Truthful, Place, Empty, LockTypes
  <2>2. CASE Tick
    BY <2>2 DEF Tick, pools, Truthful, Place
  <2> QED
    BY <2>1, <2>2, InsertTruthful, PullTruthful, MakeAvailableTruthful, LockMessageTruthful,
       UnlockMessagesTruthful, TimeoutMessagesTruthful, RemoveTruthful
    DEF Next
<1> QED BY <1>1, InitInv, NextInv, PTL DEF Spec, ReplyIsWhatMoved, Truthful

-----------------------------------------------------------------------------
(***************************************************************************)
(* Refinement                                                              *)
(***************************************************************************)
\* What the cell of a message is, by the pool it is in.
CellFacts ==
  \A i \in Id :
    /\ i \in DOMAIN active => CellOf(i) = Cycle!Active(active[i])
    /\ i \in DOMAIN processing => CellOf(i) = Cycle!Processing(processing[i])
    /\ \A t \in LockTypes : i \in DOMAIN lock[t] =>
         CellOf(i) = Cycle!Locked(t, lock[t][i],
                       IF i \in DOMAIN lockScore[t] THEN lockScore[t][i] ELSE Undefined)
    /\ i \notin Present => CellOf(i) = Cycle!None

\* Since the pools are disjoint, the pool that holds an id determines its cell.
LEMMA CellFactsHold == Inv => CellFacts
<1> SUFFICES ASSUME Inv, NEW i \in Id
             PROVE  /\ i \in DOMAIN active => CellOf(i) = Cycle!Active(active[i])
                    /\ i \in DOMAIN processing => CellOf(i) = Cycle!Processing(processing[i])
                    /\ \A t \in LockTypes : i \in DOMAIN lock[t] =>
                         CellOf(i) = Cycle!Locked(t, lock[t][i],
                           IF i \in DOMAIN lockScore[t] THEN lockScore[t][i] ELSE Undefined)
                    /\ i \notin Present => CellOf(i) = Cycle!None
  BY DEF CellFacts
<1>1. i \in DOMAIN active => CellOf(i) = Cycle!Active(active[i])
  BY DEF CellOf, Place, Cycle!Active, Cycle!Undefined, Undefined, LockTypes
<1>2. i \in DOMAIN processing => CellOf(i) = Cycle!Processing(processing[i])
  BY DEF CellOf, Place, Cycle!Processing, Cycle!Undefined, Undefined, LockTypes, Inv, PoolsDisjoint
<1>3. ASSUME NEW t \in LockTypes, i \in DOMAIN lock[t]
      PROVE  CellOf(i) = Cycle!Locked(t, lock[t][i],
                IF i \in DOMAIN lockScore[t] THEN lockScore[t][i] ELSE Undefined)
  <2>1. Place(i) = t
    BY <1>3 DEF Place, LockTypes, Inv, PoolsDisjoint
  <2> QED BY <2>1 DEF CellOf, Cycle!Locked, LockTypes
<1>4. i \notin Present => CellOf(i) = Cycle!None
  BY DEF CellOf, Place, Present, Cycle!None, Cycle!Undefined, Undefined, LockTypes
<1> QED BY <1>1, <1>2, <1>3, <1>4

\* The same facts after a step.
LEMMA CellFactsAfter == Inv' => CellFacts'
BY CellFactsHold, PTL

\* Two sorted sets agree on an id.
Agree(y, z, i) == (i \in DOMAIN y <=> i \in DOMAIN z) /\ (i \in DOMAIN y => y[i] = z[i])

\* A message on which all six sets agree before and after a step keeps its cell.
LEMMA CellUnchanged ==
  ASSUME NEW i \in Id,
         Agree(active, active', i), Agree(processing, processing', i),
         \A t \in LockTypes : Agree(lock[t], lock'[t], i) /\ Agree(lockScore[t], lockScore'[t], i)
  PROVE  CellOf(i)' = CellOf(i)
<1>1. Place(i)' = Place(i)
  BY DEF Agree, Place, LockTypes
<1>2. CASE Place(i) = "active"
  BY <1>1, <1>2 DEF Agree, CellOf, Place, LockTypes
<1>3. CASE Place(i) = "processing"
  BY <1>1, <1>3 DEF Agree, CellOf, Place, LockTypes
<1>4. CASE Place(i) \in LockTypes
  BY <1>1, <1>4 DEF Agree, CellOf, Place, LockTypes
<1>5. CASE Place(i) = "none"
  BY <1>1, <1>5 DEF CellOf, LockTypes
<1> QED BY <1>2, <1>3, <1>4, <1>5 DEF Place, LockTypes

\* Adding and removing leave the other ids alone.
LEMMA AddAgrees ==
  ASSUME NEW z, NEW add, NEW i, i \notin DOMAIN add PROVE Agree(z, ZADD(z, add), i)
BY DEF Agree, ZADD

\* ZREM does not change what a sorted set says of an id it does not name.
LEMMA RemoveAgrees ==
  ASSUME NEW z, NEW S, NEW i, i \notin S PROVE Agree(z, ZREM(z, S), i)
BY DEF Agree, ZREM

\* An unchanged sorted set says the same of every id.
LEMMA SameAgrees == ASSUME NEW z, NEW i PROVE Agree(z, z, i)
BY DEF Agree

\* The messages of S move to the cells that to gives them and the others stay.
LEMMA MoveFromCells ==
  ASSUME NEW S, NEW to,
         \A i \in Id \cap S : CellOf(i)' = to[i],
         \A i \in Id \ S : CellOf(i)' = CellOf(i)
  PROVE  Cycle!Move(S, to)
BY DEF Cycle!Move

\* A message is at a place of the cycle when it is in the pool of that name.
LEMMA AtPlace ==
  ASSUME Inv
  PROVE  /\ Cycle!At("none") = {i \in Id : i \notin Present}
         /\ Cycle!At("active") = DOMAIN active
         /\ Cycle!At("processing") = DOMAIN processing
         /\ \A t \in LockTypes : Cycle!At(t) = DOMAIN lock[t]
<1>1. CellFacts
  BY CellFactsHold
<1>2. \A i \in Id : i \in Present <=> \/ i \in DOMAIN active \/ i \in DOMAIN processing
                                       \/ \E t \in LockTypes : i \in DOMAIN lock[t]
  BY DEF Present, LockTypes
<1>3. DOMAIN active \subseteq Id /\ DOMAIN processing \subseteq Id
      /\ \A t \in LockTypes : DOMAIN lock[t] \subseteq Id
  BY DEF Inv, TypeOK, IsZSet
<1>4. \A i \in Id : /\ i \in DOMAIN active => CellOf(i).at = "active"
                    /\ i \in DOMAIN processing => CellOf(i).at = "processing"
                    /\ \A t \in LockTypes : i \in DOMAIN lock[t] => CellOf(i).at = t
                    /\ i \notin Present => CellOf(i).at = "none"
  BY <1>1 DEF CellFacts, Cycle!Active, Cycle!Processing, Cycle!Locked, Cycle!None
<1>5. \A p : Cycle!At(p) = {i \in Id : CellOf(i).at = p}
  BY DEF Cycle!At
<1> HIDE DEF Cycle!At
<1> QED BY <1>2, <1>3, <1>4, <1>5, Zenon DEF LockTypes

-----------------------------------------------------------------------------
(***************************************************************************)
(* One lemma per action                                                    *)
(***************************************************************************)
\* No id left behind by a selection of the first n has a lower score than one
\* it took.
LEMMA FirstNOrdered ==
  ASSUME NEW z, IsZSet(z), NEW S \in SUBSET DOMAIN z, NEW n \in Nat,
         NEW i \in FirstN(z, S, n), NEW j \in S \ FirstN(z, S, n)
  PROVE  z[i] <= z[j]
<1> DEFINE Ahead(k) == {l \in S : Before(z, l, k)}
<1>1. i \in S /\ j \in S /\ z[i] \in Int /\ z[j] \in Int
  BY DEF FirstN, IsZSet
<1>2. SUFFICES ASSUME z[j] < z[i] PROVE FALSE
  BY <1>1
<1>3. Ahead(j) \subseteq Ahead(i)
  BY <1>1, <1>2 DEF Before, IsZSet
<1>4. IsFiniteSet(Ahead(i))
  <2>1. Ahead(i) \subseteq Id
    BY DEF IsZSet
  <2> QED BY <2>1, IdAssumption, FS_Subset
<1>5. /\ Cardinality(Ahead(j)) \in Nat /\ Cardinality(Ahead(i)) \in Nat
      /\ Cardinality(Ahead(j)) <= Cardinality(Ahead(i))
  BY <1>3, <1>4, FS_Subset, FS_CardinalityType
<1>6. Cardinality(Ahead(i)) < n /\ ~(Cardinality(Ahead(j)) < n)
  BY <1>1 DEF FirstN
<1> HIDE DEF Ahead
<1> QED BY <1>5, <1>6

\* addElements is an Insert of the cycle.
LEMMA InsertRefines ==
  ASSUME Inv, Inv', NEW req \in Requests, Insert(req) PROVE Cycle!Next
<1> DEFINE new == DOMAIN req \ Present
<1>1. new = DOMAIN req \cap Cycle!At("none")
  BY AtPlace DEF Requests
<1>2. CellFacts'
  BY CellFactsAfter
<1>3. \A i \in new : i \in Id /\ CellOf(i)' = Cycle!Active(req[i])
  <2>1. \A i \in new : i \in Id /\ i \in DOMAIN active' /\ active'[i] = req[i]
    BY DEF Insert, ZADD, Requests
  <2> QED BY <1>2, <2>1 DEF CellFacts
<1>4. \A i \in Id \ new : CellOf(i)' = CellOf(i)
  <2> SUFFICES ASSUME NEW i \in Id \ new PROVE CellOf(i)' = CellOf(i)
    OBVIOUS
  <2>1. Agree(active, active', i)
    BY AddAgrees DEF Insert
  <2>2. /\ Agree(processing, processing', i)
        /\ \A t \in LockTypes : Agree(lock[t], lock'[t], i) /\ Agree(lockScore[t], lockScore'[t], i)
    BY SameAgrees DEF Insert
  <2> QED BY <2>1, <2>2, CellUnchanged
<1> DEFINE to == [i \in DOMAIN req |-> Cycle!Active(req[i])]
<1>5. \A i \in Id \cap new : CellOf(i)' = to[i]
  BY <1>3
<1> HIDE DEF new, to
<1>6. Cycle!Move(new, to)
  BY <1>4, <1>5, MoveFromCells
<1>7. Cycle!Insert(req)
  BY <1>1, <1>6 DEF Cycle!Insert, Insert, to
<1>8. PICK S \in SUBSET Id : req \in [S -> Scores]
  BY DEF Requests
<1> QED BY <1>7, <1>8 DEF Cycle!Next

\* pullElements is a Pull of the cycle.
LEMMA PullRefines ==
  ASSUME Inv, Inv', NEW n \in PullSizes, NEW lo \in Limits, NEW hi \in Limits,
         NEW d \in AckDeadlines, PullMessages(n, lo, hi, d)
  PROVE  Cycle!Next
<1> DEFINE wait == IF d = 0 THEN DefaultTimeout ELSE d
           match == {i \in DOMAIN active : InRange(active[i], lo, hi)}
           S == FirstN(active, match, n)
           to == [i \in S |-> Cycle!Processing(now + wait)]
<1>1. S \subseteq match /\ match \subseteq DOMAIN active /\ S \in SUBSET Id
  BY SelectionSubset DEF Inv, TypeOK, IsZSet
<1>2. CellFacts /\ CellFacts'
  BY CellFactsHold, CellFactsAfter
<1>3. \A i \in DOMAIN active : i \in Id /\ CellOf(i).key = active[i]
  BY <1>2 DEF CellFacts, Cycle!Active, Inv, TypeOK, IsZSet
<1>4. \A i \in DOMAIN active : Cycle!InRange(CellOf(i).key, lo, hi) <=> i \in match
  BY <1>3 DEF Cycle!InRange, InRange
<1>5. \A i \in S : \A j \in match \ S : CellOf(i).key <= CellOf(j).key
  <2> SUFFICES ASSUME NEW i \in S, NEW j \in match \ S PROVE active[i] <= active[j]
    BY <1>1, <1>3
  <2>1. match \in SUBSET DOMAIN active /\ n \in Nat /\ IsZSet(active)
    BY InputAssumption DEF Inv, TypeOK
  <2> HIDE DEF match
  <2> QED BY <2>1, FirstNOrdered
<1>6. \A i \in Id \cap S : CellOf(i)' = to[i]
  <2>1. \A i \in S : i \in DOMAIN processing' /\ processing'[i] = now + wait
    BY DEF PullMessages, ZADD, Scored
  <2> QED BY <1>1, <1>2, <2>1 DEF CellFacts
<1>7. \A i \in Id \ S : CellOf(i)' = CellOf(i)
  <2> SUFFICES ASSUME NEW i \in Id \ S PROVE CellOf(i)' = CellOf(i)
    OBVIOUS
  <2>1. Agree(processing, processing', i)
    BY AddAgrees DEF PullMessages, Scored
  <2>2. Agree(active, active', i)
    BY RemoveAgrees DEF PullMessages
  <2>3. \A t \in LockTypes : Agree(lock[t], lock'[t], i) /\ Agree(lockScore[t], lockScore'[t], i)
    BY SameAgrees DEF PullMessages
  <2> QED BY <2>1, <2>2, <2>3, CellUnchanged
<1>8. now' = now
  BY DEF PullMessages
<1>9. [i \in Id |-> CellOf(i)'] = [i \in Id |-> IF i \in S THEN CellOf(i)' ELSE CellOf(i)]
  BY <1>7
<1> HIDE DEF S, to, match
<1>10. Cycle!Pull(S, lo, hi, wait)
  <2>1. \A i \in S : CellOf(i)' = Cycle!Processing(now + wait) /\ CellOf(i)'.key = now + wait
    BY <1>1, <1>6 DEF to, Cycle!Processing
  <2> QED BY <1>1, <1>3, <1>4, <1>5, <1>8, <1>9, <2>1, AtPlace DEF Cycle!Pull
<1> HIDE DEF wait
<1>11. wait \in {IF e = 0 THEN DefaultTimeout ELSE e : e \in AckDeadlines}
  BY DEF wait
<1> QED BY <1>1, <1>10, <1>11 DEF Cycle!Next

\* moveElement is a Return of the cycle, or changes nothing.
LEMMA MakeAvailableRefines ==
  ASSUME Inv, Inv', NEW i \in Id, NEW s \in Scores, MakeAvailable(i, s)
  PROVE  Cycle!Next \/ UNCHANGED Cycle!vars
<1>1. CASE i \notin DOMAIN processing
  <2>1. UNCHANGED <<active, processing, lock, lockScore, now>>
    BY <1>1 DEF MakeAvailable
  <2>2. \A j \in Id : CellOf(j)' = CellOf(j)
    BY <2>1, SameAgrees, CellUnchanged
  <2> QED BY <2>1, <2>2 DEF Cycle!vars
<1>2. CASE i \in DOMAIN processing
  <2>1. i \in DOMAIN active' /\ active'[i] = s
    BY <1>2 DEF MakeAvailable, ZADD, Scored
  <2>2. CellOf(i)' = Cycle!Active(s)
    BY <2>1, CellFactsAfter DEF CellFacts
  <2>3. \A j \in Id \ {i} : CellOf(j)' = CellOf(j)
    <3> SUFFICES ASSUME NEW j \in Id \ {i} PROVE CellOf(j)' = CellOf(j)
      OBVIOUS
    <3>1. Agree(active, active', j)
      BY <1>2, AddAgrees DEF MakeAvailable, Scored
    <3>2. Agree(processing, processing', j)
      BY <1>2, RemoveAgrees DEF MakeAvailable
    <3>3. \A t \in LockTypes : Agree(lock[t], lock'[t], j) /\ Agree(lockScore[t], lockScore'[t], j)
      BY SameAgrees DEF MakeAvailable
    <3> QED BY <3>1, <3>2, <3>3, CellUnchanged
  <2> DEFINE to == [j \in {i} |-> Cycle!Active(s)]
  <2>4. \A j \in Id \cap {i} : CellOf(j)' = to[j]
    BY <2>2
  <2> HIDE DEF to
  <2>5. Cycle!Move({i}, to)
    BY <2>3, <2>4, MoveFromCells
  <2>6. Cycle!Return(i, s)
    BY <1>2, <2>5, AtPlace DEF Cycle!Return, MakeAvailable, to
  <2> QED BY <2>6 DEF Cycle!Next
<1> QED BY <1>1, <1>2

\* lockElement is a Lock of the cycle, or changes nothing.
LEMMA LockMessageRefines ==
  ASSUME Inv, Inv', NEW i \in Id, NEW t \in LockTypes, NEW ms \in LockTimes,
         NEW s \in LockScores, LockMessage(i, t, ms, s)
  PROVE  Cycle!Next \/ UNCHANGED Cycle!vars
<1>1. CASE i \notin DOMAIN processing
  <2>1. UNCHANGED <<active, processing, lock, lockScore, now>>
    BY <1>1 DEF LockMessage
  <2>2. \A j \in Id : CellOf(j)' = CellOf(j)
    BY <2>1, SameAgrees, CellUnchanged
  <2> QED BY <2>1, <2>2 DEF Cycle!vars
<1>2. CASE i \in DOMAIN processing
  <2>1. i \notin DOMAIN lockScore[t]
    BY <1>2 DEF Inv, PoolsDisjoint, ScoresOnlyWhileLocked
  <2>2. i \in DOMAIN lock'[t] /\ lock'[t][i] = now + ms
    BY <1>2 DEF LockMessage, ZADD, Scored, Inv, TypeOK
  <2>3. (IF i \in DOMAIN lockScore'[t] THEN lockScore'[t][i] ELSE Undefined) = s
    <3>1. CASE s = Undefined
      BY <1>2, <2>1, <3>1 DEF LockMessage, KeepsScore
    <3>2. CASE s # Undefined
      BY <1>2, <3>2 DEF LockMessage, KeepsScore, ZADD, Scored, Inv, TypeOK
    <3> QED BY <3>1, <3>2
  <2>4. CellOf(i)' = Cycle!Locked(t, now + ms, s)
    BY <2>2, <2>3, CellFactsAfter DEF CellFacts
  <2>5. \A j \in Id \ {i} : CellOf(j)' = CellOf(j)
    <3> SUFFICES ASSUME NEW j \in Id \ {i} PROVE CellOf(j)' = CellOf(j)
      OBVIOUS
    <3>1. Agree(active, active', j)
      BY SameAgrees DEF LockMessage
    <3>2. Agree(processing, processing', j)
      BY <1>2, RemoveAgrees DEF LockMessage
    <3>3. ASSUME NEW u \in LockTypes PROVE Agree(lock[u], lock'[u], j)
      BY <1>2, AddAgrees, SameAgrees DEF LockMessage, Scored, Inv, TypeOK
    <3>4. ASSUME NEW u \in LockTypes PROVE Agree(lockScore[u], lockScore'[u], j)
      BY <1>2, AddAgrees, SameAgrees DEF LockMessage, Scored, Inv, TypeOK
    <3> QED BY <3>1, <3>2, <3>3, <3>4, CellUnchanged
  <2> DEFINE to == [j \in {i} |-> Cycle!Locked(t, now + ms, s)]
  <2>6. \A j \in Id \cap {i} : CellOf(j)' = to[j]
    BY <2>4
  <2> HIDE DEF to
  <2>7. Cycle!Move({i}, to)
    BY <2>5, <2>6, MoveFromCells
  <2>8. Cycle!Lock(i, t, ms, s)
    BY <1>2, <2>7, AtPlace DEF Cycle!Lock, LockMessage, to
  <2> QED BY <2>8 DEF Cycle!Next, Cycle!LockTypes, LockTypes
<1> QED BY <1>1, <1>2

\* unlockElements is an Unlock of the cycle.
LEMMA UnlockMessagesRefines ==
  ASSUME Inv, Inv', NEW t \in LockTypes, UnlockMessages(t)
  PROVE  Cycle!Next
<1> DEFINE S == Expired(lock[t])
           Score(i) == IF CellOf(i).ret = Undefined THEN DefaultScore(t) ELSE CellOf(i).ret
           to == [i \in S |-> Cycle!Active(Score(i))]
<1>1. S \subseteq DOMAIN lock[t] /\ S \in SUBSET Id /\ \A i \in S : lock[t][i] <= now
  BY ExpiredSubset DEF Inv, TypeOK, IsZSet
<1>2. \A i \in S : /\ CellOf(i).key = lock[t][i]
                   /\ CellOf(i).ret = IF i \in DOMAIN lockScore[t] THEN lockScore[t][i] ELSE Undefined
  BY <1>1, CellFactsHold DEF CellFacts, Cycle!Locked
<1>3. \A i \in S : UnlockScore(i, t) = Score(i)
  BY <1>2 DEF UnlockScore, Inv, TypeOK
<1>4. \A i \in Id \cap S : CellOf(i)' = to[i]
  <2>1. \A i \in S : i \in DOMAIN active' /\ active'[i] = UnlockScore(i, t)
    BY DEF UnlockMessages, ZADD
  <2> HIDE DEF S, Score
  <2> QED BY <1>1, <1>3, <2>1, CellFactsAfter DEF CellFacts
<1>5. \A i \in Id \ S : CellOf(i)' = CellOf(i)
  <2> SUFFICES ASSUME NEW i \in Id \ S PROVE CellOf(i)' = CellOf(i)
    OBVIOUS
  <2>1. Agree(active, active', i)
    BY AddAgrees DEF UnlockMessages
  <2>2. Agree(processing, processing', i)
    BY SameAgrees DEF UnlockMessages
  <2> HIDE DEF S
  <2>3. ASSUME NEW u \in LockTypes PROVE Agree(lock[u], lock'[u], i)
    BY RemoveAgrees, SameAgrees DEF UnlockMessages, Inv, TypeOK, S
  <2>4. ASSUME NEW u \in LockTypes PROVE Agree(lockScore[u], lockScore'[u], i)
    BY RemoveAgrees, SameAgrees DEF UnlockMessages, ScoresKept, Inv, TypeOK, S
  <2> QED BY <2>1, <2>2, <2>3, <2>4, CellUnchanged
<1>6. now' = now
  BY DEF UnlockMessages
<1>7. Cycle!Move(S, to)
  <2> HIDE DEF S, to
  <2> QED BY <1>4, <1>5, MoveFromCells
<1>8. Cycle!Unlock(S, t)
  <2>1. S \subseteq {i \in Cycle!At(t) : CellOf(i).key <= now}
    BY <1>1, <1>2, AtPlace
  <2>2. Cycle!DefaultScore(t) = DefaultScore(t) /\ Cycle!Undefined = Undefined
    BY DEF Cycle!DefaultScore, DefaultScore, Cycle!Min, Min, Cycle!Undefined, Undefined
  <2> HIDE DEF S
  <2>3. to = [i \in S |-> Cycle!Active(IF [j \in Id |-> CellOf(j)][i].ret = Cycle!Undefined
                 THEN Cycle!DefaultScore(t) ELSE [j \in Id |-> CellOf(j)][i].ret)]
    BY <1>1, <2>2
  <2> HIDE DEF to
  <2> QED BY <1>1, <1>6, <1>7, <2>1, <2>3 DEF Cycle!Unlock
<1> HIDE DEF S
<1> QED BY <1>1, <1>8 DEF Cycle!Next, Cycle!LockTypes, LockTypes

\* moveFilteredElements is a Timeout of the cycle.
LEMMA TimeoutMessagesRefines == ASSUME Inv, Inv', TimeoutMessages PROVE Cycle!Next
<1> DEFINE S == Expired(processing)
           to == [i \in S |-> Cycle!Active(Cycle!Min)]
<1>1. S \subseteq DOMAIN processing /\ S \in SUBSET Id /\ \A i \in S : processing[i] <= now
  BY ExpiredSubset DEF Inv, TypeOK, IsZSet
<1>2. \A i \in S : CellOf(i).key = processing[i]
  BY <1>1, CellFactsHold DEF CellFacts, Cycle!Processing
<1>3. \A i \in Id \cap S : CellOf(i)' = to[i]
  <2>1. \A i \in S : i \in DOMAIN active' /\ active'[i] = Cycle!Min
    BY DEF TimeoutMessages, ZADD, Scored, Min, Cycle!Min
  <2> HIDE DEF S
  <2> QED BY <1>1, <2>1, CellFactsAfter DEF CellFacts
<1>4. \A i \in Id \ S : CellOf(i)' = CellOf(i)
  <2> SUFFICES ASSUME NEW i \in Id \ S PROVE CellOf(i)' = CellOf(i)
    OBVIOUS
  <2>1. Agree(active, active', i)
    BY AddAgrees DEF TimeoutMessages, Scored
  <2>2. Agree(processing, processing', i)
    BY RemoveAgrees DEF TimeoutMessages
  <2>3. \A t \in LockTypes : Agree(lock[t], lock'[t], i) /\ Agree(lockScore[t], lockScore'[t], i)
    BY SameAgrees DEF TimeoutMessages
  <2> QED BY <2>1, <2>2, <2>3, CellUnchanged
<1>5. now' = now
  BY DEF TimeoutMessages
<1>6. S \subseteq {i \in Cycle!At("processing") : CellOf(i).key <= now}
  BY <1>1, <1>2, AtPlace
<1> HIDE DEF S, to
<1>7. Cycle!Move(S, to)
  BY <1>3, <1>4, MoveFromCells
<1>8. Cycle!Timeout(S)
  BY <1>1, <1>5, <1>6, <1>7 DEF Cycle!Timeout, to
<1> QED BY <1>1, <1>8 DEF Cycle!Next

\* removeElement is a Remove of the cycle.
LEMMA RemoveRefines == ASSUME Inv, Inv', NEW S \in SUBSET Id, Remove(S) PROVE Cycle!Next
<1> DEFINE to == [i \in S |-> Cycle!None]
<1>1. \A i \in Id \cap S : CellOf(i)' = to[i]
  <2>1. \A i \in S : i \notin Present'
    BY DEF Remove, ZREM, Present, LockTypes
  <2> QED BY <2>1, CellFactsAfter DEF CellFacts
<1>2. \A i \in Id \ S : CellOf(i)' = CellOf(i)
  <2> SUFFICES ASSUME NEW i \in Id \ S PROVE CellOf(i)' = CellOf(i)
    OBVIOUS
  <2>1. Agree(active, active', i) /\ Agree(processing, processing', i)
    BY RemoveAgrees DEF Remove
  <2>2. \A t \in LockTypes : Agree(lock[t], lock'[t], i) /\ Agree(lockScore[t], lockScore'[t], i)
    BY RemoveAgrees DEF Remove
  <2> QED BY <2>1, <2>2, CellUnchanged
<1> HIDE DEF to
<1>3. Cycle!Move(S, to)
  BY <1>1, <1>2, MoveFromCells
<1>4. Cycle!Remove(S)
  BY <1>3 DEF Cycle!Remove, Remove, to
<1> QED BY <1>4 DEF Cycle!Next

\* Losing all keys is a Remove of every message.
LEMMA ClearRefines == ASSUME Inv', Clear PROVE Cycle!Next
<1> DEFINE to == [i \in Id |-> Cycle!None]
<1>1. \A i \in Id \cap Id : CellOf(i)' = to[i]
  <2>1. \A i \in Id : i \notin Present'
    BY DEF Clear, Empty, Present, LockTypes
  <2> QED BY <2>1, CellFactsAfter DEF CellFacts
<1> HIDE DEF to
<1>2. Cycle!Move(Id, to)
  BY <1>1, MoveFromCells
<1>3. Cycle!Remove(Id)
  BY <1>2 DEF Cycle!Remove, Clear, to
<1> QED BY <1>3 DEF Cycle!Next

\* A tick of the cache is a tick of the cycle.
LEMMA TickRefines == ASSUME Tick PROVE Cycle!Next
<1>1. \A j \in Id : CellOf(j)' = CellOf(j)
  BY SameAgrees, CellUnchanged DEF Tick, pools
<1>2. Cycle!Tick
  BY <1>1 DEF Cycle!Tick, Tick
<1> QED BY <1>2 DEF Cycle!Next

-----------------------------------------------------------------------------
\* Every behaviour of the Redis cache is a behaviour of the message cycle: a
\* message is handed out in score order, is never taken from a worker or out of
\* a lock before its time, and returns with the score the last lock asked for.
THEOREM Refinement == Spec => ImplementsMessageCycle
<1>1. Init => Cycle!Init
  <2>1. Init => \A i \in Id : CellOf(i) = Cycle!None
    BY DEF Init, CellOf, Place, Empty, LockTypes, Cycle!None, Cycle!Undefined, Undefined
  <2> QED BY <2>1 DEF Init, Cycle!Init
<1>2. Inv /\ Inv' /\ [Next]_vars => [Cycle!Next]_(Cycle!vars)
  <2> SUFFICES ASSUME Inv, Inv', [Next]_vars PROVE Cycle!Next \/ UNCHANGED Cycle!vars
    BY DEF Cycle!vars
  <2>1. CASE UNCHANGED vars
    <3>1. \A j \in Id : CellOf(j)' = CellOf(j)
      BY <2>1, SameAgrees, CellUnchanged DEF vars
    <3> QED BY <2>1, <3>1 DEF vars, Cycle!vars
  <2> QED
    BY <2>1, InsertRefines, PullRefines, MakeAvailableRefines, LockMessageRefines,
       UnlockMessagesRefines, TimeoutMessagesRefines, RemoveRefines, ClearRefines, TickRefines
    DEF Next
<1> QED
  BY <1>1, <1>2, InitInv, NextInv, PTL DEF Spec, ImplementsMessageCycle, Cycle!Spec
=============================================================================
