--------------------------- MODULE RecoveryProofs ---------------------------
(***************************************************************************)
(* The recovery, for any number of processes and messages: what a batch    *)
(* leaves behind, the types, completeness and the end of its running mark. *)
(***************************************************************************)
EXTENDS Recovery, FiniteSetTheorems, WellFoundedInduction, TLAPS

-----------------------------------------------------------------------------
(* Batches *)

\* Every set of _ids has a first one.
LEMMA HasFirst ==
  ASSUME NEW S \in SUBSET Nat, S # {}
  PROVE  \E m \in S : \A k \in S : m <= k
<1> DEFINE R == OpToRel(<, Nat)
<1>1. IsWellFoundedOn(R, Nat)
  BY NatLessThanWellFounded
<1> HIDE DEF R
<1>2. PICK m \in S : \A k \in S : <<k, m>> \notin R
  BY <1>1, WFMin, Zenon
<1>3. \A k \in S : k < m => <<k, m>> \in R
  BY DEF R, OpToRel
<1>4. ASSUME NEW k \in S PROVE m <= k
  <2>1. k \in Nat /\ m \in Nat
    OBVIOUS
  <2>2. ~(k < m)
    BY <1>2, <1>3, Zenon
  <2> QED BY <2>1, <2>2
<1> QED BY <1>4

\* Last is the last of a set of _ids.
LEMMA LastIsLast ==
  ASSUME NEW N \in Nat, NEW S \in SUBSET (1..N), S # {}
  PROVE  Last(S) \in S /\ \A k \in S : k <= Last(S)
<1> DEFINE T == {N - k : k \in S}
<1>1. \A k \in S : k \in Nat /\ N - k \in Nat
  OBVIOUS
<1>2. T \in SUBSET Nat /\ T # {}
  BY <1>1, Zenon
<1>3. PICK d \in T : \A e \in T : d <= e
  BY <1>2, HasFirst, Zenon
<1>4. PICK m \in S : d = N - m
  BY <1>3
<1>5. \A k \in S : N - m <= N - k
  BY <1>3, <1>4, Zenon
<1>6. \A k \in S : k <= m
  BY <1>1, <1>5
<1> QED BY <1>6, Zenon DEF Last

\* The messages of the storage are finitely many.
LEMMA FiniteIds ==
  ASSUME NEW N \in Nat, NEW S \in SUBSET (1..N)
  PROVE  IsFiniteSet(S) /\ Cardinality(S) \in Nat
<1>1. IsFiniteSet(1..N)
  BY FS_Interval
<1>2. IsFiniteSet(S)
  BY <1>1, FS_Subset, Zenon
<1> QED BY <1>2, FS_CardinalityType

\* What a Find leaves out comes after all it returns; it returns something if
\* there is anything, and everything if it returns less than a batch.
LEMMA FirstNTakesFirst ==
  ASSUME NEW N \in Nat, NEW S \in SUBSET (1..N)
  PROVE  /\ FirstN(S) \subseteq S
         /\ \A m \in S \ FirstN(S), k \in FirstN(S) : k < m
         /\ S # {} => FirstN(S) # {}
         /\ Cardinality(FirstN(S)) < BatchSize => FirstN(S) = S
<1> DEFINE Below(m) == {k \in S : k < m}
<1>0. \A m \in S : m \in Nat
  OBVIOUS
<1>1. \A m \in S : Below(m) \in SUBSET (1..N)
  BY Zenon
<1>2. \A m \in S : IsFiniteSet(Below(m)) /\ Cardinality(Below(m)) \in Nat
  BY <1>1, FiniteIds, Zenon
<1>3. \A m \in S : m \in FirstN(S) <=> Cardinality(Below(m)) < BatchSize
  BY DEF FirstN
<1>4. FirstN(S) \subseteq S
  BY DEF FirstN
<1>5. \A m, k \in S : m <= k => Cardinality(Below(m)) <= Cardinality(Below(k))
  <2> SUFFICES ASSUME NEW m \in S, NEW k \in S, m <= k
               PROVE  Cardinality(Below(m)) <= Cardinality(Below(k))
    OBVIOUS
  <2>1. Below(m) \in SUBSET Below(k)
    <3> SUFFICES ASSUME NEW e \in S, e < m PROVE e < k
      BY Zenon
    <3>1. e \in Nat /\ m \in Nat /\ k \in Nat
      BY <1>0
    <3> QED BY <3>1
  <2> HIDE DEF Below
  <2> QED BY <2>1, <1>2, FS_Subset
<1> HIDE DEF Below
<1>6. ASSUME NEW m \in S \ FirstN(S), NEW k \in FirstN(S) PROVE k < m
  <2>1. k \in S /\ k \in Nat /\ m \in Nat
    BY <1>0, <1>4, Zenon
  <2>2. ~(m <= k)
    BY <2>1, <1>2, <1>3, <1>5, BoundAssumption
  <2> QED BY <2>1, <2>2
<1>7. ASSUME S # {} PROVE FirstN(S) # {}
  <2>1. PICK m \in S : \A k \in S : m <= k
    BY <1>0, <1>7, HasFirst
  <2>2. Below(m) = {}
    <3> SUFFICES ASSUME NEW k \in S, k < m PROVE FALSE
      BY Zenon DEF Below
    <3>1. k \in Nat /\ m \in Nat /\ m <= k
      BY <1>0, <2>1
    <3> QED BY <3>1
  <2>3. Cardinality(Below(m)) = 0
    BY <2>2, FS_EmptySet
  <2> QED BY <2>3, <1>3, BoundAssumption
<1>8. ASSUME Cardinality(FirstN(S)) < BatchSize, FirstN(S) # S PROVE FALSE
  <2>1. S \ FirstN(S) # {} /\ S \ FirstN(S) \in SUBSET Nat
    BY <1>0, <1>4, <1>8, Zenon
  <2>2. PICK m \in S \ FirstN(S) : \A k \in S \ FirstN(S) : m <= k
    BY <2>1, HasFirst, Zenon
  <2>3. Below(m) \in SUBSET FirstN(S)
    <3> SUFFICES ASSUME NEW k \in S, k < m, k \notin FirstN(S) PROVE FALSE
      BY Zenon DEF Below
    <3>1. k \in Nat /\ m \in Nat /\ m <= k
      BY <1>0, <2>2
    <3> QED BY <3>1
  <2>4. IsFiniteSet(FirstN(S)) /\ Cardinality(FirstN(S)) \in Nat
    BY <1>4, FiniteIds, Zenon
  <2>5. Cardinality(Below(m)) <= Cardinality(FirstN(S))
    BY <2>3, <2>4, FS_Subset
  <2> QED BY <2>4, <2>5, <1>2, <1>3, <1>8, BoundAssumption
<1> QED BY <1>4, <1>6, <1>7, <1>8

-----------------------------------------------------------------------------
(* Types *)

\* A pass inserts, and takes its new breakpoint from, something it has found.
BatchFound == \A n \in Node : step[n] \in {"insert", "setBreakpoint"} => batch[n] # {}

\* A process without a pass has no local variables.
IdleIsClean ==
  \A n \in Node : step[n] = "idle" => breakpoint[n] = Unset /\ limit[n] = Unset

Base == TypeOK /\ BatchFound /\ IdleIsClean

\* A first start: nothing is cached, and no key is set.
LEMMA BaseInit == Init => Base
<1> SUFFICES ASSUME Init PROVE Base
  OBVIOUS
<1>1. lastId \in 0..MaxInitial
  BY DEF Init
<1>2. lastId \in 0..MaxId
  BY <1>1, BoundAssumption
<1>3. step \in [Node -> Steps]
  BY DEF Init, Steps
<1>4. /\ breakpoint \in [Node -> 1..lastId \cup {Unset}]
      /\ limit \in [Node -> 1..lastId \cup {Unset}]
      /\ batch \in [Node -> SUBSET (1..lastId)]
  BY DEF Init
<1>5. /\ stored \subseteq 1..lastId /\ shown \subseteq 1..lastId
      /\ cached \subseteq 1..lastId /\ adding \subseteq 1..lastId
  BY DEF Init
<1>6. /\ running \in {"", "true", "false"}
      /\ storageBreakpoint \in 1..lastId \cup {Unset, Finished}
      /\ recoveryBreakpoint \in 1..lastId \cup {Unset}
      /\ spoiled \in BOOLEAN /\ cut \in BOOLEAN
  BY DEF Init
<1>7. clears \in 0..MaxClears
  <2>1. clears = 0
    BY DEF Init
  <2> QED BY <2>1, BoundAssumption
<1>8. TypeOK
  BY <1>2, <1>3, <1>4, <1>5, <1>6, <1>7 DEF TypeOK
<1> QED BY <1>8 DEF Init, Base, BatchFound, IdleIsClean

\* An _id is a number.
LEMMA TypeOfLastId == Base => lastId \in Nat
<1> SUFFICES ASSUME Base PROVE lastId \in Nat
  OBVIOUS
<1>1. lastId \in 0..MaxId
  BY DEF Base, TypeOK
<1> QED BY <1>1, BoundAssumption

\* The local variables of a pass after a step of it.
Moves(n, s, b, l, S) ==
  /\ Goto(n, s)
  /\ breakpoint' = [breakpoint EXCEPT ![n] = b]
  /\ limit' = [limit EXCEPT ![n] = l]
  /\ batch' = [batch EXCEPT ![n] = S]

\* A variable that a step leaves alone is set to what it was.
LEMMA Kept ==
  ASSUME Base, NEW n \in Node
  PROVE  /\ UNCHANGED breakpoint => breakpoint' = [breakpoint EXCEPT ![n] = breakpoint[n]]
         /\ UNCHANGED limit => limit' = [limit EXCEPT ![n] = limit[n]]
         /\ UNCHANGED batch => batch' = [batch EXCEPT ![n] = batch[n]]
         /\ breakpoint[n] \in 1..lastId \cup {Unset} /\ limit[n] \in 1..lastId \cup {Unset}
         /\ batch[n] \in SUBSET (1..lastId) /\ step[n] \in Steps
  BY DEF Base, TypeOK

\* What a step of a pass does to the local variables of all processes.
LEMMA MovesEffect ==
  ASSUME Base, NEW n \in Node, NEW s, NEW b, NEW l, NEW S, Moves(n, s, b, l, S)
  PROVE  /\ step'[n] = s /\ breakpoint'[n] = b /\ limit'[n] = l /\ batch'[n] = S
         /\ \A k \in Node \ {n} : /\ step'[k] = step[k] /\ breakpoint'[k] = breakpoint[k]
                                 /\ limit'[k] = limit[k] /\ batch'[k] = batch[k]
  BY DEF Base, TypeOK, Moves, Goto

\* What a step of a pass does to the shared variables has their types.
SharedTyped ==
  /\ UNCHANGED <<stored, shown, lastId, adding, clears>>
  /\ cached' \in SUBSET (1..lastId)
  /\ running' \in {"", "true", "false"}
  /\ storageBreakpoint' \in 1..lastId \cup {Unset, Finished}
  /\ recoveryBreakpoint' \in 1..lastId \cup {Unset}
  /\ spoiled' \in BOOLEAN /\ cut' \in BOOLEAN

\* Local variables that a pass may have.
LocalsTyped(s, b, l, S) ==
  /\ s \in Steps
  /\ b \in 1..lastId \cup {Unset} /\ l \in 1..lastId \cup {Unset}
  /\ S \in SUBSET (1..lastId)
  /\ s \in {"insert", "setBreakpoint"} => S # {}
  /\ s = "idle" => b = Unset /\ l = Unset

\* A step of a pass keeps the types if what it sets has them.
LEMMA MovesBase ==
  ASSUME Base, NEW n \in Node, SharedTyped, NEW s, NEW b, NEW l, NEW S,
         LocalsTyped(s, b, l, S), Moves(n, s, b, l, S)
  PROVE  Base'
<1>1. step' \in [Node -> Steps]
  BY DEF Base, TypeOK, Moves, Goto, LocalsTyped
<1>2. /\ breakpoint' \in [Node -> 1..lastId \cup {Unset}]
      /\ limit' \in [Node -> 1..lastId \cup {Unset}]
      /\ batch' \in [Node -> SUBSET (1..lastId)]
  BY DEF Base, TypeOK, Moves, LocalsTyped
<1>3. TypeOK'
  BY <1>1, <1>2 DEF Base, TypeOK, SharedTyped
<1> DEFINE Fits(s_, b_, l_, S_) == /\ s_ \in {"insert", "setBreakpoint"} => S_ # {}
                                   /\ s_ = "idle" => b_ = Unset /\ l_ = Unset
<1>4. /\ step'[n] = s /\ breakpoint'[n] = b /\ limit'[n] = l /\ batch'[n] = S
      /\ \A k \in Node \ {n} : /\ step'[k] = step[k] /\ breakpoint'[k] = breakpoint[k]
                              /\ limit'[k] = limit[k] /\ batch'[k] = batch[k]
  BY MovesEffect
<1>5. ASSUME NEW k \in Node PROVE Fits(step'[k], breakpoint'[k], limit'[k], batch'[k])
  <2>1. CASE k = n
    BY <2>1, <1>4 DEF LocalsTyped
  <2>2. CASE k # n
    BY <2>2, <1>4 DEF Base, BatchFound, IdleIsClean
  <2> QED BY <2>1, <2>2
<1>6. BatchFound'
  BY <1>5 DEF BatchFound
<1>7. IdleIsClean'
  BY <1>5 DEF IdleIsClean
<1> QED BY <1>3, <1>6, <1>7 DEF Base

-----------------------------------------------------------------------------
(* Completeness *)

\* The messages only the storage has, which a recovery has to bring back.
Lost == (stored \ adding) \ cached

\* What a pass knows of the lost messages L when it is about to take step s, with
\* its breakpoint b, its limit l and its batch S: they come after b, up to l, and
\* are in the batch or, if that is full, after it.
Knows(L, s, b, l, S) ==
  /\ \A m \in L : b < m
  /\ l # Unset => \A m \in L : m <= l
  /\ s \in {"finishRunning", "finishBreakpoint", "emptyFinished"} => L = {}
  /\ s = "insert" =>
       \A m \in L : m \in S \/ (~(Cardinality(S) < BatchSize) /\ \A k \in S : k < m)
  /\ s = "setBreakpoint" =>
       \A m \in L : ~(Cardinality(S) < BatchSize) /\ \A k \in S : k < m

\* What the keys say of the lost messages.
KeysKnow(L) ==
  /\ storageBreakpoint = Finished => L = {}
  /\ \A m \in L : storageBreakpoint < m
  /\ recoveryBreakpoint # Unset => \A m \in L : m <= recoveryBreakpoint

Complete ==
  ~spoiled => /\ KeysKnow(Lost)
              /\ \A n \in Node : Knows(Lost, step[n], breakpoint[n], limit[n], batch[n])

\* It is right about fewer lost messages, too.
LEMMA KnowsLess ==
  ASSUME NEW L, NEW K \in SUBSET L, NEW s, NEW b, NEW l, NEW S, Knows(L, s, b, l, S)
  PROVE  Knows(K, s, b, l, S)
  BY DEF Knows

\* A step of a pass after which its own process and the keys are right.
LEMMA MovesComplete ==
  ASSUME Base, Complete, NEW n \in Node, NEW s, NEW b, NEW l, NEW S, Moves(n, s, b, l, S),
         ~spoiled' => ~spoiled, Lost' \subseteq Lost,
         ~spoiled' => KeysKnow(Lost)' /\ Knows(Lost', s, b, l, S)
  PROVE  Complete'
<1>1. /\ step'[n] = s /\ breakpoint'[n] = b /\ limit'[n] = l /\ batch'[n] = S
      /\ \A k \in Node \ {n} : /\ step'[k] = step[k] /\ breakpoint'[k] = breakpoint[k]
                              /\ limit'[k] = limit[k] /\ batch'[k] = batch[k]
  BY MovesEffect
<1> SUFFICES ASSUME ~spoiled', NEW k \in Node
             PROVE  Knows(Lost', step'[k], breakpoint'[k], limit'[k], batch'[k])
  BY DEF Complete
<1>2. CASE k = n
  BY <1>1, <1>2
<1>3. CASE k # n
  <2>1. Knows(Lost, step[k], breakpoint[k], limit[k], batch[k])
    BY DEF Complete
  <2> QED BY <1>1, <1>3, <2>1, KnowsLess
<1> QED BY <1>2, <1>3

\* What is stored is an _id that was given out, which comes after no breakpoint.
LEMMA StoredIsLater == Base => \A m \in stored : Unset < m
<1> SUFFICES ASSUME Base, NEW m \in stored PROVE 0 < m
  BY DEF Unset
<1>1. m \in 1..lastId
  BY DEF Base, TypeOK
<1> QED BY <1>1

\* So is what is lost.
LEMMA LostIsLater == Base => \A m \in Lost : Unset < m
  BY StoredIsLater DEF Lost

\* Without a message found missing on the secondary, all that is lost shows there.
LEMMA LostIsShown == Missed = {} => Lost \subseteq shown
  BY DEF Missed, Lost

-----------------------------------------------------------------------------
(* Steps of a pass *)

\* A pass that ends.
LEMMA ReturnMoves ==
  ASSUME NEW n \in Node, Return(n) PROVE Moves(n, "idle", Unset, Unset, {})
  BY DEF Return, Moves

\* The steps of a pass keep the types, and what the passes and the keys know.
LEMMA PassKeeps ==
  ASSUME Base, NEW n \in Node, Pass(n)
  PROVE  Base' /\ (Complete => Complete')
<1>0. TypeOK /\ lastId \in Nat
  BY TypeOfLastId DEF Base
<1>kept. /\ UNCHANGED breakpoint => breakpoint' = [breakpoint EXCEPT ![n] = breakpoint[n]]
         /\ UNCHANGED limit => limit' = [limit EXCEPT ![n] = limit[n]]
         /\ UNCHANGED batch => batch' = [batch EXCEPT ![n] = batch[n]]
         /\ breakpoint[n] \in 1..lastId \cup {Unset} /\ limit[n] \in 1..lastId \cup {Unset}
         /\ batch[n] \in SUBSET (1..lastId) /\ step[n] \in Steps
  BY Kept
<1>known. Complete /\ ~spoiled =>
           /\ KeysKnow(Lost)
           /\ Knows(Lost, step[n], breakpoint[n], limit[n], batch[n])
  BY DEF Complete
<1>1. CASE GetStorageBreakpoint(n)
  <2>1. Moves(n, "getRunning", storageBreakpoint, limit[n], batch[n])
    BY <1>1, <1>kept DEF GetStorageBreakpoint, Moves
  <2>2. storageBreakpoint \in 1..lastId \cup {Unset}
    BY <1>0, <1>1 DEF GetStorageBreakpoint, TypeOK
  <2>3. cut' \in BOOLEAN /\ UNCHANGED <<messages, keys, clears, spoiled>>
    BY <1>0, <1>1 DEF GetStorageBreakpoint, TypeOK
  <2>b. Base'
    <3>1. SharedTyped
      BY <1>0, <2>3 DEF SharedTyped, TypeOK, messages, keys
    <3>2. LocalsTyped("getRunning", storageBreakpoint, limit[n], batch[n])
      BY <1>kept, <2>2 DEF LocalsTyped, Steps
    <3> QED BY <2>1, <3>1, <3>2, MovesBase
  <2>c. ASSUME Complete PROVE Complete'
    <3>1. Lost' = Lost /\ (KeysKnow(Lost) => KeysKnow(Lost)')
      BY <2>3 DEF KeysKnow, Lost, messages, keys
    <3>2. ~spoiled => Knows(Lost, "getRunning", storageBreakpoint, limit[n], batch[n])
      BY <1>known, <2>c DEF Knows, KeysKnow
    <3> QED BY <1>known, <2>1, <2>3, <2>c, <3>1, <3>2, MovesComplete
  <2> QED BY <2>b, <2>c
<1>2. CASE isRecovering(n)
  <2>1. PICK s \in {"startRunning", "getBreakpoint"} :
          Moves(n, s, breakpoint[n], limit[n], batch[n])
    BY <1>2, <1>kept DEF isRecovering, Moves
  <2>2. UNCHANGED <<messages, keys, clears, spoiled, cut>>
    BY <1>2 DEF isRecovering
  <2>3. s \in Steps /\ s \notin {"insert", "setBreakpoint", "idle"}
    BY DEF Steps
  <2>b. Base'
    <3>1. SharedTyped
      BY <1>0, <2>2 DEF SharedTyped, TypeOK, messages, keys
    <3>2. LocalsTyped(s, breakpoint[n], limit[n], batch[n])
      BY <1>kept, <2>3 DEF LocalsTyped
    <3> QED BY <2>1, <3>1, <3>2, MovesBase
  <2>c. ASSUME Complete PROVE Complete'
    <3>1. Lost' = Lost /\ (KeysKnow(Lost) => KeysKnow(Lost)')
      BY <2>2 DEF KeysKnow, Lost, messages, keys
    <3>2. ~spoiled => Knows(Lost, s, breakpoint[n], limit[n], batch[n])
      BY <1>known, <2>c DEF Knows, KeysKnow
    <3> QED BY <1>known, <2>1, <2>2, <2>c, <3>1, <3>2, MovesComplete
  <2> QED BY <2>b, <2>c
<1>3. CASE GetRecoveryBreakpoint(n)
  <2>1. Moves(n, "find", breakpoint[n], recoveryBreakpoint, batch[n])
    BY <1>3, <1>kept DEF GetRecoveryBreakpoint, Moves
  <2>2. UNCHANGED <<messages, keys, clears, spoiled, cut>>
    BY <1>3 DEF GetRecoveryBreakpoint
  <2>b. Base'
    <3>1. SharedTyped
      BY <1>0, <2>2 DEF SharedTyped, TypeOK, messages, keys
    <3>2. LocalsTyped("find", breakpoint[n], recoveryBreakpoint, batch[n])
      BY <1>0, <1>kept DEF LocalsTyped, Steps, TypeOK
    <3> QED BY <2>1, <3>1, <3>2, MovesBase
  <2>c. ASSUME Complete PROVE Complete'
    <3>1. Lost' = Lost /\ (KeysKnow(Lost) => KeysKnow(Lost)')
      BY <2>2 DEF KeysKnow, Lost, messages, keys
    <3>2. ~spoiled => Knows(Lost, "find", breakpoint[n], recoveryBreakpoint, batch[n])
      BY <1>known, <2>c DEF Knows, KeysKnow
    <3> QED BY <1>known, <2>1, <2>2, <2>c, <3>1, <3>2, MovesComplete
  <2> QED BY <2>b, <2>c
<1>4. CASE Find(n)
  <2> DEFINE found == FirstN({m \in shown : InWindow(m, n)})
  <2>1. found \in SUBSET (1..lastId)
    BY <1>0 DEF TypeOK, FirstN
  <2> HIDE DEF found
  <2>2. PICK s \in {"finishRunning", "insert"} :
          /\ Moves(n, s, breakpoint[n], limit[n], found)
          /\ s = "insert" => found # {}
    BY <1>4, <1>kept, Zenon DEF Find, Moves, found
  <2>3. spoiled' \in BOOLEAN /\ UNCHANGED <<messages, keys, clears, cut>>
    BY <1>0, <1>4 DEF Find, TypeOK
  <2>4. s \in Steps /\ (s \in {"insert", "setBreakpoint"} => found # {}) /\ s # "idle"
    BY <2>2 DEF Steps
  <2>b. Base'
    <3>1. SharedTyped
      BY <1>0, <2>3 DEF SharedTyped, TypeOK, messages, keys
    <3>2. LocalsTyped(s, breakpoint[n], limit[n], found)
      BY <1>kept, <2>1, <2>4 DEF LocalsTyped
    <3> QED BY <2>2, <3>1, <3>2, MovesBase
  <2>c. ASSUME Complete PROVE Complete'
    <3>1. Lost' = Lost /\ (KeysKnow(Lost) => KeysKnow(Lost)')
      BY <2>3 DEF KeysKnow, Lost, messages, keys
    <3>2. ~spoiled' => ~spoiled /\ Missed = {}
      BY <1>4, Zenon DEF Find
    <3>3. ASSUME ~spoiled' PROVE Knows(Lost, s, breakpoint[n], limit[n], found)
      <4> DEFINE W == {m \in shown : InWindow(m, n)}
      <4>1. Knows(Lost, step[n], breakpoint[n], limit[n], batch[n])
        BY <1>known, <2>c, <3>2, <3>3
      <4>2. Lost \subseteq W
        BY <3>2, <3>3, <4>1, LostIsShown DEF Knows, InWindow
      <4>3. W \in SUBSET (1..lastId)
        BY <1>0 DEF TypeOK
      <4> HIDE DEF W
      <4>4. /\ \A m \in W \ found, k \in found : k < m
            /\ W # {} => found # {}
            /\ Cardinality(found) < BatchSize => found = W
        BY <1>0, <4>3, FirstNTakesFirst, Zenon DEF found, W
      <4>5. s = "finishRunning" => found = {}
        BY <1>4, <2>2, MovesEffect DEF Find, Goto, found, Base, TypeOK
      <4> QED BY <2>2, <4>1, <4>2, <4>4, <4>5 DEF Knows
    <3> QED BY <1>known, <2>2, <2>c, <3>1, <3>2, <3>3, MovesComplete
  <2> QED BY <2>b, <2>c
<1>5. CASE InsertBatch(n)
  <2>1. Moves(n, "setBreakpoint", breakpoint[n], limit[n], batch[n])
    BY <1>5, <1>kept DEF InsertBatch, Moves
  <2>2. batch[n] # {}
    BY <1>5 DEF InsertBatch, Base, BatchFound
  <2>3. /\ cached' = cached \cup batch[n]
        /\ UNCHANGED <<stored, shown, lastId, adding, keys, clears, spoiled, cut>>
    BY <1>5 DEF InsertBatch
  <2>4. cached' \in SUBSET (1..lastId)
    BY <1>0, <1>kept, <2>3 DEF TypeOK
  <2>b. Base'
    <3>1. SharedTyped
      BY <1>0, <2>3, <2>4 DEF SharedTyped, TypeOK, keys
    <3>2. LocalsTyped("setBreakpoint", breakpoint[n], limit[n], batch[n])
      BY <1>kept, <2>2 DEF LocalsTyped, Steps
    <3> QED BY <2>1, <3>1, <3>2, MovesBase
  <2>c. ASSUME Complete PROVE Complete'
    <3>1. Lost' = Lost \ batch[n]
      BY <2>3 DEF Lost
    <3>2. KeysKnow(Lost) => KeysKnow(Lost)'
      BY <2>3, <3>1 DEF KeysKnow, keys
    <3>3. ~spoiled => Knows(Lost', "setBreakpoint", breakpoint[n], limit[n], batch[n])
      BY <1>5, <1>known, <2>c, <3>1 DEF Knows, InsertBatch
    <3> QED BY <1>known, <2>1, <2>3, <2>c, <3>1, <3>2, <3>3, MovesComplete
  <2> QED BY <2>b, <2>c
<1>6. CASE SetStorageBreakpoint(n)
  <2>1. PICK s \in {"finishRunning", "idle"}, b \in {breakpoint[n], Unset},
             l \in {limit[n], Unset}, S \in {batch[n], {}} :
          /\ Moves(n, s, b, l, S)
          /\ s = "idle" => b = Unset /\ l = Unset
          /\ s = "finishRunning" => Cardinality(batch[n]) < BatchSize
    BY <1>6, <1>kept, ReturnMoves DEF SetStorageBreakpoint, Moves
  <2>2. Last(batch[n]) \in 1..lastId
    BY <1>0, <1>6, <1>kept, LastIsLast DEF SetStorageBreakpoint, Base, BatchFound
  <2>3. storageBreakpoint' \in {Last(batch[n]), storageBreakpoint} /\ cut' \in BOOLEAN
    BY <1>0, <1>6 DEF SetStorageBreakpoint, Ignored, TypeOK
  <2>4. UNCHANGED <<messages, running, recoveryBreakpoint, clears, spoiled>>
    BY <1>6 DEF SetStorageBreakpoint
  <2>5. /\ s \in Steps /\ s \notin {"insert", "setBreakpoint"}
        /\ b \in 1..lastId \cup {Unset} /\ l \in 1..lastId \cup {Unset}
        /\ S \in SUBSET (1..lastId)
    BY <1>kept DEF Steps
  <2>6. storageBreakpoint' \in 1..lastId \cup {Unset, Finished}
    BY <1>0, <2>2, <2>3 DEF TypeOK
  <2>b. Base'
    <3>1. SharedTyped
      BY <1>0, <2>3, <2>4, <2>6 DEF SharedTyped, TypeOK, messages
    <3>2. LocalsTyped(s, b, l, S)
      BY <2>1, <2>5, SMTT(30) DEF LocalsTyped
    <3> QED BY <2>1, <3>1, <3>2, MovesBase
  <2>c. ASSUME Complete PROVE Complete'
    <3>1. Lost' = Lost
      BY <2>4 DEF Lost, messages
    <3>2. ASSUME ~spoiled
          PROVE  \A m \in Lost : ~(Cardinality(batch[n]) < BatchSize) /\ \A k \in batch[n] : k < m
      BY <1>6, <1>known, <2>c, <3>2 DEF Knows, SetStorageBreakpoint
    <3>3. Last(batch[n]) \in batch[n]
      BY <1>0, <1>6, <1>kept, LastIsLast DEF SetStorageBreakpoint, Base, BatchFound
    <3>4. ASSUME ~spoiled PROVE KeysKnow(Lost)'
      <4>1. KeysKnow(Lost) /\ \A m \in Lost : Last(batch[n]) < m
        BY <1>known, <2>c, <3>2, <3>3, <3>4
      <4>2. Last(batch[n]) # Finished
        BY <2>2 DEF Finished
      <4> QED BY <2>3, <2>4, <3>1, <4>1, <4>2 DEF KeysKnow
    <3>5. ASSUME ~spoiled PROVE Knows(Lost, s, b, l, S)
      <4>1. s = "finishRunning" => Lost = {}
        BY <2>1, <3>2, <3>5
      <4>2. \A m \in Lost : Unset < m
        BY LostIsLater
      <4> QED BY <1>known, <2>1, <2>c, <3>5, <4>1, <4>2 DEF Knows
    <3> QED BY <1>known, <2>1, <2>4, <2>c, <3>1, <3>4, <3>5, MovesComplete, SMTT(30)
  <2> QED BY <2>b, <2>c
<1>7. CASE FinishRunning(n)
  <2>1. Moves(n, "finishBreakpoint", breakpoint[n], limit[n], batch[n])
    BY <1>7, <1>kept DEF FinishRunning, Moves
  <2>2. running' \in {"false", running} /\ cut' \in BOOLEAN
    BY <1>0, <1>7 DEF FinishRunning, Ignored, TypeOK
  <2>3. UNCHANGED <<messages, storageBreakpoint, recoveryBreakpoint, clears, spoiled>>
    BY <1>7, SMTT(30) DEF FinishRunning
  <2>b. Base'
    <3>1. SharedTyped
      BY <1>0, <2>2, <2>3 DEF SharedTyped, TypeOK, messages
    <3>2. LocalsTyped("finishBreakpoint", breakpoint[n], limit[n], batch[n])
      BY <1>kept DEF LocalsTyped, Steps
    <3> QED BY <2>1, <3>1, <3>2, MovesBase
  <2>c. ASSUME Complete PROVE Complete'
    <3>1. Lost' = Lost /\ (KeysKnow(Lost) => KeysKnow(Lost)')
      BY <2>3, SMTT(30) DEF KeysKnow, Lost, messages, keys
    <3>2. ~spoiled => Knows(Lost, "finishBreakpoint", breakpoint[n], limit[n], batch[n])
      BY <1>known, <2>c, <1>7 DEF Knows, FinishRunning
    <3> QED BY <1>known, <2>1, <2>3, <2>c, <3>1, <3>2, MovesComplete
  <2> QED BY <2>b, <2>c
<1>8. CASE FinishBreakpoint(n)
  <2>1. Moves(n, "idle", Unset, Unset, {})
    BY <1>8, ReturnMoves DEF FinishBreakpoint
  <2>2. storageBreakpoint' \in {Finished, storageBreakpoint} /\ cut' \in BOOLEAN
    BY <1>0, <1>8 DEF FinishBreakpoint, Ignored, TypeOK
  <2>3. UNCHANGED <<messages, running, recoveryBreakpoint, clears, spoiled>>
    BY <1>8 DEF FinishBreakpoint
  <2>b. Base'
    <3>1. SharedTyped
      BY <1>0, <2>2, <2>3 DEF SharedTyped, TypeOK, messages
    <3>2. LocalsTyped("idle", Unset, Unset, {})
      BY DEF LocalsTyped, Steps
    <3> QED BY <2>1, <3>1, <3>2, MovesBase
  <2>c. ASSUME Complete PROVE Complete'
    <3>1. Lost' = Lost
      BY <2>3 DEF Lost, messages
    <3>2. ~spoiled => Lost = {}
      BY <1>8, <1>known, <2>c DEF Knows, FinishBreakpoint
    <3>3. ~spoiled => KeysKnow(Lost)' /\ Knows(Lost, "idle", Unset, Unset, {})
      BY <3>1, <3>2 DEF KeysKnow, Knows
    <3> QED BY <2>1, <2>3, <2>c, <3>1, <3>3, MovesComplete
  <2> QED BY <2>b, <2>c
<1>9. CASE StartRunning(n)
  <2>1. Moves(n, "findLast", breakpoint[n], limit[n], batch[n])
    BY <1>9, <1>kept DEF StartRunning, Moves
  <2>2. running' = "true"
        /\ UNCHANGED <<messages, storageBreakpoint, recoveryBreakpoint, clears, spoiled, cut>>
    BY <1>9 DEF StartRunning
  <2>b. Base'
    <3>1. SharedTyped
      BY <1>0, <2>2 DEF SharedTyped, TypeOK, messages
    <3>2. LocalsTyped("findLast", breakpoint[n], limit[n], batch[n])
      BY <1>kept, SMTT(30) DEF LocalsTyped, Steps
    <3> QED BY <2>1, <3>1, <3>2, MovesBase
  <2>c. ASSUME Complete PROVE Complete'
    <3>1. Lost' = Lost /\ (KeysKnow(Lost) => KeysKnow(Lost)')
      BY <2>2 DEF KeysKnow, Lost, messages, keys
    <3>2. ~spoiled => Knows(Lost, "findLast", breakpoint[n], limit[n], batch[n])
      BY <1>known, <2>c DEF Knows, KeysKnow
    <3> QED BY <1>known, <2>1, <2>2, <2>c, <3>1, <3>2, MovesComplete
  <2> QED BY <2>b, <2>c
<1>10. CASE FindLast(n)
  <2>1. shown # {} => Last(shown) \in 1..lastId
    BY <1>0, LastIsLast DEF TypeOK
  <2>2. PICK s \in {"emptyFinished", "startBreakpoint"}, l \in 1..lastId \cup {Unset} :
          /\ Moves(n, s, breakpoint[n], l, batch[n])
          /\ shown = {} \/ (shown # {} /\ l = Last(shown) /\ s = "startBreakpoint")
    BY <1>10, <1>kept, <2>1 DEF FindLast, Moves
  <2>3. spoiled' \in BOOLEAN /\ UNCHANGED <<messages, keys, clears, cut>>
    BY <1>0, <1>10 DEF FindLast, TypeOK
  <2>4. s \in Steps /\ s \notin {"insert", "setBreakpoint", "idle"}
    BY DEF Steps
  <2>b. Base'
    <3>1. SharedTyped
      BY <1>0, <2>3 DEF SharedTyped, TypeOK, messages, keys
    <3>2. LocalsTyped(s, breakpoint[n], l, batch[n])
      BY <1>kept, <2>2, <2>4, SMTT(30) DEF LocalsTyped
    <3> QED BY <2>2, <3>1, <3>2, MovesBase
  <2>c. ASSUME Complete PROVE Complete'
    <3>1. Lost' = Lost /\ (KeysKnow(Lost) => KeysKnow(Lost)')
      BY <2>3 DEF KeysKnow, Lost, messages, keys
    <3>2. ~spoiled' => ~spoiled /\ Missed = {}
      BY <1>10, Zenon DEF FindLast
    <3>3. ASSUME ~spoiled' PROVE Knows(Lost, s, breakpoint[n], l, batch[n])
      <4>1. Lost \subseteq shown
        BY <3>2, <3>3, LostIsShown
      <4>2. shown # {} => \A m \in Lost : m <= Last(shown)
        BY <1>0, <4>1, LastIsLast DEF TypeOK
      <4>3. Knows(Lost, step[n], breakpoint[n], limit[n], batch[n])
        BY <1>known, <2>c, <3>2, <3>3
      <4> QED BY <2>2, <4>1, <4>2, <4>3 DEF Knows
    <3> QED BY <1>known, <2>2, <2>c, <3>1, <3>2, <3>3, MovesComplete
  <2> QED BY <2>b, <2>c
<1>11. CASE StartBreakpoint(n)
  <2>1. Moves(n, "getBreakpoint", breakpoint[n], limit[n], batch[n])
    BY <1>11, <1>kept DEF StartBreakpoint, Moves
  <2>2. recoveryBreakpoint' \in {limit[n], recoveryBreakpoint} /\ cut' \in BOOLEAN
    BY <1>0, <1>11 DEF StartBreakpoint, Ignored, TypeOK
  <2>3. UNCHANGED <<messages, running, storageBreakpoint, clears, spoiled>>
    BY <1>11 DEF StartBreakpoint
  <2>b. Base'
    <3>1. SharedTyped
      BY <1>0, <1>kept, <2>2, <2>3 DEF SharedTyped, TypeOK, messages
    <3>2. LocalsTyped("getBreakpoint", breakpoint[n], limit[n], batch[n])
      BY <1>kept DEF LocalsTyped, Steps
    <3> QED BY <2>1, <3>1, <3>2, MovesBase
  <2>c. ASSUME Complete PROVE Complete'
    <3>1. Lost' = Lost
      BY <2>3 DEF Lost, messages
    <3>2. ~spoiled => KeysKnow(Lost)'
      BY <1>known, <2>2, <2>3, <2>c, <3>1 DEF KeysKnow, Knows
    <3>3. ~spoiled => Knows(Lost, "getBreakpoint", breakpoint[n], limit[n], batch[n])
      BY <1>known, <2>c DEF Knows
    <3> QED BY <2>1, <2>3, <2>c, <3>1, <3>2, <3>3, MovesComplete
  <2> QED BY <2>b, <2>c
<1>12. CASE EmptyFinished(n)
  <2>1. Moves(n, "emptyRunning", breakpoint[n], limit[n], batch[n])
    BY <1>12, <1>kept DEF EmptyFinished, Moves
  <2>2. storageBreakpoint' \in {Finished, storageBreakpoint} /\ cut' \in BOOLEAN
    BY <1>0, <1>12 DEF EmptyFinished, Ignored, TypeOK
  <2>3. UNCHANGED <<messages, running, recoveryBreakpoint, clears, spoiled>>
    BY <1>12 DEF EmptyFinished
  <2>b. Base'
    <3>1. SharedTyped
      BY <1>0, <2>2, <2>3 DEF SharedTyped, TypeOK, messages
    <3>2. LocalsTyped("emptyRunning", breakpoint[n], limit[n], batch[n])
      BY <1>kept, SMTT(30) DEF LocalsTyped, Steps
    <3> QED BY <2>1, <3>1, <3>2, MovesBase
  <2>c. ASSUME Complete PROVE Complete'
    <3>1. Lost' = Lost
      BY <2>3 DEF Lost, messages
    <3>2. ~spoiled => Lost = {}
      BY <1>12, <1>known, <2>c DEF Knows, EmptyFinished
    <3>3. ~spoiled => /\ KeysKnow(Lost)'
                      /\ Knows(Lost, "emptyRunning", breakpoint[n], limit[n], batch[n])
      BY <3>1, <3>2 DEF KeysKnow, Knows
    <3> QED BY <2>1, <2>3, <2>c, <3>1, <3>3, MovesComplete, SMTT(30)
  <2> QED BY <2>b, <2>c
<1>13. CASE EmptyRunning(n)
  <2>1. Moves(n, "idle", Unset, Unset, {})
    BY <1>13, ReturnMoves DEF EmptyRunning
  <2>2. running' \in {"false", running} /\ cut' \in BOOLEAN
    BY <1>0, <1>13 DEF EmptyRunning, Ignored, TypeOK
  <2>3. UNCHANGED <<messages, storageBreakpoint, recoveryBreakpoint, clears, spoiled>>
    BY <1>13, SMTT(30) DEF EmptyRunning
  <2>b. Base'
    <3>1. SharedTyped
      BY <1>0, <2>2, <2>3 DEF SharedTyped, TypeOK, messages
    <3>2. LocalsTyped("idle", Unset, Unset, {})
      BY DEF LocalsTyped, Steps
    <3> QED BY <2>1, <3>1, <3>2, MovesBase
  <2>c. ASSUME Complete PROVE Complete'
    <3>1. Lost' = Lost /\ (KeysKnow(Lost) => KeysKnow(Lost)')
      BY <2>3 DEF KeysKnow, Lost, messages, keys
    <3>2. Knows(Lost, "idle", Unset, Unset, {})
      <4>1. \A m \in Lost : Unset < m
        BY LostIsLater, SMTT(30)
      <4> QED BY <4>1 DEF Knows
    <3> QED BY <1>known, <2>1, <2>3, <2>c, <3>1, <3>2, MovesComplete
  <2> QED BY <2>b, <2>c
<1> QED BY <1>1, <1>2, <1>3, <1>4, <1>5, <1>6, <1>7, <1>8, <1>9, <1>10, <1>11, <1>12, <1>13
  DEF Pass

\* A call that fails, having inserted some of the batch perhaps.
LEMMA FailBase ==
  ASSUME Base, NEW n \in Node, NEW S \in SUBSET batch[n], Fail(n, S)
  PROVE  Base'
<1>1. Moves(n, "idle", Unset, Unset, {})
  BY ReturnMoves DEF Fail
<1>2. /\ cached' = cached \cup S /\ cut'
      /\ UNCHANGED <<stored, shown, lastId, adding, keys, clears, spoiled>>
  BY DEF Fail
<1>3. cached' \in SUBSET (1..lastId)
  BY <1>2, Kept DEF Base, TypeOK
<1>4. SharedTyped
  BY <1>2, <1>3 DEF Base, TypeOK, SharedTyped, keys
<1>5. LocalsTyped("idle", Unset, Unset, {})
  BY DEF LocalsTyped, Steps
<1> QED BY <1>1, <1>4, <1>5, MovesBase

\* Requests, replication and the clearing of Redis change no local variable.
LEMMA RestBase ==
  ASSUME Base, UNCHANGED locals,
         AddStorage \/ Clear \/ \E m \in 1..MaxId : AddCache(m) \/ Remove(m) \/ Replicate(m)
  PROVE  Base'
<1>0. TypeOK /\ lastId \in 0..MaxId /\ clears \in 0..MaxClears
  BY DEF Base, TypeOK
<1>1. BatchFound' /\ IdleIsClean'
  BY DEF Base, BatchFound, IdleIsClean, locals
<1>2. CASE AddStorage
  <2>1. lastId' \in 0..MaxId /\ 1..lastId \subseteq 1..lastId' /\ lastId' \in 1..lastId'
    BY <1>0, <1>2, BoundAssumption DEF AddStorage
  <2>2. /\ step \in [Node -> Steps]
        /\ breakpoint \in [Node -> 1..lastId' \cup {Unset}]
        /\ limit \in [Node -> 1..lastId' \cup {Unset}]
        /\ batch \in [Node -> SUBSET (1..lastId')]
    BY <1>0, <2>1 DEF TypeOK
  <2>3. /\ stored' = stored \cup {lastId'} /\ adding' = adding \cup {lastId'}
        /\ UNCHANGED <<shown, cached, keys, clears, locals, spoiled, cut>>
    BY <1>2 DEF AddStorage
  <2>4. TypeOK'
    BY <1>0, <2>1, <2>2, <2>3 DEF TypeOK, keys, locals
  <2> QED BY <1>1, <2>4 DEF Base
<1>3. CASE Clear
  <2>1. clears' \in 0..MaxClears
    <3>1. clears < MaxClears /\ clears' = clears + 1
      BY <1>3 DEF Clear
    <3> QED BY <1>0, <3>1, BoundAssumption
  <2>2. TypeOK'
    BY <1>0, <1>3, <2>1 DEF TypeOK, Clear, locals
  <2> QED BY <1>1, <2>2 DEF Base
<1>4. ASSUME NEW m \in 1..MaxId, AddCache(m) \/ Remove(m) \/ Replicate(m) PROVE Base'
  <2>1. /\ stored' \subseteq 1..lastId /\ shown' \subseteq 1..lastId
        /\ cached' \subseteq 1..lastId /\ adding' \subseteq 1..lastId
    <3>1. CASE AddCache(m)
      BY <1>0, <3>1 DEF TypeOK, AddCache
    <3>2. CASE Remove(m)
      BY <1>0, <3>2 DEF TypeOK, Remove
    <3>3. CASE Replicate(m)
      BY <1>0, <3>3 DEF TypeOK, Replicate
    <3> QED BY <1>4, <3>1, <3>2, <3>3
  <2>2. UNCHANGED <<lastId, keys, clears, locals, spoiled, cut>>
    BY <1>4 DEF AddCache, Remove, Replicate
  <2>3. TypeOK'
    BY <1>0, <2>1, <2>2 DEF TypeOK, keys, locals
  <2> QED BY <1>1, <2>3 DEF Base
<1> QED BY <1>2, <1>3, <1>4

\* Every step keeps the types.
LEMMA NextBase == Base /\ [Next]_vars => Base'
<1> SUFFICES ASSUME Base, [Next]_vars PROVE Base'
  OBVIOUS
<1>1. CASE UNCHANGED vars
  BY <1>1 DEF Base, TypeOK, BatchFound, IdleIsClean, vars, messages, keys, locals
<1>2. ASSUME NEW n \in Node, Pass(n) PROVE Base'
  BY <1>2, PassKeeps
<1>3. ASSUME NEW n \in Node, NEW S \in SUBSET batch[n], Fail(n, S) PROVE Base'
  BY <1>3, FailBase
<1>4. ASSUME AddStorage \/ Clear \/ \E m \in 1..MaxId : AddCache(m) \/ Remove(m) \/ Replicate(m)
      PROVE  Base'
  <2>1. UNCHANGED locals
    BY <1>4 DEF AddStorage, Clear, AddCache, Remove, Replicate
  <2> QED BY <1>4, <2>1, RestBase
<1> QED BY <1>1, <1>2, <1>3, <1>4 DEF Next

\* Sets of _ids and breakpoints are of messages that have existed, for any number
\* of processes and messages.
THEOREM RecoveryTypes == Spec => []TypeOK
<1>1. Spec => []Base
  BY BaseInit, NextBase, PTL DEF Spec
<1>2. Base => TypeOK
  BY DEF Base
<1> QED BY <1>1, <1>2, PTL


-----------------------------------------------------------------------------
(* The other steps *)

\* At first all that is stored is lost, and nothing is known.
LEMMA CompleteInit == Init => Complete
<1> SUFFICES ASSUME Init PROVE Complete
  OBVIOUS
<1>1. \A m \in Lost : Unset < m
  <2>1. Base
    BY BaseInit
  <2> QED BY <2>1, LostIsLater
<1>2. storageBreakpoint = Unset /\ recoveryBreakpoint = Unset /\ Unset # Finished
  <2>1. storageBreakpoint = Unset /\ recoveryBreakpoint = Unset
    BY DEF Init
  <2>2. Unset # Finished
    BY DEF Unset, Finished
  <2> QED BY <2>1, <2>2
<1>3. KeysKnow(Lost)
  BY <1>1, <1>2 DEF KeysKnow
<1>4. ASSUME NEW n \in Node PROVE Knows(Lost, step[n], breakpoint[n], limit[n], batch[n])
  BY <1>1 DEF Init, Knows
<1> QED BY <1>3, <1>4 DEF Complete

\* A pass that ends early has left the rest for the next one.
LEMMA FailComplete ==
  ASSUME Base, Complete, NEW n \in Node, NEW S \in SUBSET batch[n], Fail(n, S)
  PROVE  Complete'
<1>1. Moves(n, "idle", Unset, Unset, {})
  BY ReturnMoves DEF Fail
<1>2. /\ cached' = cached \cup S
      /\ UNCHANGED <<stored, shown, lastId, adding, keys, clears, spoiled>>
  BY DEF Fail
<1>3. Lost' \subseteq Lost
  BY <1>2 DEF Lost
<1>4. ~spoiled => KeysKnow(Lost)'
  BY <1>2, <1>3 DEF Complete, KeysKnow, keys
<1>5. Knows(Lost', "idle", Unset, Unset, {})
  BY <1>3, LostIsLater, SMTT(30) DEF Knows
<1> QED BY <1>1, <1>2, <1>3, <1>4, <1>5, MovesComplete

\* Requests and replication lose no message that was cached.
LEMMA RequestComplete ==
  ASSUME Complete, Lost' \subseteq Lost, UNCHANGED <<keys, locals, spoiled>>
  PROVE  Complete'
<1> SUFFICES ASSUME ~spoiled PROVE Complete'
  BY DEF Complete
<1>1. KeysKnow(Lost)'
  BY SMTT(30) DEF Complete, KeysKnow, keys
<1>2. ASSUME NEW n \in Node PROVE Knows(Lost', step[n], breakpoint[n], limit[n], batch[n])
  BY KnowsLess DEF Complete
<1> QED BY <1>1, <1>2 DEF Complete, locals

\* A clearing of Redis makes a fresh start, if no pass is in progress.
LEMMA ClearComplete ==
  ASSUME Base, Clear
  PROVE  Complete'
<1> SUFFICES ASSUME ~spoiled' PROVE Complete'
  BY DEF Complete
<1>1. /\ \A n \in Node : step[n] = "idle"
      /\ storageBreakpoint' = Unset /\ recoveryBreakpoint' = Unset
      /\ UNCHANGED <<stored, adding, locals>>
  BY DEF Clear
<1>2. \A m \in Lost' : Unset < m
  BY <1>1, StoredIsLater DEF Lost
<1>3. KeysKnow(Lost)'
  BY <1>1, <1>2 DEF KeysKnow, Unset, Finished
<1>4. ASSUME NEW n \in Node PROVE Knows(Lost', step[n], breakpoint[n], limit[n], batch[n])
  BY <1>1, <1>2 DEF Knows, Base, IdleIsClean
<1> QED BY <1>1, <1>3, <1>4, SMTT(30) DEF Complete, locals

\* Every step keeps what is known of the lost messages.
LEMMA NextComplete == Base /\ Complete /\ [Next]_vars => Complete'
<1> SUFFICES ASSUME Base, Complete, [Next]_vars PROVE Complete'
  OBVIOUS
<1>1. CASE UNCHANGED vars
  <2>1. Lost' = Lost /\ UNCHANGED <<keys, locals, spoiled>>
    BY <1>1 DEF vars, messages, Lost
  <2> QED BY <2>1, RequestComplete
<1>2. ASSUME NEW n \in Node, Pass(n) PROVE Complete'
  BY <1>2, PassKeeps
<1>3. ASSUME NEW n \in Node, NEW S \in SUBSET batch[n], Fail(n, S) PROVE Complete'
  BY <1>3, FailComplete
<1>4. ASSUME AddStorage PROVE Complete'
  <2>1. Lost' \subseteq Lost /\ UNCHANGED <<keys, locals, spoiled>>
    BY <1>4 DEF AddStorage, Lost
  <2> QED BY <2>1, RequestComplete
<1>5. ASSUME NEW m \in 1..MaxId, AddCache(m) \/ Remove(m) \/ Replicate(m) PROVE Complete'
  <2>1. Lost' \subseteq Lost /\ UNCHANGED <<keys, locals, spoiled>>
    BY <1>5 DEF AddCache, Remove, Replicate, Lost
  <2> QED BY <2>1, RequestComplete
<1>6. ASSUME Clear PROVE Complete'
  BY <1>6, ClearComplete
<1> QED BY <1>1, <1>2, <1>3, <1>4, <1>5, <1>6 DEF Next

\* When RECOVERY_FINISHED is set, every stored message whose Add is complete is in
\* the cache: for any number of processes whose passes overlap without a lock, die
\* or lose a Set, unless Redis was cleared under a pass or the secondary missed a
\* message that Redis had lost.
THEOREM RecoveryCompletes == Spec => []RecoveryIsComplete
<1>1. Spec => [](Base /\ Complete)
  BY BaseInit, CompleteInit, NextBase, NextComplete, PTL DEF Spec
<1>2. Complete => RecoveryIsComplete
  BY DEF Complete, KeysKnow, Lost, RecoveryIsComplete
<1> QED BY <1>1, <1>2, PTL

-----------------------------------------------------------------------------
(* The running mark *)

\* Of passes that followed one another, none of them cut short, one is in progress
\* at most; the mark is gone before RECOVERY_FINISHED is set or, if nothing was
\* stored, by the last step of the pass that set it.
Uncut ==
  /\ \A n, k \in Node : step[n] # "idle" /\ step[k] # "idle" => n = k
  /\ storageBreakpoint = Finished => \A n \in Node : step[n] \in {"idle", "emptyRunning"}
  /\ RunningEnds
  /\ \A n \in Node : step[n] = "finishBreakpoint" => running # "true"

Ends == ~cut => Uncut

\* A step of the only pass in progress.
LEMMA AloneEnds ==
  ASSUME Base, NEW n \in Node, NEW s, Goto(n, s), \A k \in Node \ {n} : step[k] = "idle",
         storageBreakpoint' = Finished => s \in {"idle", "emptyRunning"},
         storageBreakpoint' = Finished /\ s = "idle" => running' # "true",
         s = "finishBreakpoint" => running' # "true"
  PROVE  Uncut'
<1>1. step'[n] = s /\ \A k \in Node \ {n} : step'[k] = "idle"
  BY DEF Base, TypeOK, Goto
<1>2. \A k, j \in Node : step'[k] # "idle" /\ step'[j] # "idle" => k = j
  BY <1>1
<1>3. storageBreakpoint' = Finished => \A k \in Node : step'[k] \in {"idle", "emptyRunning"}
  BY <1>1
<1>4. RunningEnds'
  BY <1>1 DEF RunningEnds
<1>5. \A k \in Node : step'[k] = "finishBreakpoint" => running' # "true"
  BY <1>1
<1> QED BY <1>2, <1>3, <1>4, <1>5 DEF Uncut

\* One step of a pass that is not cut short.
LEMMA PassEnds ==
  ASSUME Base, Uncut, NEW n \in Node, Pass(n), ~cut'
  PROVE  Uncut'
<1>1. step[n] # "idle" => \A k \in Node \ {n} : step[k] = "idle"
  BY DEF Uncut
<1>2. step[n] \notin {"idle", "emptyRunning"} => storageBreakpoint # Finished
  BY DEF Uncut
<1>3. CASE GetStorageBreakpoint(n)
  BY <1>3, AloneEnds, Zenon DEF GetStorageBreakpoint, keys
<1>4. ASSUME NEW s, Goto(n, s), s # "finishBreakpoint",
             step[n] \notin {"idle", "emptyRunning"}, UNCHANGED storageBreakpoint
      PROVE  Uncut'
  BY <1>1, <1>2, <1>4, AloneEnds
<1>5. CASE isRecovering(n)
  BY <1>4, <1>5 DEF isRecovering, keys
<1>6. CASE GetRecoveryBreakpoint(n)
  BY <1>4, <1>6 DEF GetRecoveryBreakpoint, keys
<1>7. CASE Find(n)
  BY <1>4, <1>7 DEF Find, keys
<1>8. CASE InsertBatch(n)
  BY <1>4, <1>8 DEF InsertBatch, keys
<1>9. CASE SetStorageBreakpoint(n)
  <2>1. PICK s \in {"finishRunning", "idle"} : Goto(n, s)
    BY <1>9 DEF SetStorageBreakpoint, Return
  <2>2. storageBreakpoint' = Last(batch[n]) /\ step[n] = "setBreakpoint"
    BY <1>9 DEF SetStorageBreakpoint, Ignored
  <2>3. lastId \in Nat /\ batch[n] \in SUBSET (1..lastId) /\ batch[n] # {}
    BY <2>2, TypeOfLastId, Kept DEF Base, BatchFound
  <2>4. Last(batch[n]) \in 1..lastId
    BY <2>3, LastIsLast
  <2>5. storageBreakpoint' # Finished
    BY <2>2, <2>3, <2>4 DEF Finished
  <2> QED BY <1>1, <2>1, <2>2, <2>5, AloneEnds
<1>10. CASE FinishRunning(n)
  <2>1. running' = "false" /\ UNCHANGED storageBreakpoint
    BY <1>10 DEF FinishRunning, Ignored
  <2> QED BY <1>1, <1>2, <1>10, <2>1, AloneEnds DEF FinishRunning
<1>11. CASE FinishBreakpoint(n)
  <2>1. UNCHANGED running /\ running # "true"
    BY <1>11 DEF FinishBreakpoint, Uncut
  <2> QED BY <1>1, <1>11, <2>1, AloneEnds DEF FinishBreakpoint, Return
<1>12. CASE StartRunning(n)
  BY <1>4, <1>12 DEF StartRunning
<1>13. CASE FindLast(n)
  BY <1>4, <1>13 DEF FindLast, keys
<1>14. CASE StartBreakpoint(n)
  BY <1>4, <1>14 DEF StartBreakpoint
<1>15. CASE EmptyFinished(n)
  BY <1>1, <1>15, AloneEnds DEF EmptyFinished
<1>16. CASE EmptyRunning(n)
  <2>1. running' = "false"
    BY <1>16 DEF EmptyRunning, Ignored
  <2> QED BY <1>1, <1>16, <2>1, AloneEnds DEF EmptyRunning, Return
<1> QED BY <1>3, <1>5, <1>6, <1>7, <1>8, <1>9, <1>10, <1>11, <1>12, <1>13, <1>14, <1>15, <1>16
  DEF Pass

\* A pass that is cut short stays so.
LEMMA CutStays == Next => (cut => cut')
<1>1. ASSUME NEW n \in Node, Pass(n), cut PROVE cut'
  BY <1>1, ZenonT(40) DEF Pass, GetStorageBreakpoint, isRecovering, GetRecoveryBreakpoint, Find,
    InsertBatch, SetStorageBreakpoint, FinishRunning, FinishBreakpoint, StartRunning, FindLast,
    StartBreakpoint, EmptyFinished, EmptyRunning, Ignored
<1>2. ASSUME NEW n \in Node, NEW S \in SUBSET batch[n], Fail(n, S) PROVE cut'
  BY <1>2 DEF Fail
<1>3. ASSUME AddStorage \/ Clear \/ \E m \in 1..MaxId : AddCache(m) \/ Remove(m) \/ Replicate(m),
             cut
      PROVE  cut'
  BY <1>3 DEF AddStorage, Clear, AddCache, Remove, Replicate
<1> QED BY <1>1, <1>2, <1>3, SMTT(30) DEF Next

\* Every step keeps the order in which a recovery ends.
LEMMA NextEnds == Base /\ Ends /\ [Next]_vars => Ends'
<1> SUFFICES ASSUME Base, Ends, [Next]_vars, ~cut' PROVE Uncut'
  BY DEF Ends
<1>1. CASE UNCHANGED vars
  BY <1>1 DEF Ends, Uncut, RunningEnds, vars, keys, locals
<1>2. ASSUME Next PROVE Uncut
  BY <1>2, CutStays DEF Ends
<1>3. ASSUME Next, NEW n \in Node, Pass(n) PROVE Uncut'
  BY <1>2, <1>3, PassEnds
<1>4. ASSUME NEW n \in Node, NEW S \in SUBSET batch[n], Fail(n, S) PROVE FALSE
  BY <1>4 DEF Fail
<1>5. ASSUME Next, AddStorage \/ \E m \in 1..MaxId : AddCache(m) \/ Remove(m) \/ Replicate(m)
      PROVE  Uncut'
  <2>1. UNCHANGED <<keys, locals, cut>>
    BY <1>5 DEF AddStorage, AddCache, Remove, Replicate
  <2> QED BY <1>2, <1>5, <2>1 DEF Uncut, RunningEnds, keys, locals
<1>6. ASSUME Next, Clear PROVE Uncut'
  <2>1. running' = "" /\ storageBreakpoint' = Unset /\ UNCHANGED step
    BY <1>6 DEF Clear, locals
  <2>2. Unset # Finished
    BY DEF Unset, Finished
  <2> QED BY <1>2, <1>6, <2>1, <2>2 DEF Uncut, RunningEnds
<1> QED BY <1>1, <1>3, <1>4, <1>5, <1>6 DEF Next

\* A recovery of passes that followed one another, none of them cut short, does not
\* stay marked as running once it is finished.
THEOREM RecoveryRunningEnds == Spec => []RunningEnds
<1>1. Init => Ends
  BY DEF Init, Ends, Uncut, RunningEnds, Unset, Finished
<1>2. Spec => [](Base /\ Ends)
  BY BaseInit, NextBase, NextEnds, <1>1, PTL DEF Spec
<1>3. Ends => RunningEnds
  BY DEF Ends, Uncut, RunningEnds
<1> QED BY <1>2, <1>3, PTL
=============================================================================
