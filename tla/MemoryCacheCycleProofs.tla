----------------------- MODULE MemoryCacheCycleProofs -----------------------
(***************************************************************************)
(* Each queue of the memory cache implements the message cycle, for any    *)
(* queues, messages and requests of any length.  The cell of a message     *)
(* depends on the lists of its queue alone, and a call of the cache moves  *)
(* messages between them as one step of the cycle of each queue, or none.  *)
(***************************************************************************)
EXTENDS MemoryCacheProofs

NoCell == [at |-> "none", key |-> 0, ret |-> Undefined]

\* The cells of the messages of q when its lists are R.
CellsIn(q, R) ==
  [i \in Ids[q] |->
     CASE Holds(R["active"], i) -> CellOf("active", EntryOf(R["active"], i))
       [] Holds(R["processing"], i) -> CellOf("processing", EntryOf(R["processing"], i))
       [] Holds(R["lock_ack"], i) -> CellOf("lock_ack", EntryOf(R["lock_ack"], i))
       [] Holds(R["lock_nack"], i) -> CellOf("lock_nack", EntryOf(R["lock_nack"], i))
       [] OTHER -> NoCell]

\* The refinement mapping depends on the lists alone.
LEMMA CellsAreIn ==
  ASSUME NEW q \in Queue
  PROVE  Cells(q) = CellsIn(q, Row(q)) /\ Cells(q)' = CellsIn(q, Row(q)')
<1>1. Cells(q) = CellsIn(q, Row(q))
  BY RowShape DEF Cells, CellsIn, NoCell, LockTypes
<1>2. Cells(q)' = CellsIn(q, Row(q)')
  BY NextRowShape DEF Cells, CellsIn, NoCell, LockTypes
<1> QED BY <1>1, <1>2

\* A message that a list holds is found there, and in no other list.
LEMMA EntryIsFound ==
  ASSUME NEW list, Good(list), NEW e \in Elems(list)
  PROVE  Holds(list, e.id) /\ EntryOf(list, e.id) = e
<1>1. PICK k \in DOMAIN list : list[k] = e
  BY DEF Elems
<1>2. \A j \in DOMAIN list : list[j].id = e.id => j = k
  BY <1>1 DEF Good, Unique
<1>3. (CHOOSE j \in DOMAIN list : list[j].id = e.id) = k
  BY <1>1, <1>2
<1> QED BY <1>1, <1>3, Zenon DEF Holds, EntryOf

\* The cell of a message is that of its entry.
LEMMA CellIsEntry ==
  ASSUME NEW q, NEW R, Kept(q, R), NEW l \in Places, NEW e \in Elems(R[l])
  PROVE  e.id \in Ids[q] /\ CellsIn(q, R)[e.id] = CellOf(l, e)
<1>1. e.id \in Ids[q]
  BY DEF Kept
<1>2. Holds(R[l], e.id) /\ EntryOf(R[l], e.id) = e
  BY EntryIsFound DEF Kept
<1>3. \A m \in Places : m # l => ~Holds(R[m], e.id)
  BY DEF Kept, Holds, Elems
<1>4. Places = {"active", "processing", "lock_ack", "lock_nack"}
  BY DEF Places, LockTypes
<1> QED BY <1>1, <1>2, <1>3, <1>4 DEF CellsIn

\* A message in no list has the empty cell.
LEMMA CellIsNone ==
  ASSUME NEW q, NEW R, NEW i \in Ids[q],
         \A l \in Places : \A e \in Elems(R[l]) : e.id # i
  PROVE  CellsIn(q, R)[i] = NoCell
<1>1. \A l \in Places : ~Holds(R[l], i)
  BY DEF Holds, Elems
<1>2. Places = {"active", "processing", "lock_ack", "lock_nack"}
  BY DEF Places, LockTypes
<1> QED BY <1>1, <1>2 DEF CellsIn

\* A queue whose lists stay as they are, at the same time.
LEMMA QueueRests ==
  ASSUME NEW q \in Queue, Row(q)' = Row(q), UNCHANGED now
  PROVE  UNCHANGED Cycle(q)!vars
<1>1. Cells(q)' = Cells(q)
  BY CellsAreIn
<1> QED BY <1>1 DEF Cycle!vars

\* The cells after a move: those of the entries that come in, none for the
\* messages that only leave, and the others as they were.
LEMMA MovedCells ==
  ASSUME NEW q, NEW R, Kept(q, R), NEW U, NEW d \in Places, NEW D, NEW N,
         Moved(R, U, D, d, N), Fresh(q, R, D, d, N)
  PROVE  /\ \A e \in N : e.id \in Ids[q] /\ CellsIn(q, U)[e.id] = CellOf(d, e)
         /\ \A i \in Ids[q] : (\A e \in N : e.id # i) =>
              CellsIn(q, U)[i] = IF i \in D THEN NoCell ELSE CellsIn(q, R)[i]
<1>1. Kept(q, U)
  BY MovesKeep
<1>2. ASSUME NEW l \in Places
      PROVE  Elems(U[l]) = {f \in Elems(R[l]) : f.id \notin D} \cup (IF l = d THEN N ELSE {})
  BY DEF Moved
<1>3. ASSUME NEW e \in N PROVE e.id \in Ids[q] /\ CellsIn(q, U)[e.id] = CellOf(d, e)
  <2>1. e \in Elems(U[d])
    BY <1>2
  <2> QED BY <1>1, <2>1, CellIsEntry
<1>4. ASSUME NEW i \in Ids[q], \A e \in N : e.id # i
      PROVE  CellsIn(q, U)[i] = IF i \in D THEN NoCell ELSE CellsIn(q, R)[i]
  <2>1. CASE \A l \in Places : \A e \in Elems(U[l]) : e.id # i
    <3>1. CellsIn(q, U)[i] = NoCell
      BY <2>1, CellIsNone
    <3>2. i \notin D => \A l \in Places : \A e \in Elems(R[l]) : e.id # i
      BY <1>2, <2>1
    <3>3. i \notin D => CellsIn(q, R)[i] = NoCell
      BY <3>2, CellIsNone
    <3> QED BY <3>1, <3>3
  <2>2. ASSUME NEW l \in Places, NEW e \in Elems(U[l]), e.id = i
        PROVE  CellsIn(q, U)[i] = IF i \in D THEN NoCell ELSE CellsIn(q, R)[i]
    <3>1. e \in Elems(R[l]) /\ i \notin D
      BY <1>2, <1>4, <2>2
    <3>2. CellsIn(q, U)[i] = CellOf(l, e) /\ CellsIn(q, R)[i] = CellOf(l, e)
      BY <1>1, <2>2, <3>1, CellIsEntry
    <3> QED BY <3>1, <3>2
  <2> QED BY <2>1, <2>2
<1> QED BY <1>3, <1>4

\* The cells are a function of the ids.
LEMMA CellsShape ==
  ASSUME NEW q \in Queue, NEW R
  PROVE  CellsIn(q, R) = [i \in Ids[q] |-> CellsIn(q, R)[i]]
BY DEF CellsIn

\* A message that moves alone.
LEMMA OneMovesCells ==
  ASSUME NEW q \in Queue, Kept(q, Row(q)), NEW d \in Places, NEW e, NEW i, e.id = i,
         Moved(Row(q), Row(q)', {i}, d, {e}), Fresh(q, Row(q), {i}, d, {e})
  PROVE  Cells(q)' = [j \in Ids[q] |-> IF j \in {i} THEN CellOf(d, e) ELSE Cells(q)[j]]
<1> DEFINE R == Row(q)
           U == Row(q)'
<1>1. Cells(q) = CellsIn(q, R) /\ Cells(q)' = CellsIn(q, U)
  BY CellsAreIn
<1>2. CellsIn(q, U) = [j \in Ids[q] |-> CellsIn(q, U)[j]]
  BY CellsShape
<1>3. /\ CellsIn(q, U)[i] = CellOf(d, e)
      /\ \A j \in Ids[q] : j # i => CellsIn(q, U)[j] = CellsIn(q, R)[j]
  BY MovedCells
<1> HIDE DEF R, U
<1> QED BY <1>1, <1>2, <1>3

\* The cell of a message with entry e in list l of its queue.
LEMMA CellNow ==
  ASSUME Inv, NEW q \in Queue, NEW l \in Places, NEW e \in Elems(Row(q)[l])
  PROVE  e.id \in Ids[q] /\ Cells(q)[e.id] = CellOf(l, e)
BY CellIsEntry, CellsAreIn DEF Inv

\* The cells of the abstract specification.
LEMMA CellOfShape ==
  /\ \A e : /\ CellOf("active", e) = [at |-> "active", key |-> e.score, ret |-> Undefined]
            /\ CellOf("processing", e) =
                 [at |-> "processing", key |-> Second * e.score, ret |-> Undefined]
  /\ \A t \in LockTypes : \A e : CellOf(t, e) = [at |-> t, key |-> e.lockUntil, ret |-> e.score]
BY DEF CellOf, LockTypes

\* MakeAvailable returns the message.
LEMMA MakeAvailableReturns ==
  ASSUME Inv, NEW q \in Queue, NEW i \in Ids[q], NEW s \in Scores, MakeAvailable(q, i, s)
  PROVE  Cycle(q)!Next
<1> DEFINE e == Entry(i, s)
<1>0. e.id = i /\ e.score = s
  BY DEF Entry
<1>1. Moves(q, {i}, "active", {e})
  BY MakeAvailableMoves
<1> HIDE DEF e
<1>2. Cells(q)' = [j \in Ids[q] |-> IF j \in {i} THEN Cycle(q)!Active(s) ELSE Cells(q)[j]]
  <2>1. /\ Kept(q, Row(q)) /\ "active" \in Places
        /\ Moved(Row(q), Row(q)', {i}, "active", {e}) /\ Fresh(q, Row(q), {i}, "active", {e})
    BY <1>1 DEF Moves, Inv
  <2>2. Cells(q)' = [j \in Ids[q] |-> IF j \in {i} THEN CellOf("active", e) ELSE Cells(q)[j]]
    BY <1>0, <2>1, OneMovesCells
  <2>3. CellOf("active", e) = Cycle(q)!Active(s)
    BY <1>0, CellOfShape, Zenon DEF Cycle!Active, Undefined, Cycle!Undefined
  <2> QED BY <2>2, <2>3
<1>3. i \in Cycle(q)!At("processing")
  <2>1. PICK f \in Elems(Row(q)["processing"]) : f.id = i
    BY RowShape DEF MakeAvailable, Holds, Elems
  <2>2. Cells(q)[i] = CellOf("processing", f)
    BY <2>1, CellNow, PlacesShape
  <2>3. Cells(q)[i].at = "processing"
    BY <2>2, CellOfShape
  <2> QED BY <2>3 DEF Cycle!At
<1>4. Cycle(q)!Return(i, s)
  BY <1>2, <1>3 DEF Cycle!Return, Cycle!Move, MakeAvailable
<1> QED BY <1>4 DEF Cycle!Next

\* LockMessage locks it.
LEMMA LockMessageLocks ==
  ASSUME Inv, NEW q \in Queue, NEW i \in Ids[q], NEW t \in LockTypes, NEW ms \in LockTimes,
         NEW s \in LockScores, LockMessage(q, i, t, ms, s)
  PROVE  Cycle(q)!Next
<1> DEFINE e == [Entry(i, s) EXCEPT !.lockUntil = now + ms]
<1>0. e.id = i /\ e.score = s /\ e.lockUntil = now + ms
  BY DEF Entry
<1>1. Moves(q, {i}, t, {e})
  BY LockMessageMoves
<1> HIDE DEF e
<1>2. Cells(q)' = [j \in Ids[q] |->
                     IF j \in {i} THEN Cycle(q)!Locked(t, now + ms, s) ELSE Cells(q)[j]]
  <2>1. /\ Kept(q, Row(q)) /\ t \in Places
        /\ Moved(Row(q), Row(q)', {i}, t, {e}) /\ Fresh(q, Row(q), {i}, t, {e})
    BY <1>1 DEF Moves, Inv
  <2>2. Cells(q)' = [j \in Ids[q] |-> IF j \in {i} THEN CellOf(t, e) ELSE Cells(q)[j]]
    BY <1>0, <2>1, OneMovesCells
  <2>3. CellOf(t, e) = Cycle(q)!Locked(t, now + ms, s)
    BY <1>0, CellOfShape, Zenon DEF Cycle!Locked
  <2> QED BY <2>2, <2>3
<1>3. i \in Cycle(q)!At("processing")
  <2>1. PICK f \in Elems(Row(q)["processing"]) : f.id = i
    BY RowShape DEF LockMessage, Holds, Elems
  <2>2. Cells(q)[i] = CellOf("processing", f)
    BY <2>1, CellNow, PlacesShape
  <2>3. Cells(q)[i].at = "processing"
    BY <2>2, CellOfShape
  <2> QED BY <2>3 DEF Cycle!At
<1>4. Cycle(q)!Lock(i, t, ms, s)
  BY <1>2, <1>3 DEF Cycle!Lock, Cycle!Move, LockMessage
<1> QED BY <1>4 DEF Cycle!Next, Cycle!LockTypes, LockTypes

\* Whole seconds: what is past in seconds is past in milliseconds.
LEMMA SecondsArePast ==
  ASSUME NEW n \in Nat, NEW s \in Int, s <= n \div Second
  PROVE  Second * s <= n
<1> DEFINE u == n \div Second
<1>1. Second \in Nat /\ Second > 0
  BY InputAssumption
<1>2. u \in Int /\ Second * u <= n
  BY <1>1
<1> HIDE DEF u
<1>3. Second * s <= Second * u
  BY <1>1, <1>2 DEF u
<1> QED BY <1>1, <1>2, <1>3

\* TimeoutMessages returns a message past its deadline with the first score.
LEMMA TimeoutMessagesTimesOut ==
  ASSUME Inv, NEW q \in Queue, TimeoutMessages(q)
  PROVE  Cycle(q)!Next
<1>1. PICK old \in Elems(processingQueues[q]) :
        TimedOut(old) /\ Moves(q, {old.id}, "active", {Returned(old)})
  BY TimeoutMessagesMoves
<1>2. old \in Record
  BY ListsAreGood, ListShape DEF Good, Elems
<1> DEFINE e == Returned(old)
           i == old.id
<1>3. e.id = i /\ e.score = Min
  BY <1>2 DEF Returned, Record
<1>4. /\ Kept(q, Row(q)) /\ "active" \in Places
      /\ Moved(Row(q), Row(q)', {i}, "active", {e}) /\ Fresh(q, Row(q), {i}, "active", {e})
  BY <1>1 DEF Moves, Inv
<1>5. i \in Ids[q] /\ Cells(q)[i] = CellOf("processing", old)
  BY CellNow, PlacesShape, RowShape
<1>6. i \in Ids[q] /\ Cells(q)[i].at = "processing" /\ Cells(q)[i].key <= now
  <2>1. Second * old.score <= now
    BY <1>1, <1>2, ListsAreGood, SecondsArePast DEF TimedOut, Unix, Record
  <2>2. CellOf("processing", old) =
          [at |-> "processing", key |-> Second * old.score, ret |-> Undefined]
    BY CellOfShape, Zenon
  <2> QED BY <1>5, <2>1, <2>2
<1>7. CellOf("active", e) = Cycle(q)!Active(Cycle(q)!Min)
  BY <1>3, CellOfShape, Zenon DEF Cycle!Active, Cycle!Min, Min, Undefined, Cycle!Undefined
<1> HIDE DEF e, i
<1>8. Cells(q)' = [j \in Ids[q] |-> IF j \in {i} THEN CellOf("active", e) ELSE Cells(q)[j]]
  BY <1>3, <1>4, OneMovesCells
<1>9. Cycle(q)!Timeout({i})
  BY <1>6, <1>7, <1>8 DEF Cycle!Timeout, Cycle!Move, Cycle!At, TimeoutMessages
<1> QED BY <1>6, <1>9 DEF Cycle!Next

\* UnlockMessages ends the lock of one message of the queue, whose time has come.
LEMMA UnlockMessagesUnlocks ==
  ASSUME Inv, NEW t \in LockTypes, UNCHANGED now, NEW q \in Queue, NEW old, Unlocks(q, t, old)
  PROVE  Cycle(q)!Next
<1>1. old \in Elems(lockQueues[t][q]) /\ old.lockUntil <= now
  <2>1. old \in Elems(lockQueues[t][q]) /\ now >= old.lockUntil
    BY DEF Unlocks
  <2>2. old \in Record /\ now \in Int
    BY <2>1, ListsAreGood, ListShape DEF Good, Elems
  <2> QED BY <2>1, <2>2 DEF Record
<1> DEFINE e == Unlocked(old, t)
           i == old.id
           s == IF old.score # Undefined THEN old.score
                ELSE IF t = "lock_ack" THEN now ELSE Min
<1>2. e.id = i /\ e.score = s
  BY DEF Unlocked, Entry
<1>3. /\ Kept(q, Row(q)) /\ "active" \in Places
      /\ Moved(Row(q), Row(q)', {i}, "active", {e}) /\ Fresh(q, Row(q), {i}, "active", {e})
  BY PlacesShape DEF Unlocks, Inv
<1>4. i \in Ids[q] /\ Cells(q)[i] = CellOf(t, old)
  BY <1>1, CellNow, PlacesShape, RowShape
<1>5. /\ Cells(q)[i].at = t /\ Cells(q)[i].key <= now
      /\ Cells(q)[i].ret = old.score
  <2>1. CellOf(t, old) = [at |-> t, key |-> old.lockUntil, ret |-> old.score]
    BY CellOfShape
  <2> QED BY <1>1, <1>4, <2>1
<1>6. CellOf("active", e) =
        Cycle(q)!Active(IF Cells(q)[i].ret = Cycle(q)!Undefined
                        THEN Cycle(q)!DefaultScore(t) ELSE Cells(q)[i].ret)
  BY <1>2, <1>5, CellOfShape, Zenon
     DEF Cycle!Active, Cycle!DefaultScore, Cycle!Min, Min, Undefined, Cycle!Undefined
<1> HIDE DEF e, i, s
<1>7. Cells(q)' = [j \in Ids[q] |-> IF j \in {i} THEN CellOf("active", e) ELSE Cells(q)[j]]
  BY <1>2, <1>3, OneMovesCells
<1>8. Cycle(q)!Unlock({i}, t)
  BY <1>4, <1>5, <1>6, <1>7 DEF Cycle!Unlock, Cycle!Move, Cycle!At
<1> QED BY <1>4, <1>8 DEF Cycle!Next, Cycle!LockTypes, LockTypes

\* Messages that leave all lists are removed.
LEMMA LeavingRemoves ==
  ASSUME Inv, NEW q \in Queue, NEW D \in SUBSET Ids[q], UNCHANGED now,
         Moved(Row(q), Row(q)', D, "active", {})
  PROVE  Cycle(q)!Next
<1> DEFINE R == Row(q)
           U == Row(q)'
<1>1. Cells(q) = CellsIn(q, R) /\ Cells(q)' = CellsIn(q, U)
  BY CellsAreIn
<1>2. CellsIn(q, U) = [j \in Ids[q] |-> CellsIn(q, U)[j]]
  BY CellsShape
<1>3. \A j \in Ids[q] : CellsIn(q, U)[j] = IF j \in D THEN NoCell ELSE CellsIn(q, R)[j]
  <2>1. Kept(q, R) /\ "active" \in Places /\ Fresh(q, R, D, "active", {})
    BY PlacesShape DEF Inv, Fresh
  <2> QED BY <2>1, MovedCells
<1> HIDE DEF R, U
<1>4. Cells(q)' = [j \in Ids[q] |-> IF j \in D THEN NoCell ELSE Cells(q)[j]]
  BY <1>1, <1>2, <1>3
<1>5. NoCell = Cycle(q)!None
  BY DEF NoCell, Cycle!None, Undefined, Cycle!Undefined
<1>6. Cycle(q)!Remove(D)
  BY <1>4, <1>5 DEF Cycle!Remove, Cycle!Move
<1> QED BY <1>6 DEF Cycle!Next

\* The clock of a queue is the clock.
LEMMA TickTicks ==
  ASSUME NEW q \in Queue, Tick
  PROVE  Cycle(q)!Next
<1>1. Row(q)' = Row(q)
  BY RowSame DEF Tick, lists
<1>2. Cells(q)' = Cells(q)
  BY <1>1, CellsAreIn
<1>3. Cycle(q)!Tick
  BY <1>2 DEF Cycle!Tick, Tick
<1> QED BY <1>3 DEF Cycle!Next

\* An entry of the active list is an active message.
LEMMA ActiveCell ==
  ASSUME NEW q \in Queue
  PROVE  \A e : CellOf("active", e) = Cycle(q)!Active(e.score)
BY CellOfShape DEF Cycle!Active, Undefined, Cycle!Undefined

\* Insert inserts messages that were nowhere.
LEMMA InsertInserts ==
  ASSUME Inv, NEW q \in Queue, NEW messages \in Requests(Messages(q)), Insert(q, messages)
  PROVE  Cycle(q)!Next
<1> DEFINE R == Row(q)
           U == Row(q)'
<1>1. PICK N : Moves(q, {}, "active", N) /\ \A e \in N : e.score \in Scores
  BY InsertMoves
<1>2. /\ Kept(q, R) /\ "active" \in Places
      /\ Moved(R, U, {}, "active", N) /\ Fresh(q, R, {}, "active", N)
  BY <1>1 DEF Moves, Inv
<1> DEFINE S == {e.id : e \in N}
           of(i) == CHOOSE e \in N : e.id = i
           req == [i \in S |-> of(i).score]
<1>3. \A i \in S : of(i) \in N /\ of(i).id = i
  OBVIOUS
<1> HIDE DEF of
<1>4. Cells(q) = CellsIn(q, R) /\ Cells(q)' = CellsIn(q, U)
  BY CellsAreIn
<1>5. CellsIn(q, U) = [j \in Ids[q] |-> CellsIn(q, U)[j]]
  BY CellsShape
<1>6. S \in SUBSET Ids[q]
  BY <1>2 DEF Fresh
<1>7. ASSUME NEW i \in S PROVE CellsIn(q, R)[i].at = "none"
  <2>0. \A e \in N : \A l \in Places : \A f \in Elems(R[l]) : f.id # e.id
    BY <1>2 DEF Fresh
  <2>1. i \in Ids[q] /\ \A l \in Places : \A f \in Elems(R[l]) : f.id # i
    BY <1>6, <2>0
  <2>2. CellsIn(q, R)[i] = NoCell
    BY <2>1, CellIsNone
  <2> QED BY <2>2 DEF NoCell
<1>8. ASSUME NEW i \in S PROVE CellsIn(q, U)[i] = Cycle(q)!Active(of(i).score)
  <2>1. \A e : CellOf("active", e) = Cycle(q)!Active(e.score)
    BY ActiveCell
  <2>2. \A e \in N : CellsIn(q, U)[e.id] = CellOf("active", e)
    BY <1>2, MovedCells
  <2>3. \A e \in N : CellsIn(q, U)[e.id] = Cycle(q)!Active(e.score)
    BY <2>1, <2>2
  <2> QED BY <1>3, <2>3
<1>9. ASSUME NEW i \in Ids[q], i \notin S PROVE CellsIn(q, U)[i] = CellsIn(q, R)[i]
  BY <1>2, <1>9, MovedCells
<1> HIDE DEF R, U
<1>10. req \in [S -> Scores]
  BY <1>1, <1>3
<1>11. DOMAIN req \cap Cycle(q)!At("none") = S
  BY <1>4, <1>6, <1>7 DEF Cycle!At
<1>12. Cells(q)' = [i \in Ids[q] |-> IF i \in S THEN Cycle(q)!Active(req[i]) ELSE Cells(q)[i]]
  BY <1>4, <1>5, <1>8, <1>9
<1> HIDE DEF req, S
<1>13. DOMAIN req = S
  BY <1>10
<1>14. Cycle(q)!Insert(req)
  BY <1>11, <1>12, <1>13 DEF Cycle!Insert, Cycle!Move, Insert
<1> QED BY <1>6, <1>10, <1>14 DEF Cycle!Next

\* A message whose cell is that of a list is in that list.
LEMMA CellIsInList ==
  ASSUME Inv, NEW q \in Queue, NEW i \in Ids[q], NEW l \in Places, Cells(q)[i].at = l
  PROVE  \E e \in Elems(Row(q)[l]) : e.id = i
<1>1. CASE \A m \in Places : \A e \in Elems(Row(q)[m]) : e.id # i
  <2>1. Cells(q)[i] = NoCell
    BY <1>1, CellIsNone, CellsAreIn
  <2> QED BY <2>1 DEF NoCell, Places, LockTypes
<1>2. ASSUME NEW m \in Places, NEW e \in Elems(Row(q)[m]), e.id = i
      PROVE  e \in Elems(Row(q)[l])
  <2>1. Cells(q)[i] = CellOf(m, e)
    BY <1>2, CellNow
  <2>2. CellOf(m, e).at = m
    BY PlacesShape DEF CellOf
  <2> QED BY <2>1, <2>2
<1> QED BY <1>1, <1>2

\* A deadline in whole seconds is at least as many milliseconds from now.
LEMMA DeadlineNotEarly ==
  ASSUME NEW n \in Nat, NEW a \in Int, a > 0
  PROVE  n + a <= Second * ((n \div Second) + a)
<1> DEFINE u == n \div Second
           r == n % Second
<1>1. Second \in Nat /\ Second > 0
  BY InputAssumption
<1>2. u \in Int /\ r \in 0 .. Second - 1 /\ n = Second * u + r
  BY <1>1
<1> HIDE DEF u, r
<1>3. Second * (u + a) = Second * u + Second * a
  BY <1>1, <1>2
<1>4. Second * u \in Int /\ Second * a \in Int
  BY <1>1, <1>2
<1>5. (Second - 1) * (a - 1) \in Nat
  <2>1. Second - 1 \in Nat /\ a - 1 \in Nat
    BY <1>1
  <2>2. \A x, y \in Nat : x * y \in Nat
    OBVIOUS
  <2> QED BY <2>1, <2>2
<1>6. (Second - 1) * (a - 1) = Second * a - Second - a + 1
  BY <1>1
<1> QED BY <1>1, <1>2, <1>3, <1>4, <1>5, <1>6 DEF u, r

\* PullMessages hands out messages in the order of their scores: those it leaves
\* active are outside the filter or come later in the list.
LEMMA PullMessagesPulls ==
  ASSUME Inv, NEW q \in Queue, NEW n \in PullSizes, NEW lo \in Limits, NEW hi \in Limits,
         NEW d \in AckDeadlines, PullMessages(q, n, lo, hi, d)
  PROVE  Cycle(q)!Next
<1> DEFINE R == Row(q)
           U == Row(q)'
           list == queues[q]
           taken == Taken(q, n, lo, hi)
           a == IF d = 0 THEN DefaultTimeout ELSE d
           end == Second * Deadline(d)
           S == {list[k].id : k \in taken}
           N == {Entry(list[k].id, Deadline(d)) : k \in taken}
<1>1. /\ Kept(q, R) /\ "processing" \in Places
      /\ Moved(R, U, S, "processing", N) /\ Fresh(q, R, S, "processing", N)
  BY PullMessagesMoves DEF Moves, Inv
<1>2. Good(list) /\ now \in Nat /\ list = R["active"]
  BY ListsAreGood, RowShape
<1>3. a > 0 => now + a <= end
  <2>1. a \in Int
    <3>1. d \in Int /\ DefaultTimeout \in Nat
      BY InputAssumption, Zenon
    <3> QED BY <3>1
  <2> QED BY <1>2, <2>1, DeadlineNotEarly DEF Deadline, Unix
<1>4. \A k \in DOMAIN list : /\ list[k].id \in Ids[q]
                             /\ Cells(q)[list[k].id].at = "active"
                             /\ Cells(q)[list[k].id].key = list[k].score
  <2> TAKE k \in DOMAIN list
  <2>1. list[k].id \in Ids[q] /\ Cells(q)[list[k].id] = CellOf("active", list[k])
    BY <1>2, CellNow, PlacesShape DEF Elems
  <2>2. CellOf("active", list[k]) = [at |-> "active", key |-> list[k].score, ret |-> Undefined]
    BY CellOfShape, Zenon
  <2> QED BY <2>1, <2>2
<1>5. taken \subseteq DOMAIN list /\ taken \subseteq 1 .. PullCount(q, n) /\ PullCount(q, n) \in Nat
  <2>1. Len(list) \in Nat /\ DOMAIN list = 1 .. Len(list) /\ n \in Nat
    BY <1>2, ListShape, InputAssumption DEF Good
  <2> QED BY <2>1 DEF Taken, PullCount
<1>6. Cells(q) = CellsIn(q, R) /\ Cells(q)' = CellsIn(q, U)
  BY CellsAreIn
<1>7. CellsIn(q, U) = [j \in Ids[q] |-> CellsIn(q, U)[j]]
  BY CellsShape
<1>8. ASSUME NEW i \in S PROVE CellsIn(q, U)[i] = Cycle(q)!Processing(end)
  <2>1. PICK k \in taken : i = list[k].id
    OBVIOUS
  <2> DEFINE e == Entry(list[k].id, Deadline(d))
  <2>2. e \in N /\ e.id = i /\ e.score = Deadline(d)
    BY <2>1 DEF Entry
  <2> HIDE DEF e, N
  <2>3. CellsIn(q, U)[i] = CellOf("processing", e)
    BY <1>1, <2>2, MovedCells
  <2>4. CellOf("processing", e) =
          [at |-> "processing", key |-> Second * e.score, ret |-> Undefined]
    BY CellOfShape, Zenon
  <2> QED BY <2>2, <2>3, <2>4 DEF Cycle!Processing, Undefined, Cycle!Undefined
<1>9. ASSUME NEW i \in Ids[q], i \notin S PROVE CellsIn(q, U)[i] = CellsIn(q, R)[i]
  <2>1. \A e \in N : e.id # i
    BY <1>9 DEF Entry
  <2> HIDE DEF N, S
  <2> QED BY <1>1, <1>9, <2>1, MovedCells
<1>10. ASSUME NEW i \in S, NEW j \in Ids[q], j \notin S, Cells(q)[j].at = "active",
              InRange(Cells(q)[j].key, lo, hi)
       PROVE  Cells(q)[i].key <= Cells(q)[j].key
  <2>1. PICK k \in taken : i = list[k].id
    OBVIOUS
  <2>2. PICK e \in Elems(list) : e.id = j
    BY <1>2, <1>10, CellIsInList, PlacesShape
  <2>3. PICK h \in DOMAIN list : list[h] = e
    BY DEF Elems
  <2>4. h \notin taken /\ InRange(list[h].score, lo, hi)
    BY <1>4, <1>10, <2>2, <2>3
  <2>5. h \in Nat /\ k \in Nat /\ k < h
    BY <1>2, <1>5, <2>4, ListShape DEF Taken, Good
  <2>6. list[k].score <= list[h].score
    BY <1>2, <1>5, <2>5 DEF Good, Ordered
  <2> QED BY <1>4, <1>5, <2>1, <2>2, <2>3, <2>6
<1>11. ASSUME NEW i \in S
       PROVE  i \in Ids[q] /\ Cells(q)[i].at = "active" /\ InRange(Cells(q)[i].key, lo, hi)
  BY <1>4, <1>5 DEF Taken
<1>12. UNCHANGED now
  BY DEF PullMessages
<1> HIDE DEF R, U, S, end
<1>13. Cells(q)' = [i \in Ids[q] |-> IF i \in S THEN Cycle(q)!Processing(end) ELSE Cells(q)[i]]
  BY <1>6, <1>7, <1>8, <1>9
<1> HIDE DEF a
<1>14. Cycle(q)!Pull(S, lo, hi, a)
  <2>1. S \subseteq {i \in Cycle(q)!At("active") : Cycle(q)!InRange(Cells(q)[i].key, lo, hi)}
    BY <1>11 DEF Cycle!At, Cycle!InRange, InRange
  <2>2. \A i \in S : \A j \in Cycle(q)!At("active") \ S :
          Cycle(q)!InRange(Cells(q)[j].key, lo, hi) => Cells(q)[i].key <= Cells(q)[j].key
    BY <1>10 DEF Cycle!At, Cycle!InRange, InRange
  <2>3. Cells(q)' = [i \in Ids[q] |-> IF i \in S THEN Cells(q)'[i] ELSE Cells(q)[i]]
    BY <1>13
  <2>4. \A i \in S : Cells(q)'[i] = Cycle(q)!Processing(end) /\ Cells(q)'[i].key = end
    BY <1>11, <1>13 DEF Cycle!Processing
  <2> QED BY <1>3, <1>12, <2>1, <2>2, <2>3, <2>4 DEF Cycle!Pull
<1>15. S \in SUBSET Ids[q]
  BY <1>11
<1>16. a \in {IF e = 0 THEN DefaultTimeout ELSE e : e \in AckDeadlines}
  BY DEF a
<1> QED BY <1>14, <1>15, <1>16 DEF Cycle!Next

CycleStep(q) == UNCHANGED Cycle(q)!vars \/ Cycle(q)!Next
AllStep == \A q \in Queue : CycleStep(q)

\* The queues a call does not name rest.
LEMMA OthersRest ==
  ASSUME NEW q \in Queue, NEW D, NEW d, NEW N, Moves(q, D, d, N), UNCHANGED now,
         Cycle(q)!Next
  PROVE  AllStep
<1>1. ASSUME NEW p \in Queue, p # q PROVE UNCHANGED Cycle(p)!vars
  <2>1. Row(p)' = Row(p)
    BY <1>1 DEF Moves
  <2> QED BY <2>1, QueueRests
<1>2. CycleStep(q)
  BY DEF CycleStep
<1>3. ASSUME NEW p \in Queue PROVE CycleStep(p)
  <2>1. CASE p = q
    BY <1>2, <2>1
  <2>2. CASE p # q
    BY <1>1, <2>2 DEF CycleStep
  <2> QED BY <2>1, <2>2
<1> QED BY <1>3 DEF AllStep

\* The empty lists of NewMemoryCache.
LEMMA InitCycle ==
  ASSUME Init, NEW q \in Queue
  PROVE  Cycle(q)!Init
<1>1. \A l \in Places : Row(q)[l] = << >>
  BY RowShape, PlacesShape DEF Init
<1>2. \A i \in Ids[q] : CellsIn(q, Row(q))[i] = NoCell
  BY <1>1, EmptyGood, CellIsNone
<1>3. Cells(q) = [i \in Ids[q] |-> NoCell]
  BY <1>2, CellsAreIn, CellsShape
<1> QED BY <1>3 DEF Cycle!Init, Cycle!None, NoCell, Undefined, Cycle!Undefined, Init

\* A step of the cache is a step of each of its queues, or leaves that one alone.
LEMMA NextCycle ==
  ASSUME Inv, Next
  PROVE  AllStep
<1>1. ASSUME NEW q \in Queue, NEW messages \in Requests(Messages(q)), Insert(q, messages)
      PROVE  AllStep
  <2>1. PICK N : Moves(q, {}, "active", N)
    BY <1>1, InsertMoves
  <2>2. UNCHANGED now
    BY <1>1 DEF Insert
  <2> QED BY <1>1, <2>1, <2>2, InsertInserts, OthersRest
<1>2. ASSUME NEW q \in Queue, NEW n \in PullSizes, NEW lo \in Limits, NEW hi \in Limits,
             NEW d \in AckDeadlines, PullMessages(q, n, lo, hi, d)
      PROVE  AllStep
  <2>1. PICK D, N : Moves(q, D, "processing", N)
    BY <1>2, PullMessagesMoves, Zenon
  <2>2. UNCHANGED now
    BY <1>2 DEF PullMessages
  <2> QED BY <1>2, <2>1, <2>2, PullMessagesPulls, OthersRest
<1>3. ASSUME NEW q \in Queue, NEW i \in Ids[q], NEW s \in Scores, MakeAvailable(q, i, s)
      PROVE  AllStep
  <2>1. PICK D, N : Moves(q, D, "active", N)
    BY <1>3, MakeAvailableMoves, Zenon
  <2>2. UNCHANGED now
    BY <1>3 DEF MakeAvailable
  <2> QED BY <1>3, <2>1, <2>2, MakeAvailableReturns, OthersRest
<1>4. ASSUME NEW q \in Queue, NEW i \in Ids[q], NEW t \in LockTypes, NEW ms \in LockTimes,
             NEW s \in LockScores, LockMessage(q, i, t, ms, s)
      PROVE  AllStep
  <2>1. PICK D, N : Moves(q, D, t, N)
    BY <1>4, LockMessageMoves, Zenon
  <2>2. UNCHANGED now
    BY <1>4 DEF LockMessage
  <2> QED BY <1>4, <2>1, <2>2, LockMessageLocks, OthersRest
<1>5. ASSUME NEW q \in Queue, TimeoutMessages(q) PROVE AllStep
  <2>1. PICK D, N : Moves(q, D, "active", N)
    BY <1>5, TimeoutMessagesMoves, Zenon
  <2>2. UNCHANGED now
    BY <1>5 DEF TimeoutMessages
  <2> QED BY <1>5, <2>1, <2>2, TimeoutMessagesTimesOut, OthersRest
<1>6. ASSUME NEW q \in Queue, NEW ids \in Requests(Ids[q]), Remove(q, ids)
      PROVE  AllStep
  <2> DEFINE D == {ids[k] : k \in DOMAIN ids}
  <2>1. Moves(q, D, "active", {})
    BY <1>6, RemoveMoves
  <2>2. UNCHANGED now
    BY <1>6 DEF Remove
  <2>3. D \in SUBSET Ids[q]
    BY DEF Requests
  <2> HIDE DEF D
  <2>4. Cycle(q)!Next
    BY <2>1, <2>2, <2>3, LeavingRemoves DEF Moves
  <2> QED BY <2>1, <2>2, <2>4, OthersRest
<1>7. ASSUME NEW t \in LockTypes, UnlockMessages(t) PROVE AllStep
  <2>1. UNCHANGED now /\ \A p \in Queue : Row(p)' = Row(p) \/ \E e : Unlocks(p, t, e)
    BY <1>7, UnlockMessagesMoves
  <2>2. ASSUME NEW p \in Queue PROVE CycleStep(p)
    <3>1. CASE Row(p)' = Row(p)
      BY <2>1, <3>1, QueueRests DEF CycleStep
    <3>2. ASSUME NEW e, Unlocks(p, t, e) PROVE Cycle(p)!Next
      BY <2>1, <3>2, UnlockMessagesUnlocks
    <3> QED BY <2>1, <3>1, <3>2 DEF CycleStep
  <2> QED BY <2>2 DEF AllStep
<1>8. ASSUME Flush PROVE AllStep
  <2>1. UNCHANGED now /\ \A p \in Queue : Moved(Row(p), Row(p)', Ids[p], "active", {})
    BY <1>8, FlushMoves DEF Flush
  <2>2. ASSUME NEW p \in Queue PROVE Cycle(p)!Next
    BY <2>1, LeavingRemoves
  <2> QED BY <2>2 DEF AllStep, CycleStep
<1>9. CASE Tick
  BY <1>9, TickTicks DEF AllStep, CycleStep
<1>10. CASE \E q \in Queue : \E messages \in Requests(Messages(q)) : Insert(q, messages)
  BY <1>1, <1>10
<1>11. CASE \E q \in Queue, n \in PullSizes, lo, hi \in Limits, d \in AckDeadlines :
              PullMessages(q, n, lo, hi, d)
  BY <1>2, <1>11
<1>12. CASE \E q \in Queue : \E i \in Ids[q], s \in Scores : MakeAvailable(q, i, s)
  BY <1>3, <1>12
<1>13. CASE \E q \in Queue : \E i \in Ids[q], t \in LockTypes, ms \in LockTimes,
                               s \in LockScores : LockMessage(q, i, t, ms, s)
  BY <1>4, <1>13
<1>14. CASE \E q \in Queue : \E ids \in Requests(Ids[q]) : Remove(q, ids)
  BY <1>6, <1>14
<1>15. CASE \E q \in Queue : TimeoutMessages(q)
  BY <1>5, <1>15
<1> QED BY <1>7, <1>8, <1>9, <1>10, <1>11, <1>12, <1>13, <1>14, <1>15 DEF Next

\* Every queue of the memory cache behaves as the message cycle, for any queues,
\* messages, scores and requests: no pull, unlock, timeout or removal, of this
\* or of another queue, moves a message against it.
THEOREM MemoryImplementsMessageCycle == Spec => ImplementsMessageCycle
<1>1. Init => \A q \in Queue : Cycle(q)!Init
  BY InitCycle, Zenon
<1>2. Inv /\ [Next]_vars =>
        [\A q \in Queue : UNCHANGED Cycle(q)!vars \/ Cycle(q)!Next]_vars
  BY NextCycle DEF AllStep, CycleStep
<1> QED BY <1>1, <1>2, SpecInv, PTL DEF Spec, ImplementsMessageCycle
=============================================================================
