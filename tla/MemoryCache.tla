----------------------------- MODULE MemoryCache -----------------------------
(***************************************************************************)
(* The memory cache: four ordered lists per queue, in one process.  Every  *)
(* method holds one mutex throughout, so it is one action.  Unlike in      *)
(* Redis, queues do interact: an unlock goes over the lists of all queues. *)
(*                                                                         *)
(* Calls that return early with an error change nothing and are stuttering *)
(* steps.                                                                  *)
(***************************************************************************)
EXTENDS Integers, Sequences

CONSTANTS
  Queue,        \* the queues
  Ids,          \* the message ids of each queue
  Scores,       \* scores of inserted and returned messages
  LockScores,   \* scores of locked messages, Undefined among them
  AckDeadlines, \* ackDeadlineMs of a pull, 0 among them
  LockTimes,    \* LockMs of an ack or a nack
  Limits,       \* minScore and maxScore: << >> is the nil pointer, <<s>> points to s
  PullSizes,    \* n of a pull
  MaxRequest,   \* bound on the messages of one insertion and of one removal
  DefaultTimeout, \* DefaultTimeoutMs
  Second,       \* milliseconds in a second, 1000 in the code
  MaxNow        \* bound on the clock

VARIABLES
  queues,           \* the lists of each queue: in the order of the score,
  processingQueues, \*   in the order of the deadline, which is their score,
  lockQueues,       \*   and, per lock type, in the order of the score
  now               \* dtime.NowMs

lists == <<queues, processingQueues, lockQueues>>
vars == <<queues, processingQueues, lockQueues, now>>

ASSUME InputAssumption ==
  /\ \A q \in Queue : Ids[q] \subseteq Nat
  /\ Scores \subseteq Int /\ LockScores \subseteq Int /\ Limits \subseteq Seq(Int)
  /\ AckDeadlines \subseteq Int /\ DefaultTimeout \in Nat \ {0} /\ LockTimes \subseteq Int
  /\ PullSizes \subseteq Nat \ {0}
  /\ MaxRequest \in Nat /\ MaxNow \in Nat /\ Second \in Nat \ {0}

Min == 0
Undefined == -1
LockTypes == {"lock_ack", "lock_nack"}

Entry(i, s) == [id |-> i, score |-> s, lockUntil |-> 0]

-----------------------------------------------------------------------------
(***************************************************************************)
(* Lists                                                                   *)
(***************************************************************************)
Holds(list, i) == \E k \in DOMAIN list : list[k].id = i

\* The first position whose entry passes the test, 0 if there is none.
FirstMatch(list, Test(_)) ==
  LET S == {k \in DOMAIN list : Test(list[k])}
  IN  IF S = {} THEN 0 ELSE CHOOSE k \in S : \A j \in S : k <= j

\* Remove and InsertBefore of container/list.
RemoveAt(k, list) ==
  [j \in 1 .. Len(list) - 1 |-> IF j < k THEN list[j] ELSE list[j + 1]]

InsertBefore(e, k, list) ==
  [j \in 1 .. Len(list) + 1 |->
     IF j < k THEN list[j] ELSE IF j = k THEN e ELSE list[j - 1]]

removeEntry(i, list) ==
  LET k == FirstMatch(list, LAMBDA e : e.id = i)
  IN  IF k = 0 THEN list ELSE RemoveAt(k, list)

SlipInsertEntry(e, list) == Append(removeEntry(e.id, list), e)

\* Before the first entry with the same or a greater score.
insertEntry(e, list) ==
  LET rest == removeEntry(e.id, list)
      k == FirstMatch(rest, LAMBDA f : e.score <= f.score)
  IN  IF k = 0 THEN Append(rest, e) ELSE InsertBefore(e, k, rest)

\* The entries at the positions S, one after the other.
InsertEach(entries, S, list) ==
  LET run[k \in 0 .. Len(entries)] ==
        IF k = 0 THEN list
        ELSE IF k \in S THEN insertEntry(entries[k], run[k - 1]) ELSE run[k - 1]
  IN  run[Len(entries)]

removeFromSlice(ids, list) ==
  LET run[k \in 0 .. Len(ids)] ==
        IF k = 0 THEN list ELSE removeEntry(ids[k], run[k - 1])
  IN  run[Len(ids)]

-----------------------------------------------------------------------------
Init ==
  /\ queues = [q \in Queue |-> << >>]
  /\ processingQueues = [q \in Queue |-> << >>]
  /\ lockQueues = [t \in LockTypes |-> [q \in Queue |-> << >>]]
  /\ now = 0

SlipIsPresent(q, i) ==
  Holds(queues[q], i) \/ \E t \in LockTypes : Holds(lockQueues[t][q], i)

isPresentOnAnyPool(q, i) ==
  \/ Holds(queues[q], i) \/ Holds(processingQueues[q], i)
  \/ \E t \in LockTypes : Holds(lockQueues[t][q], i)

\* All messages are looked up before the first is inserted.
Insert(q, messages) ==
  /\ queues' = [queues EXCEPT ![q] =
       InsertEach(messages, {k \in DOMAIN messages : ~isPresentOnAnyPool(q, messages[k].id)}, @)]
  /\ UNCHANGED <<processingQueues, lockQueues, now>>

InRange(s, lo, hi) == (lo # << >> => lo[1] <= s) /\ (hi # << >> => s <= hi[1])

\* dtime.Now().Unix(): whole seconds, where the cache otherwise uses NowMs.
Unix == now \div Second

\* The score of an entry in processing: seconds plus milliseconds.
Deadline(ackDeadlineMs) ==
  Unix + IF ackDeadlineMs = 0 THEN DefaultTimeout ELSE ackDeadlineMs

\* The entries the filter leaves out count among the n, and are put back in turn.
PullMessages(q, n, lo, hi, ackDeadlineMs) ==
  LET total == Len(queues[q])
      m == IF n < total THEN n ELSE total
      front == SubSeq(queues[q], 1, m)
      taken == {k \in 1 .. m : InRange(front[k].score, lo, hi)}
      pulled == [k \in 1 .. m |-> Entry(front[k].id, Deadline(ackDeadlineMs))]
  IN  /\ queues' = [queues EXCEPT ![q] =
           InsertEach(front, (1 .. m) \ taken, SubSeq(@, m + 1, total))]
      /\ processingQueues' = [processingQueues EXCEPT ![q] = InsertEach(pulled, taken, @)]
      /\ UNCHANGED <<lockQueues, now>>

MakeAvailable(q, i, s) ==
  /\ Holds(processingQueues[q], i)
  /\ processingQueues' = [processingQueues EXCEPT ![q] = removeEntry(i, @)]
  /\ queues' = [queues EXCEPT ![q] = insertEntry(Entry(i, s), @)]
  /\ UNCHANGED <<lockQueues, now>>

LockMessage(q, i, t, lockMs, s) ==
  /\ lockMs > 0
  /\ Holds(processingQueues[q], i)
  /\ processingQueues' = [processingQueues EXCEPT ![q] = removeEntry(i, @)]
  /\ lockQueues' = [lockQueues EXCEPT ![t][q] =
       insertEntry([Entry(i, s) EXCEPT !.lockUntil = now + lockMs], @)]
  /\ UNCHANGED <<queues, now>>

SlipUnlocked(e, t) == e

\* The entry with the score it returns with; lockUntil is not read again.
Unlocked(e, t) ==
  Entry(e.id, IF e.score # Undefined THEN e.score
              ELSE IF t = "lock_ack" THEN now ELSE Min)

\* The loops of the unlocks and the timeouts end with the first entry they
\* remove: a list element has no successor once it is out of its list.  So at
\* most one message of every queue is unlocked, whatever queue the call names.
UnlockMessages(t) ==
  LET first == [q \in Queue |->
                  FirstMatch(lockQueues[t][q], LAMBDA e : now >= e.lockUntil)]
  IN  /\ UNCHANGED <<processingQueues, now>>
      /\ \E q \in Queue : first[q] # 0
      /\ queues' = [q \in Queue |->
           IF first[q] = 0 THEN queues[q]
           ELSE insertEntry(Unlocked(lockQueues[t][q][first[q]], t), queues[q])]
      /\ lockQueues' = [lockQueues EXCEPT ![t] = [q \in Queue |->
           IF first[q] = 0 THEN @[q] ELSE RemoveAt(first[q], @[q])]]

SlipTimedOut(e) == e.score < Unix

TimedOut(e) == e.score <= Unix

SlipReturned(e) == e

Returned(e) == [e EXCEPT !.score = Min]

TimeoutMessages(q) ==
  LET first == FirstMatch(processingQueues[q], TimedOut)
      e == processingQueues[q][first]
  IN  /\ UNCHANGED <<lockQueues, now>>
      /\ first # 0
      /\ processingQueues' = [processingQueues EXCEPT ![q] = removeEntry(e.id, @)]
      /\ queues' = [queues EXCEPT ![q] = insertEntry(Returned(e), @)]

Remove(q, ids) ==
  /\ queues' = [queues EXCEPT ![q] = removeFromSlice(ids, @)]
  /\ processingQueues' = [processingQueues EXCEPT ![q] = removeFromSlice(ids, @)]
  /\ lockQueues' = [t \in LockTypes |->
       [lockQueues[t] EXCEPT ![q] = removeFromSlice(ids, @)]]
  /\ UNCHANGED now

Flush ==
  /\ queues' = [q \in Queue |-> << >>]
  /\ processingQueues' = [q \in Queue |-> << >>]
  /\ lockQueues' = [t \in LockTypes |-> [q \in Queue |-> << >>]]
  /\ UNCHANGED now

Tick == now < MaxNow /\ now' = now + 1 /\ UNCHANGED lists

Messages(q) == {Entry(i, s) : i \in Ids[q], s \in Scores}

\* The arguments of a call: at most MaxRequest of S, in any order, some perhaps twice.
Requests(S) == UNION {[1 .. n -> S] : n \in 0 .. MaxRequest}

Next ==
  \/ \E q \in Queue :
       \/ \E messages \in Requests(Messages(q)) : Insert(q, messages)
       \/ \E n \in PullSizes, lo, hi \in Limits, d \in AckDeadlines :
            PullMessages(q, n, lo, hi, d)
       \/ \E i \in Ids[q], s \in Scores : MakeAvailable(q, i, s)
       \/ \E i \in Ids[q], t \in LockTypes, ms \in LockTimes, s \in LockScores :
            LockMessage(q, i, t, ms, s)
       \/ TimeoutMessages(q)
       \/ \E ids \in Requests(Ids[q]) : Remove(q, ids)
  \/ \E t \in LockTypes : UnlockMessages(t)
  \/ Flush
  \/ Tick

Spec == Init /\ [][Next]_vars

\* The housekeeper runs the timeout and the unlock task every second for as
\* long as the process lives.
FairSpec ==
  /\ Spec
  /\ \A q \in Queue : WF_vars(TimeoutMessages(q))
  /\ \A t \in LockTypes : WF_vars(UnlockMessages(t))

-----------------------------------------------------------------------------
Places == {"active", "processing"} \cup LockTypes

ListAt(q, l) ==
  CASE l = "active" -> queues[q]
    [] l = "processing" -> processingQueues[q]
    [] l \in LockTypes -> lockQueues[l][q]

Lists == Seq([id : Nat, score : Int, lockUntil : Int])

\* What a request carried, the time of an unlock, or Min.
Priorities == Scores \cup (LockScores \ {Undefined}) \cup 0 .. MaxNow

\* The lists hold entries of their queue; a message never becomes available with
\* the Undefined score of a lock that asked for none.
TypeOK ==
  /\ queues \in [Queue -> Lists] /\ processingQueues \in [Queue -> Lists]
  /\ lockQueues \in [LockTypes -> [Queue -> Lists]]
  /\ \A q \in Queue : \A l \in Places : \A k \in DOMAIN ListAt(q, l) :
       LET e == ListAt(q, l)[k]
       IN  /\ e.id \in Ids[q]
           /\ l = "active" => e.score \in Priorities
           /\ l \in LockTypes => e.score \in LockScores
  /\ now \in 0 .. MaxNow

\* A message is at most once in the lists of its queue, even if one request
\* names it twice: it is never delivered while a worker or a lock holds it.
EachMessageOnce ==
  \A q \in Queue : \A l, m \in Places :
    \A j \in DOMAIN ListAt(q, l), k \in DOMAIN ListAt(q, m) :
      ListAt(q, l)[j].id = ListAt(q, m)[k].id => l = m /\ j = k

\* Every list is in the order of its scores, which the pull and the insertion
\* rely on: pulls that take entries out and put the filtered ones back, returns
\* and unlocks keep it.
Sorted ==
  \A q \in Queue : \A l \in Places :
    \A j, k \in DOMAIN ListAt(q, l) :
      j < k => ListAt(q, l)[j].score <= ListAt(q, l)[k].score

\* The cell of a message with entry e in list l.
CellOf(l, e) ==
  CASE l = "active" -> [at |-> l, key |-> e.score, ret |-> Undefined]
    [] l = "processing" -> [at |-> l, key |-> Second * e.score, ret |-> Undefined]
    [] l \in LockTypes -> [at |-> l, key |-> e.lockUntil, ret |-> e.score]

EntryOf(list, i) == list[CHOOSE k \in DOMAIN list : list[k].id = i]

\* All messages of a queue, nowhere unless a list holds them.
Cells(q) ==
  [i \in Ids[q] |->
     CASE Holds(queues[q], i) -> CellOf("active", EntryOf(queues[q], i))
       [] Holds(processingQueues[q], i) ->
            CellOf("processing", EntryOf(processingQueues[q], i))
       [] Holds(lockQueues["lock_ack"][q], i) ->
            CellOf("lock_ack", EntryOf(lockQueues["lock_ack"][q], i))
       [] Holds(lockQueues["lock_nack"][q], i) ->
            CellOf("lock_nack", EntryOf(lockQueues["lock_nack"][q], i))
       [] OTHER -> [at |-> "none", key |-> 0, ret |-> Undefined]]

Cycle(q) == INSTANCE MessageCycle WITH
  Id <- Ids[q], cell <- Cells(q), Punctual <- FALSE,
  AckDeadlines <- {IF d = 0 THEN DefaultTimeout ELSE d : d \in AckDeadlines}

\* Each queue implements the message cycle, the promise the Redis scripts also
\* keep, although the lists of all queues are unlocked together, and a pull that
\* filters looks at no more than n entries.  A worker has a message for no less
\* than it asked for, whatever part of a second Unix leaves out, but the deadline
\* is not punctual: Unix adds milliseconds to seconds, so the message returns
\* after a thousand times what was asked for.  "Sets the amount of time in
\* milliseconds a message will wait be available for processing before being
\* returned to the queue if not ACKed" (deckard_service.proto:131) is not kept.
ImplementsMessageCycle ==
  /\ \A q \in Queue : Cycle(q)!Init
  /\ [][\A q \in Queue : UNCHANGED Cycle(q)!vars \/ Cycle(q)!Next]_vars

LockOver(list) == {k \in DOMAIN list : list[k].lockUntil <= now}

Overdue(q, i) ==
  \/ \E k \in DOMAIN processingQueues[q] :
       processingQueues[q][k].id = i /\ processingQueues[q][k].score <= Unix
  \/ \E t \in LockTypes : \E k \in LockOver(lockQueues[t][q]) :
       lockQueues[t][q][k].id = i /\ LockOver(lockQueues[t][q]) = {k}

\* A pull whose deadline is over when it is made.
PullInThePast ==
  \E q \in Queue, n \in PullSizes, lo, hi \in Limits, d \in AckDeadlines :
    d < 0 /\ PullMessages(q, n, lo, hi, d)

\* No message stays overdue.  One past its deadline returns although a call moves
\* only one, because the list is in the order of the deadlines, and no pull gets
\* before it unless it asks for a negative time.  The lists of locked messages are
\* in the order of their scores, and there a message is only sure to return when
\* its lock is the only one that is over: others may overtake it for ever.
OverdueReturns ==
  <>[][~PullInThePast]_vars => \A q \in Queue : \A i \in Ids[q] : []<>~Overdue(q, i)
=============================================================================
