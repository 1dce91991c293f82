----------------------------- MODULE RedisCache -----------------------------
(***************************************************************************)
(* The Redis cache of one queue: six sorted sets and the Lua scripts that  *)
(* move message ids between them.  Redis runs a script atomically, so each *)
(* script, with the Go method that prepares its arguments, is one action.  *)
(* The keys of different queues are disjoint and every script names the    *)
(* keys of one queue, so queues do not interact.                           *)
(*                                                                         *)
(* Calls that return early with an error (a queue name with braces, an     *)
(* empty queue name) change nothing and are stuttering steps.              *)
(***************************************************************************)
EXTENDS Integers, FiniteSets, Sequences

CONSTANTS
  Id,           \* message ids; the order of numbers stands for the order of strings
  Scores,       \* scores of inserted and returned messages
  LockScores,   \* scores of locked messages, Undefined among them
  AckDeadlines, \* ackDeadlineMs of a pull, 0 among them
  LockTimes,    \* LockMs of an ack or a nack
  Limits,       \* minScore and maxScore: << >> is the nil pointer, <<s>> points to s
  PullSizes,    \* n of a pull; the service raises it to at least 1
  DefaultTimeout, \* DefaultTimeoutMs
  BatchSize,    \* messages one unlock or timeout call moves at most (1000 in the code)
  MaxNow        \* bound on the clock

VARIABLES
  active,     \* the sorted sets, as functions from the ids they hold to scores:
  processing, \*   processing is keyed by the acknowledgement deadline,
  lock,       \*   lock[t] by the end of the lock,
  lockScore,  \*   lockScore[t] by the score to return with
  now,        \* dtime.NowMs
  reply       \* ids the last call reported; for a Boolean result, {i} is true

pools == <<active, processing, lock, lockScore>>
vars == <<active, processing, lock, lockScore, now, reply>>

ASSUME IdAssumption == Id \subseteq Nat /\ IsFiniteSet(Id)
ASSUME InputAssumption ==
  /\ Scores \subseteq Int
  /\ LockScores \subseteq Int
  /\ AckDeadlines \subseteq Int
  /\ LockTimes \subseteq Int
  /\ Limits \subseteq Seq(Int)
  /\ PullSizes \subseteq Nat \ {0}
  /\ DefaultTimeout \in Int
  /\ BatchSize \in Nat
  /\ MaxNow \in Nat

(***************************************************************************)
(* Sorted sets                                                             *)
(***************************************************************************)
IsZSet(z) == DOMAIN z \subseteq Id /\ \A i \in DOMAIN z : z[i] \in Int
Empty == [i \in {} |-> 0]

\* The members of add are given their scores, the new ones being added.
ZADD(z, add) ==
  [i \in DOMAIN z \cup DOMAIN add |-> IF i \in DOMAIN add THEN add[i] ELSE z[i]]

\* The members ZADD counts in its reply: those that were not there before.
ZADDed(z, add) == DOMAIN add \ DOMAIN z

ZREM(z, S) == [i \in DOMAIN z \ S |-> z[i]]

\* A sorted set with the members of S, all with score s.
Scored(S, s) == [i \in S |-> s]

\* Sorted sets order members by score, then by name.
Before(z, i, j) == z[i] < z[j] \/ (z[i] = z[j] /\ i < j)

\* The first n members of S, and the last n.
FirstN(z, S, n) == {i \in S : Cardinality({j \in S : Before(z, j, i)}) < n}
LastN(z, S, n) == {i \in S : Cardinality({j \in S : Before(z, i, j)}) < n}

-----------------------------------------------------------------------------
Min == 0
Undefined == -1
LockTypes == {"lock_ack", "lock_nack"}

\* Definitions named Slip... are the definition they precede with a plausible
\* slip of the code; they show that the properties can fail.
SlipPresent == DOMAIN active \cup DOMAIN lock["lock_nack"] \cup DOMAIN lock["lock_ack"]

\* The sorted sets an insertion searches for the id: all but the two that
\* only hold scores.
Present == DOMAIN active \cup DOMAIN lock["lock_nack"] \cup DOMAIN lock["lock_ack"]
             \cup DOMAIN processing

Init ==
  /\ active = Empty /\ processing = Empty
  /\ lock = [t \in LockTypes |-> Empty]
  /\ lockScore = [t \in LockTypes |-> Empty]
  /\ now = 0 /\ reply = {}

\* addElements.  A request that lists an id twice has the effect of its last
\* entry; one longer than 2000 messages is several insertions.
Insert(req) ==
  LET new == DOMAIN req \ Present
  IN  /\ active' = ZADD(active, [i \in new |-> req[i]])
      /\ reply' = new
      /\ UNCHANGED <<processing, lock, lockScore, now>>

InRange(s, lo, hi) == (lo # << >> => lo[1] <= s) /\ (hi # << >> => s <= hi[1])

\* pullElements
PullMessages(n, lo, hi, ackDeadlineMs) ==
  LET deadline == now + IF ackDeadlineMs = 0 THEN DefaultTimeout ELSE ackDeadlineMs
      elements == FirstN(active, {i \in DOMAIN active : InRange(active[i], lo, hi)}, n)
  IN  /\ processing' = ZADD(processing, Scored(elements, deadline))
      /\ active' = ZREM(active, elements)
      /\ reply' = elements
      /\ UNCHANGED <<lock, lockScore, now>>

\* moveElement: the result is that of ZADD, 1 when the id is new in active.
MakeAvailable(i, s) ==
  /\ UNCHANGED <<lock, lockScore, now>>
  /\ \/ /\ i \in DOMAIN processing
        /\ processing' = ZREM(processing, {i})
        /\ active' = ZADD(active, Scored({i}, s))
        /\ reply' = ZADDed(active, Scored({i}, s))
     \/ /\ i \notin DOMAIN processing
        /\ reply' = {}
        /\ UNCHANGED <<active, processing>>

SlipKeepsScore(s) == TRUE

\* Whether a lock stores the score to return with.
KeepsScore(s) == s # Undefined

\* lockElement: the result is that of the last ZADD it runs.
LockMessage(i, t, lockMs, s) ==
  /\ lockMs > 0
  /\ UNCHANGED <<active, now>>
  /\ \/ /\ i \in DOMAIN processing
        /\ processing' = ZREM(processing, {i})
        /\ lock' = [lock EXCEPT ![t] = ZADD(@, Scored({i}, now + lockMs))]
        /\ \/ /\ ~KeepsScore(s)
              /\ reply' = ZADDed(lock[t], Scored({i}, now + lockMs))
              /\ UNCHANGED lockScore
           \/ /\ KeepsScore(s)
              /\ lockScore' = [lockScore EXCEPT ![t] = ZADD(@, Scored({i}, s))]
              /\ reply' = ZADDed(lockScore[t], Scored({i}, s))
     \/ /\ i \notin DOMAIN processing
        /\ reply' = {}
        /\ UNCHANGED <<processing, lock, lockScore>>

SlipExpired(z) == LastN(z, {i \in DOMAIN z : 0 <= z[i] /\ z[i] < now}, BatchSize)

\* ZREVRANGEBYSCORE z now 0 LIMIT 0 BatchSize: the latest first.
Expired(z) == LastN(z, {i \in DOMAIN z : 0 <= z[i] /\ z[i] <= now}, BatchSize)

SlipDefaultScore(t) == Min

DefaultScore(t) == IF t = "lock_ack" THEN now ELSE Min

UnlockScore(i, t) ==
  IF i \in DOMAIN lockScore[t] THEN lockScore[t][i] ELSE DefaultScore(t)

SlipScoresKept(t, elements) == lockScore[t]

\* The scores that stay once the messages of elements are unlocked.
ScoresKept(t, elements) == ZREM(lockScore[t], elements)

\* unlockElements
UnlockMessages(t) ==
  LET elements == Expired(lock[t])
  IN  /\ active' = ZADD(active, [i \in elements |-> UnlockScore(i, t)])
      /\ lock' = [lock EXCEPT ![t] = ZREM(@, elements)]
      /\ lockScore' = [lockScore EXCEPT ![t] = ScoresKept(t, elements)]
      /\ reply' = elements
      /\ UNCHANGED <<processing, now>>

\* moveFilteredElements
TimeoutMessages ==
  LET elements == Expired(processing)
  IN  /\ active' = ZADD(active, Scored(elements, Min))
      /\ processing' = ZREM(processing, elements)
      /\ reply' = elements
      /\ UNCHANGED <<lock, lockScore, now>>

\* removeElement.  A request longer than 4000 ids is several removals.  The
\* number it returns, the sum over the six sets, is left out.
Remove(S) ==
  /\ active' = ZREM(active, S)
  /\ processing' = ZREM(processing, S)
  /\ lock' = [t \in LockTypes |-> ZREM(lock[t], S)]
  /\ lockScore' = [t \in LockTypes |-> ZREM(lockScore[t], S)]
  /\ reply' = {}
  /\ UNCHANGED now

\* All keys are lost at once: the operator clears Redis, or it restarts empty.
Clear ==
  /\ active' = Empty /\ processing' = Empty
  /\ lock' = [t \in LockTypes |-> Empty]
  /\ lockScore' = [t \in LockTypes |-> Empty]
  /\ reply' = {}
  /\ UNCHANGED now

Tick ==
  /\ now < MaxNow /\ now' = now + 1
  /\ reply' = {}
  /\ UNCHANGED pools

Requests == UNION {[S -> Scores] : S \in SUBSET Id}

Next ==
  \/ \E req \in Requests : Insert(req)
  \/ \E n \in PullSizes, lo, hi \in Limits, d \in AckDeadlines : PullMessages(n, lo, hi, d)
  \/ \E i \in Id, s \in Scores : MakeAvailable(i, s)
  \/ \E i \in Id, t \in LockTypes, ms \in LockTimes, s \in LockScores :
       LockMessage(i, t, ms, s)
  \/ \E t \in LockTypes : UnlockMessages(t)
  \/ TimeoutMessages
  \/ \E S \in SUBSET Id : Remove(S)
  \/ Clear
  \/ Tick

Spec == Init /\ [][Next]_vars

\* The housekeeper runs the timeout and the unlock task every second for as
\* long as the process lives.
FairSpec ==
  /\ Spec
  /\ WF_vars(TimeoutMessages)
  /\ \A t \in LockTypes : WF_vars(UnlockMessages(t))

-----------------------------------------------------------------------------
\* The sorted sets hold ids with integer scores, those that keep the scores of
\* locked messages hold no Undefined one, and a call reports ids.
TypeOK ==
  /\ IsZSet(active) /\ IsZSet(processing)
  /\ DOMAIN lock = LockTypes /\ DOMAIN lockScore = LockTypes
  /\ \A t \in LockTypes : IsZSet(lock[t]) /\ IsZSet(lockScore[t])
  /\ \A t \in LockTypes : \A i \in DOMAIN lockScore[t] : lockScore[t][i] # Undefined
  /\ now \in Nat
  /\ reply \in SUBSET Id

\* A message is in at most one of active, processing, lock_ack and lock_nack,
\* whatever the order of insertions, pulls, acks, nacks, timeouts, unlocks and
\* removals: it is never delivered again while a worker or a lock holds it.
PoolsDisjoint ==
  /\ DOMAIN active \cap DOMAIN processing = {}
  /\ \A t \in LockTypes : DOMAIN lock[t] \cap (DOMAIN active \cup DOMAIN processing) = {}
  /\ \A t, u \in LockTypes : t # u => DOMAIN lock[t] \cap DOMAIN lock[u] = {}

\* A score kept for the end of a lock belongs to a message that is locked: no
\* score of an earlier lock is left for a later one, which would make the
\* message return with a priority nobody asked for.
ScoresOnlyWhileLocked ==
  \A t \in LockTypes : DOMAIN lockScore[t] \subseteq DOMAIN lock[t]

\* The pool a message is in.
Place(i) ==
  IF i \in DOMAIN active THEN "active"
  ELSE IF i \in DOMAIN processing THEN "processing"
  ELSE IF i \in DOMAIN lock["lock_ack"] THEN "lock_ack"
  ELSE IF i \in DOMAIN lock["lock_nack"] THEN "lock_nack"
  ELSE "none"

\* A call reports exactly the messages it put into another pool.  The scripts
\* behind MakeAvailable and LockMessage report what ZADD counts, which is right
\* only because the id cannot already be in the set they add it to.
ReplyIsWhatMoved ==
  [][\A i \in Id : i \in reply' <=> Place(i)' \notin {Place(i), "none"}]_vars

(***************************************************************************)
(* The six sets together behave as one cell per message.                   *)
(***************************************************************************)
CellOf(i) ==
  CASE Place(i) = "active" -> [at |-> "active", key |-> active[i], ret |-> Undefined]
    [] Place(i) = "processing" -> [at |-> "processing", key |-> processing[i], ret |-> Undefined]
    [] Place(i) \in LockTypes ->
         [at |-> Place(i), key |-> lock[Place(i)][i],
          ret |-> IF i \in DOMAIN lockScore[Place(i)]
                  THEN lockScore[Place(i)][i] ELSE Undefined]
    [] OTHER -> [at |-> "none", key |-> 0, ret |-> Undefined]

Cycle == INSTANCE MessageCycle WITH
  cell <- [i \in Id |-> CellOf(i)], Punctual <- TRUE,
  AckDeadlines <- {IF d = 0 THEN DefaultTimeout ELSE d : d \in AckDeadlines}

\* The scripts implement the message cycle: an id moves only along it, in the
\* order of the scores, out of processing and out of a lock by themselves only
\* when their time has come, and back with the score the last lock asked for.
ImplementsMessageCycle == Cycle!Spec

PastDue(z, i) == i \in DOMAIN z /\ 0 <= z[i] /\ z[i] <= now
Crowded(z) == Cardinality({i \in DOMAIN z : PastDue(z, i)}) > BatchSize

\* A message whose deadline or whose lock has passed is eventually put back (or
\* removed), unless more messages are past due than one call moves: the scripts
\* take the latest first, and entries that keep coming may then overtake it.  A
\* deadline before 0, which a request may ask for with negative milliseconds or
\* with so many that the sum wraps around, is below what the scripts look at.
ExpiredEventuallyReturns ==
  \A i \in Id :
    /\ PastDue(processing, i) ~> (~PastDue(processing, i) \/ Crowded(processing))
    /\ \A t \in LockTypes :
         PastDue(lock[t], i) ~> (~PastDue(lock[t], i) \/ Crowded(lock[t]))
=============================================================================
