-------------------------------- MODULE Queue --------------------------------
(***************************************************************************)
(* The queue layer between the gRPC service, the storage and the cache, for *)
(* one queue.  A request is a sequence of calls to MongoDB and to Redis,   *)
(* and the calls of different requests, of the housekeeper's tasks and of  *)
(* other Deckard processes interleave: each call is one step of a caller.  *)
(*                                                                         *)
(* A message is its expiry date in the storage and the pool it is in in    *)
(* the cache, the scores and the other fields being left to RedisCache.    *)
(* The storage is the primary and a secondary that lags behind it.         *)
(***************************************************************************)
EXTENDS Integers, FiniteSets

CONSTANTS
  Id,          \* message ids of the queue
  Caller,      \* requests and housekeeper tasks that run at the same time
  Lifetimes,   \* times to live of added messages, Century for a timeless one
  Century,
  MaxElements, \* the queue's configuration, 0 when it has none
  Failures,    \* whether calls fail and processes die
  MaxToday     \* bound on the date

VARIABLES
  primary,   \* expiry date of each stored message, or Absent
  secondary, \* what the secondary shows of it
  place,     \* the cache: the pool each message is in, or "none"
  today,
  step,      \* per caller, the call it makes next, or "idle"
  ids,       \*   the messages it works on
  reason,    \*   why it removes them
  excess,    \*   how many messages a MAX_ELEMENTS task counted beyond the limit
  overlapped, \* history: messages an unfinished or a concurrent call touched
  renewed    \* history: messages stored while an earlier version was still around

vars == <<primary, secondary, place, today, step, ids, reason, excess, overlapped, renewed>>
stores == <<primary, secondary, place>>

ASSUME IdAssumption == IsFiniteSet(Id)
ASSUME LifetimeAssumption ==
  /\ Lifetimes \subseteq Nat
  /\ Century \in Nat /\ MaxToday \in Nat /\ MaxElements \in Nat
  /\ Failures \in BOOLEAN
ASSUME CenturyAssumption == MaxToday < Century

Absent == -1
Stored(i) == primary[i] # Absent
Places == {"none", "active", "processing", "locked"}
Steps == {"idle", "addCache", "pullFind", "pullRetry", "pullClean", "ackCache",
          "trimFind", "removeStorage", "removeCache"}
Reasons == {"REQUEST", "TTL", "MAX_ELEMENTS"}

Init ==
  /\ primary = [i \in Id |-> Absent]
  /\ secondary = [i \in Id |-> Absent]
  /\ place = [i \in Id |-> "none"]
  /\ today = 0
  /\ step = [c \in Caller |-> "idle"]
  /\ ids = [c \in Caller |-> {}]
  /\ reason = [c \in Caller |-> "REQUEST"]
  /\ excess = [c \in Caller |-> 0]
  /\ overlapped = {}
  /\ renewed = {}

\* Caller c goes on with step s on the messages of S.
Goto(c, s, S) ==
  /\ step' = [step EXCEPT ![c] = s]
  /\ ids' = [ids EXCEPT ![c] = IF s = "idle" THEN {} ELSE S]
  /\ reason' = [reason EXCEPT ![c] = IF s = "idle" THEN "REQUEST" ELSE @]
  /\ excess' = [excess EXCEPT ![c] = 0]

\* The messages of S some caller is about to add to, or drop from, the cache.
Adding(S) == {i \in S : \E c \in Caller : step[c] = "addCache" /\ i \in ids[c]}
Removing(S) == {i \in S : \E c \in Caller : step[c] = "removeCache" /\ i \in ids[c]}
Dropping(S) ==
  {i \in S : \E c \in Caller : step[c] \in {"removeCache", "pullClean"} /\ i \in ids[c]}

\* The messages of S that are stored, that the secondary still shows, or that a
\* TTL task has read as expired and is about to delete.
Around(S) ==
  {i \in S : \/ Stored(i) \/ secondary[i] # Absent
             \/ \E c \in Caller :
                  step[c] = "removeStorage" /\ reason[c] = "TTL" /\ i \in ids[c]}

Move(S, p) == place' = [i \in Id |-> IF i \in S THEN p ELSE place[i]]
Write(S, date) ==
  /\ primary' = [i \in Id |-> IF i \in S THEN date ELSE primary[i]]
  /\ renewed' = (renewed \ S) \cup (IF date = Absent THEN {} ELSE Around(S))

-----------------------------------------------------------------------------
(***************************************************************************)
(* Add: an upsert into the storage, then the insertion into the cache of   *)
(* what no pool holds                                                      *)
(***************************************************************************)
AddMessagesToStorage(c, S, life) ==
  /\ step[c] = "idle" /\ S # {}
  /\ Write(S, today + life)
  /\ overlapped' = overlapped \cup Dropping(S)
  /\ Goto(c, "addCache", S)
  /\ UNCHANGED <<secondary, place, today>>

\* The unordered bulk write fails after writing some of the messages.
AddMessagesToStorageFails(c, S, life) ==
  /\ Failures
  /\ step[c] = "idle" /\ S # {}
  /\ Write(S, today + life)
  /\ overlapped' = overlapped \cup S
  /\ UNCHANGED <<secondary, place, today, step, ids, reason, excess>>

AddMessagesToCache(c) ==
  /\ step[c] = "addCache"
  /\ Move({i \in ids[c] : place[i] = "none"}, "active")
  /\ Goto(c, "idle", {})
  /\ UNCHANGED <<primary, secondary, today, overlapped, renewed>>

(***************************************************************************)
(* Pull: take active messages, read them from the secondary, read those it *)
(* does not have from the primary, and drop from the cache those that the  *)
(* primary does not have either                                            *)
(***************************************************************************)
Pull(c, S) ==
  /\ step[c] = "idle"
  /\ S # {} /\ \A i \in S : place[i] = "active"
  /\ Move(S, "processing")
  /\ Goto(c, "pullFind", S)
  /\ UNCHANGED <<primary, secondary, today, overlapped, renewed>>

\* Caller c goes on with step s if there are messages that were not found.
GotoIfAny(c, s, notFound) == Goto(c, IF notFound = {} THEN "idle" ELSE s, notFound)

SlipRetryRead(i) == secondary[i]

\* What the retry of a pull reads.
RetryRead(i) == primary[i]

getFromStorage(c) ==
  /\ step[c] = "pullFind"
  /\ GotoIfAny(c, "pullRetry", {i \in ids[c] : secondary[i] = Absent})
  /\ UNCHANGED <<stores, today, overlapped, renewed>>

getFromStorageRetry(c) ==
  /\ step[c] = "pullRetry"
  /\ GotoIfAny(c, "pullClean", {i \in ids[c] : RetryRead(i) = Absent})
  /\ UNCHANGED <<stores, today, overlapped, renewed>>

PullClean(c) ==
  /\ step[c] = "pullClean"
  /\ Move(ids[c], "none")
  /\ Goto(c, "idle", {})
  /\ UNCHANGED <<primary, secondary, today, overlapped, renewed>>

(***************************************************************************)
(* Ack and Nack: update the document, return or lock the message, and      *)
(* remove it if removeMessage was set                                      *)
(***************************************************************************)
AckStorage(c, i) ==
  /\ step[c] = "idle"
  /\ Goto(c, "ackCache", {i})
  /\ UNCHANGED <<stores, today, overlapped, renewed>>

AckCache(c, p, removeMessage) ==
  /\ step[c] = "ackCache"
  /\ Move({i \in ids[c] : place[i] = "processing"}, p)
  /\ Goto(c, IF removeMessage THEN "removeStorage" ELSE "idle", ids[c])
  /\ UNCHANGED <<primary, secondary, today, overlapped, renewed>>

(***************************************************************************)
(* Removals: on request, of expired messages, and of those beyond the      *)
(* limit; from the storage, then from the cache                            *)
(***************************************************************************)
RemoveRequest(c, S) ==
  /\ step[c] = "idle" /\ S # {}
  /\ Goto(c, "removeStorage", S)
  /\ UNCHANGED <<stores, today, overlapped, renewed>>

SlipExpired == {i \in Id : secondary[i] # Absent /\ secondary[i] <= today + 1}

\* What the query of the TTL task finds, on the secondary.
Expired == {i \in Id : secondary[i] # Absent /\ secondary[i] <= today}

\* Some order by expiry date has the messages of S before the others it shows.
AreFirst(S, shown) ==
  S \subseteq shown /\ \A i \in S, j \in shown \ S : secondary[i] <= secondary[j]

\* The query has a limit, which messages of other queues may use up in part.
RemoveTTLMessages(c, S) ==
  /\ step[c] = "idle"
  /\ S # {} /\ AreFirst(S, Expired)
  /\ step' = [step EXCEPT ![c] = "removeStorage"]
  /\ ids' = [ids EXCEPT ![c] = S]
  /\ reason' = [reason EXCEPT ![c] = "TTL"]
  /\ UNCHANGED <<stores, today, excess, overlapped, renewed>>

SlipExceeding(total) == MaxElements - total

Exceeding(total) == total - MaxElements

\* Count, then Find, both on the secondary.
CountExceeding(c) ==
  LET total == Cardinality({i \in Id : secondary[i] # Absent})
  IN  /\ step[c] = "idle" /\ MaxElements > 0 /\ total > MaxElements
      /\ step' = [step EXCEPT ![c] = "trimFind"]
      /\ reason' = [reason EXCEPT ![c] = "MAX_ELEMENTS"]
      /\ excess' = [excess EXCEPT ![c] = Exceeding(total)]
      /\ UNCHANGED <<stores, today, ids, overlapped, renewed>>

\* S are the first n, or all, of what is shown.
IsFirstN(S, shown, n) ==
  /\ AreFirst(S, shown)
  /\ Cardinality(S) = IF n < Cardinality(shown) THEN n ELSE Cardinality(shown)

FindExceeding(c, S) ==
  /\ step[c] = "trimFind"
  /\ IsFirstN(S, {i \in Id : secondary[i] # Absent}, excess[c])
  /\ Goto(c, "removeStorage", S)
  /\ UNCHANGED <<stores, today, overlapped, renewed>>

RemoveStorage(c) ==
  /\ step[c] = "removeStorage"
  /\ Write(ids[c], Absent)
  /\ overlapped' = overlapped \cup Adding(ids[c])
  /\ Goto(c, "removeCache", ids[c])
  /\ UNCHANGED <<secondary, place, today>>

\* A chunk of the deletion fails when some of the messages are gone.
RemoveStorageFails(c, S) ==
  /\ Failures
  /\ step[c] = "removeStorage" /\ S \subseteq ids[c]
  /\ Write(S, Absent)
  /\ overlapped' = overlapped \cup S
  /\ Goto(c, "idle", {})
  /\ UNCHANGED <<secondary, place, today>>

RemoveCache(c) ==
  /\ step[c] = "removeCache"
  /\ Move(ids[c], "none")
  /\ Goto(c, "idle", {})
  /\ UNCHANGED <<primary, secondary, today, overlapped, renewed>>

(***************************************************************************)
(* The rest of the system                                                  *)
(***************************************************************************)
\* A call of c fails without effect and its request ends with an error, or its
\* process dies.
Fail(c) ==
  /\ Failures
  /\ step[c] \notin {"idle", "addCache", "removeCache"}
  /\ Goto(c, "idle", {})
  /\ UNCHANGED <<stores, today, overlapped, renewed>>

\* The same before the last call of an addition or a removal, which the cache
\* gets in several parts: it may have done some of them.
FailInCache(c, S) ==
  /\ Failures
  /\ S \subseteq ids[c]
  /\ \/ step[c] = "addCache" /\ Move({i \in S : place[i] = "none"}, "active")
     \/ step[c] = "removeCache" /\ Move(S, "none")
  /\ overlapped' = overlapped \cup ids[c]
  /\ Goto(c, "idle", {})
  /\ UNCHANGED <<primary, secondary, today, renewed>>

\* The housekeeper returns a message whose deadline or lock has passed.
TimeoutMessage(i) ==
  /\ place[i] = "processing" /\ Move({i}, "active")
  /\ UNCHANGED <<primary, secondary, today, step, ids, reason, excess, overlapped, renewed>>

UnlockMessage(i) ==
  /\ place[i] = "locked" /\ Move({i}, "active")
  /\ UNCHANGED <<primary, secondary, today, step, ids, reason, excess, overlapped, renewed>>

Replicate(i) ==
  /\ secondary[i] # primary[i]
  /\ secondary' = [secondary EXCEPT ![i] = primary[i]]
  /\ UNCHANGED <<primary, place, today, step, ids, reason, excess, overlapped, renewed>>

NextDay ==
  /\ today < MaxToday /\ today' = today + 1
  /\ UNCHANGED <<stores, step, ids, reason, excess, overlapped, renewed>>

\* The calls a started request or task still has to make.
Proceed(c) ==
  \/ AddMessagesToCache(c)
  \/ getFromStorage(c) \/ getFromStorageRetry(c) \/ PullClean(c)
  \/ \E p \in {"active", "locked"}, rm \in BOOLEAN : AckCache(c, p, rm)
  \/ \E S \in SUBSET Id : FindExceeding(c, S)
  \/ RemoveStorage(c) \/ RemoveCache(c)

Next ==
  \/ \E c \in Caller, S \in SUBSET Id, life \in Lifetimes :
       AddMessagesToStorage(c, S, life) \/ AddMessagesToStorageFails(c, S, life)
  \/ \E c \in Caller, S \in SUBSET Id :
       \/ Pull(c, S) \/ RemoveRequest(c, S) \/ RemoveTTLMessages(c, S)
       \/ RemoveStorageFails(c, S) \/ FailInCache(c, S)
  \/ \E c \in Caller, i \in Id : AckStorage(c, i)
  \/ \E c \in Caller : CountExceeding(c) \/ Proceed(c) \/ Fail(c)
  \/ \E i \in Id : TimeoutMessage(i) \/ UnlockMessage(i) \/ Replicate(i)
  \/ NextDay

Spec == Init /\ [][Next]_vars

-----------------------------------------------------------------------------
\* Dates, pools, steps and counts are what they are declared to be; in
\* particular the MAX_ELEMENTS task never asks for a negative number.
TypeOK ==
  /\ primary \in [Id -> Nat \cup {Absent}] /\ secondary \in [Id -> Nat \cup {Absent}]
  /\ place \in [Id -> Places]
  /\ today \in Nat
  /\ step \in [Caller -> Steps]
  /\ ids \in [Caller -> SUBSET Id]
  /\ reason \in [Caller -> Reasons]
  /\ excess \in [Caller -> Nat]
  /\ overlapped \in SUBSET Id /\ renewed \in SUBSET Id

\* The cache follows the storage.  A message that no addition and removal have
\* overlapped on, and no call has failed on half-way, is in a pool exactly when
\* it is stored, but for the time between the two calls of the request that is
\* adding or removing it.  In particular Pull's clean-up of "inconsistent
\* elements" does not drop a message that the secondary has not received yet.
CacheFollowsStorage ==
  \A i \in Id \ overlapped :
    \/ Stored(i) <=> place[i] # "none"
    \/ Stored(i) /\ i \in Adding(Id)
    \/ ~Stored(i) /\ i \in Removing(Id)

\* The TTL task deletes no message before its expiry date, however old what it has
\* read is when it deletes, but one that was added again in the meantime.
RenewedAloneDieEarly ==
  [][\A i \in Id \ renewed :
       Stored(i) /\ primary[i] > today /\ ~Stored(i)'
         => \E c \in Caller :
              step[c] = "removeStorage" /\ i \in ids[c] /\ reason[c] # "TTL"]_vars

\* A message is deleted from the storage before its expiry date only because
\* somebody asked for it.
LivesUntilExpiry ==
  [][\A i \in Id :
       Stored(i) /\ primary[i] > today /\ ~Stored(i)'
         => \E c \in Caller :
              step[c] = "removeStorage" /\ i \in ids[c] /\ reason[c] = "REQUEST"]_vars
=============================================================================
