----------------------------- MODULE QueueProofs -----------------------------
(***************************************************************************)
(* The cache follows the storage, for any number of messages, of           *)
(* concurrent requests and of processes.                                   *)
(*                                                                         *)
(* CacheFollowsStorage is not inductive: it does not say what a caller     *)
(* that has made its first call knows about the storage when it makes the  *)
(* second.  Settled adds that: until an addition and a removal overlap on  *)
(* a message, whoever is about to add it to the cache has it stored, and   *)
(* whoever is about to drop it has it gone.                                *)
(***************************************************************************)
EXTENDS Queue, FiniteSetTheorems, TLAPS

Settled(i) ==
  /\ i \in Adding(Id) => Stored(i)
  /\ i \in Dropping(Id) => ~Stored(i)
  /\ Stored(i) /\ i \notin Adding(Id) => place[i] # "none"
  /\ ~Stored(i) /\ i \notin Removing(Id) => place[i] = "none"

Inv == TypeOK /\ \A i \in Id \ overlapped : Settled(i)

\* A caller's local state stays well typed when it goes on.
LEMMA GotoType ==
  ASSUME TypeOK, NEW c \in Caller, NEW s \in Steps, NEW S \in SUBSET Id, Goto(c, s, S)
  PROVE  /\ step' \in [Caller -> Steps] /\ ids' \in [Caller -> SUBSET Id]
         /\ reason' \in [Caller -> Reasons] /\ excess' \in [Caller -> Nat]
         /\ step'[c] = s /\ (s # "idle" => ids'[c] = S)
         /\ reason'[c] = IF s = "idle" THEN "REQUEST" ELSE reason[c]
         /\ \A d \in Caller \ {c} :
              step'[d] = step[d] /\ ids'[d] = ids[d] /\ reason'[d] = reason[d]
BY DEF TypeOK, Goto, Reasons

\* A write keeps the types and changes the written messages only.
LEMMA WriteType ==
  ASSUME TypeOK, NEW S \in SUBSET Id, NEW date \in Nat \cup {Absent}, Write(S, date)
  PROVE  /\ primary' \in [Id -> Nat \cup {Absent}]
         /\ \A i \in Id : primary'[i] = IF i \in S THEN date ELSE primary[i]
         /\ renewed' \in SUBSET Id
BY DEF TypeOK, Write, Around

\* A move keeps the types and changes the moved messages only.
LEMMA MoveType ==
  ASSUME TypeOK, NEW S \in SUBSET Id, NEW p \in Places, Move(S, p)
  PROVE  /\ place' \in [Id -> Places]
         /\ \A i \in Id : place'[i] = IF i \in S THEN p ELSE place[i]
BY DEF TypeOK, Move

\* Nothing is stored, queued or in progress at the start.
LEMMA InitInv == Init => Inv
BY DEF Init, Inv, TypeOK, Settled, Adding, Dropping, Removing, Stored, Absent, Places, Steps, Reasons

\* A caller that is neither about to add to the cache nor about to drop from it
\* leaves the two sets of such messages alone.
Quiet(s) == s \notin {"addCache", "removeCache", "pullClean"}

\* A step of c that changes neither the storage nor the presence of a message in
\* the cache, between two quiet steps, leaves every message as settled as it was.
LEMMA QuietStep ==
  ASSUME Inv, NEW c \in Caller, Quiet(step[c]), Quiet(step'[c]),
         \A d \in Caller \ {c} : step'[d] = step[d] /\ ids'[d] = ids[d],
         primary' = primary, overlapped' = overlapped,
         \A i \in Id : place'[i] = "none" <=> place[i] = "none"
  PROVE  \A i \in Id \ overlapped' : Settled(i)'
<1>1. \A i \in Id : /\ i \in Adding(Id)' <=> i \in Adding(Id)
                    /\ i \in Dropping(Id)' <=> i \in Dropping(Id)
                    /\ i \in Removing(Id)' <=> i \in Removing(Id)
  BY DEF Adding, Dropping, Removing, Quiet
<1> QED BY <1>1 DEF Inv, Settled, Stored

\* Add's write: a message about to be dropped becomes overlapped.
LEMMA AddStorageInv ==
  ASSUME Inv, NEW c \in Caller, NEW S \in SUBSET Id, NEW life \in Lifetimes,
         AddMessagesToStorage(c, S, life)
  PROVE  Inv'
<1>1. today + life \in Nat /\ today + life # Absent
  BY LifetimeAssumption DEF Inv, TypeOK, Absent
<1>2. /\ primary' \in [Id -> Nat \cup {Absent}]
      /\ \A i \in Id : primary'[i] = IF i \in S THEN today + life ELSE primary[i]
      /\ renewed' \in SUBSET Id
  BY <1>1, WriteType DEF Inv, AddMessagesToStorage
<1>3. /\ step' \in [Caller -> Steps] /\ ids' \in [Caller -> SUBSET Id]
      /\ reason' \in [Caller -> Reasons] /\ excess' \in [Caller -> Nat]
      /\ step'[c] = "addCache" /\ ids'[c] = S
      /\ \A d \in Caller \ {c} : step'[d] = step[d] /\ ids'[d] = ids[d]
  BY GotoType DEF Inv, AddMessagesToStorage, Steps
<1>4. /\ UNCHANGED <<secondary, place, today>> /\ step[c] = "idle"
      /\ overlapped' = overlapped \cup Dropping(S)
  BY DEF AddMessagesToStorage
<1>5. TypeOK'
  BY <1>2, <1>3, <1>4 DEF Inv, TypeOK, Dropping
<1>6. ASSUME NEW i \in Id \ overlapped' PROVE Settled(i)'
  <2>1. i \in Adding(Id)' <=> i \in Adding(Id) \/ i \in S
    BY <1>3, <1>4 DEF Adding
  <2>2. /\ i \in Dropping(Id)' <=> i \in Dropping(Id)
        /\ i \in Removing(Id)' <=> i \in Removing(Id)
    BY <1>3, <1>4 DEF Dropping, Removing
  <2>3. i \in S => i \notin Dropping(Id)
    BY <1>4 DEF Dropping
  <2> QED BY <1>1, <1>2, <1>4, <2>1, <2>2, <2>3 DEF Inv, Settled, Stored
<1> QED BY <1>5, <1>6 DEF Inv

\* A failed bulk write: the messages it may have written become overlapped.
LEMMA AddStorageFailsInv ==
  ASSUME Inv, NEW c \in Caller, NEW S \in SUBSET Id, NEW life \in Lifetimes,
         AddMessagesToStorageFails(c, S, life)
  PROVE  Inv'
<1>1. today + life \in Nat
  BY LifetimeAssumption DEF Inv, TypeOK
<1>2. /\ primary' \in [Id -> Nat \cup {Absent}]
      /\ \A i \in Id : primary'[i] = IF i \in S THEN today + life ELSE primary[i]
      /\ renewed' \in SUBSET Id
  BY <1>1, WriteType, Zenon DEF Inv, AddMessagesToStorageFails
<1>3. /\ UNCHANGED <<secondary, place, today, step, ids, reason, excess>>
      /\ overlapped' = overlapped \cup S
  BY DEF AddMessagesToStorageFails
<1> QED BY <1>2, <1>3 DEF Inv, TypeOK, Settled, Adding, Dropping, Removing, Stored

\* Add's insertion: whatever it adds is stored, unless it is overlapped.
LEMMA AddCacheInv == ASSUME Inv, NEW c \in Caller, AddMessagesToCache(c) PROVE Inv'
<1> DEFINE new == {i \in ids[c] : place[i] = "none"}
<1>1. new \in SUBSET Id /\ ids[c] \in SUBSET Id
  BY DEF Inv, TypeOK
<1>2. place' \in [Id -> Places] /\ \A i \in Id : place'[i] = IF i \in new THEN "active" ELSE place[i]
  <2>1. Move(new, "active") /\ "active" \in Places
    BY DEF AddMessagesToCache, Places
  <2> HIDE DEF new
  <2> QED BY <1>1, <2>1, MoveType DEF Inv
<1>3. /\ step' \in [Caller -> Steps] /\ ids' \in [Caller -> SUBSET Id]
      /\ reason' \in [Caller -> Reasons] /\ excess' \in [Caller -> Nat]
      /\ step'[c] = "idle"
      /\ \A d \in Caller \ {c} : step'[d] = step[d] /\ ids'[d] = ids[d]
  BY GotoType DEF Inv, AddMessagesToCache, Steps
<1>4. UNCHANGED <<primary, secondary, today, overlapped, renewed>> /\ step[c] = "addCache"
  BY DEF AddMessagesToCache
<1>5. TypeOK'
  BY <1>2, <1>3, <1>4 DEF Inv, TypeOK
<1>6. ASSUME NEW i \in Id \ overlapped' PROVE Settled(i)'
  <2>1. /\ i \in Adding(Id)' => i \in Adding(Id)
        /\ i \in Adding(Id) => i \in Adding(Id)' \/ i \in ids[c]
    BY <1>3, <1>4 DEF Adding
  <2>2. /\ i \in Dropping(Id)' <=> i \in Dropping(Id)
        /\ i \in Removing(Id)' <=> i \in Removing(Id)
    BY <1>3, <1>4 DEF Dropping, Removing
  <2>3. i \in ids[c] => i \in Adding(Id)
    BY <1>4 DEF Adding
  <2> QED BY <1>2, <1>4, <2>1, <2>2, <2>3 DEF Inv, Settled, Stored
<1> QED BY <1>5, <1>6 DEF Inv

\* A pull moves messages between pools.
LEMMA PullInv ==
  ASSUME Inv, NEW c \in Caller, NEW S \in SUBSET Id, Pull(c, S) PROVE Inv'
<1>1. place' \in [Id -> Places] /\ \A i \in Id : place'[i] = IF i \in S THEN "processing" ELSE place[i]
  BY MoveType DEF Inv, Pull, Places
<1>2. /\ step' \in [Caller -> Steps] /\ ids' \in [Caller -> SUBSET Id]
      /\ reason' \in [Caller -> Reasons] /\ excess' \in [Caller -> Nat]
      /\ step'[c] = "pullFind"
      /\ \A d \in Caller \ {c} : step'[d] = step[d] /\ ids'[d] = ids[d]
  BY GotoType DEF Inv, Pull, Steps
<1>3. /\ UNCHANGED <<primary, secondary, today, overlapped, renewed>> /\ step[c] = "idle"
      /\ \A i \in S : place[i] = "active"
  BY DEF Pull
<1>4. TypeOK'
  BY <1>1, <1>2, <1>3 DEF Inv, TypeOK
<1> QED BY <1>1, <1>2, <1>3, <1>4, QuietStep DEF Inv, Quiet

\* The first read of a pull changes nothing but the caller.
LEMMA FindInv == ASSUME Inv, NEW c \in Caller, getFromStorage(c) PROVE Inv'
<1> DEFINE notFound == {i \in ids[c] : secondary[i] = Absent}
           s == IF notFound = {} THEN "idle" ELSE "pullRetry"
<1>1. notFound \in SUBSET Id /\ s \in Steps /\ Goto(c, s, notFound)
  BY DEF Inv, TypeOK, Steps, getFromStorage, GotoIfAny
<1>2. s \in {"idle", "pullRetry"}
  OBVIOUS
<1> HIDE DEF notFound, s
<1>3. /\ step' \in [Caller -> Steps] /\ ids' \in [Caller -> SUBSET Id]
      /\ reason' \in [Caller -> Reasons] /\ excess' \in [Caller -> Nat]
      /\ step'[c] = s
      /\ \A d \in Caller \ {c} : step'[d] = step[d] /\ ids'[d] = ids[d]
  BY <1>1, GotoType DEF Inv
<1>4. UNCHANGED <<primary, secondary, place, today, overlapped, renewed>> /\ step[c] = "pullFind"
  BY DEF getFromStorage, stores
<1>5. TypeOK'
  BY <1>3, <1>4 DEF Inv, TypeOK
<1> QED BY <1>2, <1>3, <1>4, <1>5, QuietStep DEF Inv, Quiet

\* The retry reads the primary: what the clean-up is going to drop is not stored.
LEMMA RetryInv == ASSUME Inv, NEW c \in Caller, getFromStorageRetry(c) PROVE Inv'
<1> DEFINE notFound == {i \in ids[c] : RetryRead(i) = Absent}
           s == IF notFound = {} THEN "idle" ELSE "pullClean"
<1>1. notFound \in SUBSET Id /\ s \in Steps /\ Goto(c, s, notFound)
  BY DEF Inv, TypeOK, Steps, getFromStorageRetry, GotoIfAny
<1>2. s \in {"idle", "pullClean"} /\ \A i \in notFound : ~Stored(i)
  BY DEF RetryRead, Stored
<1> HIDE DEF notFound, s
<1>3. /\ step' \in [Caller -> Steps] /\ ids' \in [Caller -> SUBSET Id]
      /\ reason' \in [Caller -> Reasons] /\ excess' \in [Caller -> Nat]
      /\ step'[c] = s /\ (s # "idle" => ids'[c] = notFound)
      /\ \A d \in Caller \ {c} : step'[d] = step[d] /\ ids'[d] = ids[d]
  BY <1>1, GotoType DEF Inv
<1>4. UNCHANGED <<primary, secondary, place, today, overlapped, renewed>> /\ step[c] = "pullRetry"
  BY DEF getFromStorageRetry, stores
<1>5. TypeOK'
  BY <1>3, <1>4 DEF Inv, TypeOK
<1>6. ASSUME NEW i \in Id \ overlapped' PROVE Settled(i)'
  <2>1. i \in Adding(Id)' <=> i \in Adding(Id)
    BY <1>2, <1>3, <1>4 DEF Adding
  <2>2. /\ i \in Dropping(Id) => i \in Dropping(Id)'
        /\ i \in Dropping(Id)' => i \in Dropping(Id) \/ i \in notFound
        /\ i \in Removing(Id)' <=> i \in Removing(Id)
    BY <1>2, <1>3, <1>4 DEF Dropping, Removing
  <2> QED BY <1>2, <1>4, <2>1, <2>2 DEF Inv, Settled, Stored
<1> QED BY <1>5, <1>6 DEF Inv

\* Dropping from the cache: what is dropped is not stored, unless overlapped.
LEMMA DropInv ==
  ASSUME Inv, NEW c \in Caller, PullClean(c) \/ RemoveCache(c) PROVE Inv'
<1>1. place' \in [Id -> Places] /\ \A i \in Id : place'[i] = IF i \in ids[c] THEN "none" ELSE place[i]
  <2>1. Move(ids[c], "none") /\ "none" \in Places /\ ids[c] \in SUBSET Id
    BY DEF PullClean, RemoveCache, Places, Inv, TypeOK
  <2> QED BY <2>1, MoveType DEF Inv
<1>2. /\ step' \in [Caller -> Steps] /\ ids' \in [Caller -> SUBSET Id]
      /\ reason' \in [Caller -> Reasons] /\ excess' \in [Caller -> Nat]
      /\ step'[c] = "idle"
      /\ \A d \in Caller \ {c} : step'[d] = step[d] /\ ids'[d] = ids[d]
  BY GotoType DEF Inv, PullClean, RemoveCache, Steps
<1>3. /\ UNCHANGED <<primary, secondary, today, overlapped, renewed>>
      /\ step[c] \in {"pullClean", "removeCache"}
  BY DEF PullClean, RemoveCache
<1>4. TypeOK'
  BY <1>1, <1>2, <1>3 DEF Inv, TypeOK
<1>5. ASSUME NEW i \in Id \ overlapped' PROVE Settled(i)'
  <2>1. i \in Adding(Id)' <=> i \in Adding(Id)
    BY <1>2, <1>3 DEF Adding
  <2>2. /\ i \in Dropping(Id)' => i \in Dropping(Id)
        /\ i \in Removing(Id) => i \in Removing(Id)' \/ i \in ids[c]
    BY <1>2, <1>3 DEF Dropping, Removing
  <2>3. i \in ids[c] => i \in Dropping(Id)
    BY <1>3 DEF Dropping
  <2> QED BY <1>1, <1>3, <2>1, <2>2, <2>3 DEF Inv, Settled, Stored
<1> QED BY <1>4, <1>5 DEF Inv

\* The document update of an ack leaves the message where it is.
LEMMA AckStorageInv == ASSUME Inv, NEW c \in Caller, NEW i \in Id, AckStorage(c, i) PROVE Inv'
<1>1. /\ step' \in [Caller -> Steps] /\ ids' \in [Caller -> SUBSET Id]
      /\ reason' \in [Caller -> Reasons] /\ excess' \in [Caller -> Nat]
      /\ step'[c] = "ackCache"
      /\ \A d \in Caller \ {c} : step'[d] = step[d] /\ ids'[d] = ids[d]
  <2>1. {i} \in SUBSET Id /\ "ackCache" \in Steps /\ Goto(c, "ackCache", {i})
    BY DEF AckStorage, Steps
  <2> QED BY <2>1, GotoType DEF Inv
<1>2. UNCHANGED <<primary, secondary, place, today, overlapped, renewed>> /\ step[c] = "idle"
  BY DEF AckStorage, stores
<1>3. TypeOK'
  BY <1>1, <1>2 DEF Inv, TypeOK
<1> QED BY <1>1, <1>2, <1>3, QuietStep DEF Inv, Quiet

\* An ack moves a message between pools.
LEMMA AckCacheInv ==
  ASSUME Inv, NEW c \in Caller, NEW p \in {"active", "locked"}, NEW rm \in BOOLEAN,
         AckCache(c, p, rm)
  PROVE  Inv'
<1> DEFINE held == {i \in ids[c] : place[i] = "processing"}
           s == IF rm THEN "removeStorage" ELSE "idle"
<1>1. held \in SUBSET Id /\ ids[c] \in SUBSET Id /\ s \in Steps /\ p \in Places
  BY DEF Inv, TypeOK, Steps, Places
<1>2. /\ Move(held, p) /\ Goto(c, s, ids[c]) /\ s \in {"idle", "removeStorage"}
      /\ UNCHANGED <<primary, secondary, today, overlapped, renewed>> /\ step[c] = "ackCache"
  BY DEF AckCache
<1>3. \A i \in held : place[i] = "processing"
  OBVIOUS
<1> HIDE DEF held, s
<1>4. place' \in [Id -> Places] /\ \A i \in Id : place'[i] = IF i \in held THEN p ELSE place[i]
  BY <1>1, <1>2, MoveType DEF Inv
<1>5. /\ step' \in [Caller -> Steps] /\ ids' \in [Caller -> SUBSET Id]
      /\ reason' \in [Caller -> Reasons] /\ excess' \in [Caller -> Nat]
      /\ step'[c] = s
      /\ \A d \in Caller \ {c} : step'[d] = step[d] /\ ids'[d] = ids[d]
  BY <1>1, <1>2, GotoType DEF Inv
<1>6. TypeOK'
  BY <1>2, <1>4, <1>5 DEF Inv, TypeOK
<1>7. \A i \in Id : place'[i] = "none" <=> place[i] = "none"
  BY <1>3, <1>4
<1> QED BY <1>2, <1>5, <1>6, <1>7, QuietStep DEF Inv, Quiet

\* Choosing what to remove, on request or from a read of the secondary, changes
\* nothing but the caller.
LEMMA ChooseInv ==
  ASSUME Inv, NEW c \in Caller, NEW S \in SUBSET Id,
         RemoveRequest(c, S) \/ RemoveTTLMessages(c, S) \/ FindExceeding(c, S)
  PROVE  Inv'
<1>1. /\ UNCHANGED <<primary, secondary, place, today, overlapped, renewed>>
      /\ step[c] \in {"idle", "trimFind"}
  BY DEF RemoveRequest, RemoveTTLMessages, FindExceeding, stores
<1>2. /\ step' \in [Caller -> Steps] /\ ids' \in [Caller -> SUBSET Id]
      /\ reason' \in [Caller -> Reasons] /\ excess' \in [Caller -> Nat]
      /\ step'[c] = "removeStorage"
      /\ \A d \in Caller \ {c} : step'[d] = step[d] /\ ids'[d] = ids[d]
  <2>1. CASE RemoveRequest(c, S) \/ FindExceeding(c, S)
    BY <2>1, GotoType DEF RemoveRequest, FindExceeding, Inv, Steps
  <2>2. CASE RemoveTTLMessages(c, S)
    BY <2>2 DEF RemoveTTLMessages, Inv, TypeOK, Steps, Reasons
  <2> QED BY <2>1, <2>2
<1>3. TypeOK'
  BY <1>1, <1>2 DEF Inv, TypeOK
<1> QED BY <1>1, <1>2, <1>3, QuietStep DEF Inv, Quiet

\* The count of a MAX_ELEMENTS task beyond the limit is a natural number.
LEMMA CountExceedingInv == ASSUME Inv, NEW c \in Caller, CountExceeding(c) PROVE Inv'
<1> DEFINE shown == {i \in Id : secondary[i] # Absent}
           total == Cardinality(shown)
<1>1. total \in Nat
  <2>1. IsFiniteSet(shown)
    BY IdAssumption, FS_Subset
  <2> QED BY <2>1, FS_CardinalityType
<1>2. /\ UNCHANGED <<primary, secondary, place, today, ids, overlapped, renewed>> /\ step[c] = "idle"
      /\ total > MaxElements
      /\ step' = [step EXCEPT ![c] = "trimFind"]
      /\ reason' = [reason EXCEPT ![c] = "MAX_ELEMENTS"]
      /\ excess' = [excess EXCEPT ![c] = total - MaxElements]
  BY DEF CountExceeding, stores, Exceeding
<1> HIDE DEF total
<1>3. total - MaxElements \in Nat
  BY <1>1, <1>2, LifetimeAssumption
<1>4. TypeOK'
  BY <1>2, <1>3 DEF Inv, TypeOK, Steps, Reasons
<1>5. step'[c] = "trimFind" /\ \A d \in Caller \ {c} : step'[d] = step[d] /\ ids'[d] = ids[d]
  BY <1>2 DEF Inv, TypeOK
<1> QED BY <1>2, <1>4, <1>5, QuietStep DEF Inv, Quiet

\* The deletion from the storage: a message about to be added becomes overlapped.
LEMMA RemoveStorageInv == ASSUME Inv, NEW c \in Caller, RemoveStorage(c) PROVE Inv'
<1>1. /\ primary' \in [Id -> Nat \cup {Absent}]
      /\ \A i \in Id : primary'[i] = IF i \in ids[c] THEN Absent ELSE primary[i]
      /\ renewed' \in SUBSET Id
  <2>1. Write(ids[c], Absent) /\ ids[c] \in SUBSET Id
    BY DEF RemoveStorage, Inv, TypeOK
  <2> QED BY <2>1, WriteType, Zenon DEF Inv
<1>2. /\ step' \in [Caller -> Steps] /\ ids' \in [Caller -> SUBSET Id]
      /\ reason' \in [Caller -> Reasons] /\ excess' \in [Caller -> Nat]
      /\ step'[c] = "removeCache" /\ ids'[c] = ids[c]
      /\ \A d \in Caller \ {c} : step'[d] = step[d] /\ ids'[d] = ids[d]
  <2>1. Goto(c, "removeCache", ids[c]) /\ ids[c] \in SUBSET Id /\ "removeCache" \in Steps
    BY DEF RemoveStorage, Inv, TypeOK, Steps
  <2> QED BY <2>1, GotoType DEF Inv
<1>3. /\ UNCHANGED <<secondary, place, today>> /\ step[c] = "removeStorage"
      /\ overlapped' = overlapped \cup Adding(ids[c])
  BY DEF RemoveStorage
<1>4. ids[c] \in SUBSET Id /\ Adding(ids[c]) \in SUBSET Id
  BY DEF Inv, TypeOK, Adding
<1>5. TypeOK'
  BY <1>1, <1>2, <1>3, <1>4 DEF Inv, TypeOK
<1>6. ASSUME NEW i \in Id \ overlapped' PROVE Settled(i)'
  <2>1. i \in Adding(Id)' <=> i \in Adding(Id)
    BY <1>2, <1>3 DEF Adding
  <2>2. /\ i \in Dropping(Id)' <=> i \in Dropping(Id) \/ i \in ids[c]
        /\ i \in Removing(Id)' <=> i \in Removing(Id) \/ i \in ids[c]
    BY <1>2, <1>3 DEF Dropping, Removing
  <2>3. i \in ids[c] => i \notin Adding(Id)
    BY <1>3 DEF Adding
  <2> QED BY <1>1, <1>3, <2>1, <2>2, <2>3 DEF Inv, Settled, Stored
<1> QED BY <1>5, <1>6 DEF Inv

\* A deletion that fails half-way: what it may have deleted becomes overlapped.
LEMMA RemoveStorageFailsInv ==
  ASSUME Inv, NEW c \in Caller, NEW S \in SUBSET Id, RemoveStorageFails(c, S) PROVE Inv'
<1>1. /\ primary' \in [Id -> Nat \cup {Absent}]
      /\ \A i \in Id : primary'[i] = IF i \in S THEN Absent ELSE primary[i]
      /\ renewed' \in SUBSET Id
  BY WriteType, Zenon DEF RemoveStorageFails, Inv
<1>2. /\ step' \in [Caller -> Steps] /\ ids' \in [Caller -> SUBSET Id]
      /\ reason' \in [Caller -> Reasons] /\ excess' \in [Caller -> Nat]
      /\ step'[c] = "idle"
      /\ \A d \in Caller \ {c} : step'[d] = step[d] /\ ids'[d] = ids[d]
  BY GotoType DEF RemoveStorageFails, Inv, Steps
<1>3. /\ UNCHANGED <<secondary, place, today>> /\ step[c] = "removeStorage"
      /\ overlapped' = overlapped \cup S
  BY DEF RemoveStorageFails
<1>4. TypeOK'
  BY <1>1, <1>2, <1>3 DEF Inv, TypeOK
<1>5. ASSUME NEW i \in Id \ overlapped' PROVE Settled(i)'
  <2>1. /\ i \in Adding(Id)' <=> i \in Adding(Id)
        /\ i \in Dropping(Id)' <=> i \in Dropping(Id)
        /\ i \in Removing(Id)' <=> i \in Removing(Id)
    BY <1>2, <1>3 DEF Adding, Dropping, Removing
  <2> QED BY <1>1, <1>3, <2>1 DEF Inv, Settled, Stored
<1> QED BY <1>4, <1>5 DEF Inv

\* A request cut short between its two calls leaves its messages overlapped; one
\* cut short elsewhere leaves nothing to do.
LEMMA FailInv == ASSUME Inv, NEW c \in Caller, Fail(c) PROVE Inv'
<1>1. /\ step' \in [Caller -> Steps] /\ ids' \in [Caller -> SUBSET Id]
      /\ reason' \in [Caller -> Reasons] /\ excess' \in [Caller -> Nat]
      /\ step'[c] = "idle"
      /\ \A d \in Caller \ {c} : step'[d] = step[d] /\ ids'[d] = ids[d]
  BY GotoType DEF Fail, Inv, Steps
<1>2. UNCHANGED <<primary, secondary, place, today, overlapped, renewed>>
  BY DEF Fail, stores
<1>3. TypeOK'
  BY <1>1, <1>2 DEF Inv, TypeOK
<1>4. ASSUME NEW i \in Id \ overlapped' PROVE Settled(i)'
  <2>1. /\ i \in Adding(Id)' <=> i \in Adding(Id)
        /\ i \in Dropping(Id)' => i \in Dropping(Id)
        /\ i \in Removing(Id)' <=> i \in Removing(Id)
    BY <1>1 DEF Fail, Adding, Dropping, Removing
  <2> QED BY <1>2, <2>1 DEF Inv, Settled, Stored
<1> QED BY <1>3, <1>4 DEF Inv

\* A request that ends half-way through its call to the cache accounts for all
\* of its messages.
LEMMA FailInCacheInv ==
  ASSUME Inv, NEW c \in Caller, NEW S \in SUBSET Id, FailInCache(c, S)
  PROVE  Inv'
<1>1. /\ step' \in [Caller -> Steps] /\ ids' \in [Caller -> SUBSET Id]
      /\ reason' \in [Caller -> Reasons] /\ excess' \in [Caller -> Nat]
      /\ step'[c] = "idle"
      /\ \A d \in Caller \ {c} : step'[d] = step[d] /\ ids'[d] = ids[d]
  BY GotoType DEF FailInCache, Inv, Steps
<1>2. UNCHANGED <<primary, secondary, today, renewed>> /\ overlapped' = overlapped \cup ids[c]
  BY DEF FailInCache
<1>3. place' \in [Id -> Places] /\ \A i \in Id \ ids[c] : place'[i] = place[i]
  <2>1. CASE Move({i \in S : place[i] = "none"}, "active") /\ S \subseteq ids[c]
    BY <2>1, MoveType DEF Inv, Places
  <2>2. CASE Move(S, "none") /\ S \subseteq ids[c]
    BY <2>2, MoveType DEF Inv, Places
  <2> QED BY <2>1, <2>2 DEF FailInCache
<1>4. TypeOK'
  BY <1>1, <1>2, <1>3 DEF Inv, TypeOK
<1>5. ASSUME NEW i \in Id \ overlapped' PROVE Settled(i)'
  <2>1. i \in Id \ overlapped /\ i \notin ids[c]
    BY <1>2
  <2>2. /\ i \in Adding(Id)' <=> i \in Adding(Id)
        /\ i \in Dropping(Id)' <=> i \in Dropping(Id)
        /\ i \in Removing(Id)' <=> i \in Removing(Id)
    BY <1>1, <2>1 DEF Adding, Dropping, Removing
  <2> QED BY <1>2, <1>3, <2>1, <2>2 DEF Inv, Settled, Stored
<1> QED BY <1>4, <1>5 DEF Inv

\* The housekeeper's timeouts and unlocks and replication leave the
\* presence of messages alone.
LEMMA BackgroundInv ==
  ASSUME Inv, NEW i \in Id,
         TimeoutMessage(i) \/ UnlockMessage(i) \/ Replicate(i)
  PROVE  Inv'
<1>1. UNCHANGED <<primary, step, ids, reason, excess, overlapped, renewed>>
  BY DEF TimeoutMessage, UnlockMessage, Replicate
<1>2. /\ place' \in [Id -> Places]
      /\ \A j \in Id : place'[j] = "none" <=> place[j] = "none"
  BY DEF TimeoutMessage, UnlockMessage, Replicate, Move, Inv, TypeOK, Places
<1>3. secondary' \in [Id -> Nat \cup {Absent}] /\ today' \in Nat
  BY DEF TimeoutMessage, UnlockMessage, Replicate, Inv, TypeOK
<1> QED BY <1>1, <1>2, <1>3 DEF Inv, TypeOK, Settled, Adding, Dropping, Removing, Stored

\* Every step keeps the invariant.
LEMMA NextInv == Inv /\ [Next]_vars => Inv'
<1> SUFFICES ASSUME Inv, [Next]_vars PROVE Inv'
  OBVIOUS
<1>1. CASE \E c \in Caller, S \in SUBSET Id, life \in Lifetimes :
             AddMessagesToStorage(c, S, life) \/ AddMessagesToStorageFails(c, S, life)
  BY <1>1, AddStorageInv, AddStorageFailsInv
<1>2. CASE \E c \in Caller, S \in SUBSET Id :
             \/ Pull(c, S) \/ RemoveRequest(c, S) \/ RemoveTTLMessages(c, S)
             \/ RemoveStorageFails(c, S) \/ FailInCache(c, S)
  BY <1>2, PullInv, ChooseInv, RemoveStorageFailsInv, FailInCacheInv
<1>3. CASE \E c \in Caller, i \in Id : AckStorage(c, i)
  BY <1>3, AckStorageInv
<1>4. ASSUME NEW c \in Caller, CountExceeding(c) \/ Fail(c)
      PROVE  Inv'
  BY <1>4, CountExceedingInv, FailInv
<1>5. ASSUME NEW c \in Caller, Proceed(c)
      PROVE  Inv'
  BY <1>5, AddCacheInv, FindInv, RetryInv, DropInv, AckCacheInv, ChooseInv, RemoveStorageInv
     DEF Proceed
<1>6. CASE \E i \in Id : TimeoutMessage(i) \/ UnlockMessage(i) \/ Replicate(i)
  BY <1>6, BackgroundInv
<1>7. CASE NextDay
  BY <1>7 DEF NextDay, stores, Inv, TypeOK, Settled, Adding, Dropping, Removing, Stored
<1>8. CASE UNCHANGED vars
  BY <1>8 DEF vars, Inv, TypeOK, Settled, Adding, Dropping, Removing, Stored
<1> QED BY <1>1, <1>2, <1>3, <1>4, <1>5, <1>6, <1>7, <1>8 DEF Next

\* The cache follows the storage in every reachable state, for any number of
\* messages and of concurrent requests and tasks.
THEOREM QueueInvariant == Spec => [](TypeOK /\ CacheFollowsStorage)
<1>1. Init => Inv
  BY InitInv
<1>2. Inv /\ [Next]_vars => Inv'
  BY NextInv
<1>3. Inv => TypeOK /\ CacheFollowsStorage
  BY DEF Inv, Settled, CacheFollowsStorage
<1> QED BY <1>1, <1>2, <1>3, PTL DEF Spec

\* Requests and tasks hold messages, steps and counts of their own kind; the
\* MAX_ELEMENTS task never asks the storage for a negative number.
THEOREM QueueTypes == Spec => []TypeOK
<1> QED BY QueueInvariant, PTL

-----------------------------------------------------------------------------
(***************************************************************************)
(* The TTL task                                                            *)
(***************************************************************************)
Deleting(c) == step[c] = "removeStorage" /\ reason[c] = "TTL"

\* The secondary shows no other version of a message that was not renewed; only a
\* removal in progress is the TTL task's; and what the task is about to delete has
\* expired, or was renewed, or is gone.
TTLInv ==
  /\ \A i \in Id \ renewed : Stored(i) /\ secondary[i] # Absent => secondary[i] = primary[i]
  /\ \A c \in Caller : reason[c] = "TTL" => step[c] \in {"removeStorage", "removeCache"}
  /\ \A c \in Caller : \A i \in ids[c] \ renewed :
       Deleting(c) /\ Stored(i) => primary[i] <= today

\* The callers of a step that starts no TTL task.
NoNewTask ==
  \A c \in Caller :
    /\ reason'[c] = "TTL" => step'[c] \in {"removeStorage", "removeCache"}
    /\ Deleting(c)' => Deleting(c) /\ ids'[c] = ids[c]

\* A caller that goes on keeps its reason or ends, and a deletion is the next step
\* of no TTL task.
LEMMA GotoNoNewTask ==
  ASSUME TypeOK, TTLInv, NEW c \in Caller, NEW s \in Steps, NEW S \in SUBSET Id, Goto(c, s, S),
         step[c] \in {"removeStorage", "removeCache"} => s \in {"idle", "removeCache"}
  PROVE  NoNewTask
<1>1. /\ step'[c] = s /\ reason'[c] = IF s = "idle" THEN "REQUEST" ELSE reason[c]
      /\ \A d \in Caller \ {c} :
           step'[d] = step[d] /\ ids'[d] = ids[d] /\ reason'[d] = reason[d]
  BY GotoType
<1> QED BY <1>1 DEF NoNewTask, TTLInv, Deleting

\* A step that leaves the storage and its dates alone.
LEMMA StillTTL ==
  ASSUME TTLInv, NoNewTask, UNCHANGED <<primary, secondary, today, renewed>>
  PROVE  TTLInv'
BY DEF TTLInv, NoNewTask, Deleting, Stored

\* A write: a message that gets a new date is renewed if the secondary or a TTL task
\* has an earlier one.
LEMMA WriteTTL ==
  ASSUME TypeOK, TTLInv, NoNewTask, UNCHANGED <<secondary, today>>,
         NEW S \in SUBSET Id, NEW date \in Nat \cup {Absent}, Write(S, date)
  PROVE  TTLInv'
<1>1. \A i \in Id : primary'[i] = IF i \in S THEN date ELSE primary[i]
  BY WriteType, Zenon
<1>2. renewed' = (renewed \ S) \cup (IF date = Absent THEN {} ELSE Around(S))
  BY DEF Write
<1>3. ASSUME NEW i \in Id \ renewed', Stored(i)'
      PROVE  \/ i \notin S /\ i \notin renewed /\ primary'[i] = primary[i]
             \/ /\ secondary[i] = Absent
                /\ \A c \in Caller : Deleting(c) => i \notin ids[c]
  BY <1>1, <1>2, <1>3 DEF Around, Deleting, Stored
<1>4. ASSUME NEW i \in Id \ renewed', Stored(i)', secondary'[i] # Absent
      PROVE  secondary'[i] = primary'[i]
  BY <1>3, <1>4 DEF TTLInv, Stored
<1>5. ASSUME NEW c \in Caller, NEW i \in ids'[c] \ renewed', Deleting(c)', Stored(i)'
      PROVE  primary'[i] <= today'
  <2>1. Deleting(c) /\ i \in ids[c] /\ i \in Id
    BY <1>5 DEF NoNewTask, TypeOK
  <2> QED BY <1>3, <1>5, <2>1 DEF TTLInv, Stored
<1> QED BY <1>4, <1>5 DEF TTLInv, NoNewTask

\* What a caller does between two calls to the storage that change it.
LEMMA CallerTTL ==
  ASSUME Inv, TTLInv, NEW c \in Caller, NEW S \in SUBSET Id,
         \/ Proceed(c) /\ ~RemoveStorage(c)
         \/ Pull(c, S) \/ RemoveRequest(c, S) \/ FailInCache(c, S) \/ Fail(c)
         \/ \E i \in Id : AckStorage(c, i)
  PROVE  TTLInv'
<1>1. UNCHANGED <<primary, secondary, today, renewed>>
  BY Zenon DEF Proceed, AddMessagesToCache, getFromStorage, getFromStorageRetry, PullClean, AckCache,
         FindExceeding, RemoveCache, Pull, RemoveRequest, FailInCache, Fail, AckStorage, stores
<1>2. \E s \in Steps, T \in SUBSET Id :
        /\ Goto(c, s, T)
        /\ step[c] \in {"removeStorage", "removeCache"} => s \in {"idle", "removeCache"}
  <2> USE DEF Inv, TypeOK, Steps
  <2>1. CASE AddMessagesToCache(c) \/ PullClean(c) \/ RemoveCache(c) \/ Fail(c) \/ FailInCache(c, S)
    BY <2>1 DEF AddMessagesToCache, PullClean, RemoveCache, Fail, FailInCache
  <2>2. CASE getFromStorage(c)
    <3> DEFINE T == {i \in ids[c] : secondary[i] = Absent}
    <3>1. T \in SUBSET Id /\ Goto(c, IF T = {} THEN "idle" ELSE "pullRetry", T)
          /\ step[c] = "pullFind"
      BY <2>2 DEF getFromStorage, GotoIfAny
    <3> HIDE DEF T
    <3> QED BY <3>1
  <2>3. CASE getFromStorageRetry(c)
    <3> DEFINE T == {i \in ids[c] : RetryRead(i) = Absent}
    <3>1. T \in SUBSET Id /\ Goto(c, IF T = {} THEN "idle" ELSE "pullClean", T)
          /\ step[c] = "pullRetry"
      BY <2>3 DEF getFromStorageRetry, GotoIfAny
    <3> HIDE DEF T
    <3> QED BY <3>1
  <2>4. ASSUME NEW p \in {"active", "locked"}, NEW rm \in BOOLEAN, AckCache(c, p, rm)
        PROVE  \E s \in Steps : Goto(c, s, ids[c]) /\ step[c] = "ackCache"
    BY <2>4 DEF AckCache
  <2>5. ASSUME NEW T \in SUBSET Id, FindExceeding(c, T)
        PROVE  Goto(c, "removeStorage", T) /\ step[c] = "trimFind"
    BY <2>5 DEF FindExceeding
  <2>6. CASE Pull(c, S) \/ RemoveRequest(c, S)
    BY <2>6 DEF Pull, RemoveRequest
  <2>7. ASSUME NEW i \in Id, AckStorage(c, i)
        PROVE  {i} \in SUBSET Id /\ Goto(c, "ackCache", {i}) /\ step[c] = "idle"
    BY <2>7 DEF AckStorage
  <2>8. ids[c] \in SUBSET Id
    OBVIOUS
  <2> QED BY <2>1, <2>2, <2>3, <2>4, <2>5, <2>6, <2>7, <2>8, Zenon DEF Proceed
<1>3. NoNewTask
  BY <1>2, GotoNoNewTask DEF Inv
<1> QED BY <1>1, <1>3, StillTTL, Zenon

\* The task reads expired messages, which are what the storage has, or were renewed.
LEMMA TaskTTL ==
  ASSUME Inv, TTLInv, NEW c \in Caller, NEW S \in SUBSET Id, RemoveTTLMessages(c, S)
  PROVE  TTLInv'
<1>1. /\ UNCHANGED <<primary, secondary, today, renewed>>
      /\ step'[c] = "removeStorage" /\ ids'[c] = S /\ S \subseteq Expired
      /\ \A d \in Caller \ {c} :
           step'[d] = step[d] /\ ids'[d] = ids[d] /\ reason'[d] = reason[d]
  BY DEF RemoveTTLMessages, AreFirst, Inv, TypeOK, stores
<1>2. \A i \in Expired \ renewed : Stored(i) => primary[i] <= today
  BY DEF TTLInv, Expired
<1> QED BY <1>1, <1>2 DEF TTLInv, Deleting, Stored

\* Every step keeps what the TTL task rests on.
LEMMA NextTTL == Inv /\ TTLInv /\ [Next]_vars => TTLInv'
<1> SUFFICES ASSUME Inv, TTLInv, [Next]_vars PROVE TTLInv'
  OBVIOUS
<1> USE DEF Inv
<1>1. ASSUME NEW c \in Caller, NEW S \in SUBSET Id, NEW life \in Lifetimes,
             AddMessagesToStorage(c, S, life) \/ AddMessagesToStorageFails(c, S, life)
      PROVE  TTLInv'
  <2>1. today + life \in Nat \cup {Absent}
    BY LifetimeAssumption DEF TypeOK
  <2>2. Write(S, today + life) /\ UNCHANGED <<secondary, today>>
    BY <1>1 DEF AddMessagesToStorage, AddMessagesToStorageFails
  <2>3. NoNewTask
    <3>1. CASE AddMessagesToStorage(c, S, life)
      BY <3>1, GotoNoNewTask DEF AddMessagesToStorage, Steps
    <3>2. CASE AddMessagesToStorageFails(c, S, life)
      BY <3>2 DEF AddMessagesToStorageFails, NoNewTask, TTLInv, Deleting
    <3> QED BY <1>1, <3>1, <3>2
  <2> QED BY <2>1, <2>2, <2>3, WriteTTL, Zenon
<1>2. ASSUME NEW c \in Caller, RemoveStorage(c) PROVE TTLInv'
  <2>1. /\ ids[c] \in SUBSET Id /\ Goto(c, "removeCache", ids[c]) /\ Write(ids[c], Absent)
        /\ "removeCache" \in Steps /\ UNCHANGED <<secondary, today>>
    BY <1>2 DEF RemoveStorage, TypeOK, Steps
  <2>2. NoNewTask
    BY <2>1, GotoNoNewTask
  <2> QED BY <2>1, <2>2, WriteTTL, Zenon
<1>3. ASSUME NEW c \in Caller, NEW S \in SUBSET Id, RemoveStorageFails(c, S) PROVE TTLInv'
  <2>1. Goto(c, "idle", {}) /\ "idle" \in Steps /\ Write(S, Absent) /\ UNCHANGED <<secondary, today>>
    BY <1>3 DEF RemoveStorageFails, Steps
  <2>2. NoNewTask
    BY <2>1, GotoNoNewTask
  <2> QED BY <2>1, <2>2, WriteTTL, Zenon
<1>4. ASSUME NEW c \in Caller, CountExceeding(c) PROVE TTLInv'
  <2>1. NoNewTask /\ UNCHANGED <<primary, secondary, today, renewed>>
    BY <1>4 DEF CountExceeding, NoNewTask, TTLInv, Deleting, TypeOK, stores
  <2> QED BY <2>1, StillTTL
<1>5. ASSUME NEW i \in Id, TimeoutMessage(i) \/ UnlockMessage(i) \/ Replicate(i) PROVE TTLInv'
  BY <1>5 DEF TimeoutMessage, UnlockMessage, Replicate, TTLInv, Deleting, Stored, TypeOK
<1>6. CASE NextDay
  <2>1. UNCHANGED <<primary, secondary, step, ids, reason, renewed>> /\ today' = today + 1
    BY <1>6 DEF NextDay, stores
  <2>2. \A i \in Id : Stored(i) => primary[i] \in Nat
    BY DEF TypeOK, Stored
  <2>3. \A c \in Caller : ids[c] \subseteq Id
    BY DEF TypeOK
  <2> QED BY <2>1, <2>2, <2>3 DEF TTLInv, Deleting, Stored, TypeOK
<1>7. CASE UNCHANGED vars
  BY <1>7 DEF vars, TTLInv, Deleting, Stored
<1> QED BY <1>1, <1>2, <1>3, <1>4, <1>5, <1>6, <1>7, CallerTTL, TaskTTL DEF Next

\* However late the TTL task deletes what it has read, and from however old a
\* secondary, it deletes no message before its date unless an addition gave the
\* message a new one in the meantime.
THEOREM TTLTaskIsSafe == Spec => RenewedAloneDieEarly
<1>1. Init => TTLInv
  BY DEF Init, TTLInv, Deleting, Stored
<1>2. Inv /\ TTLInv /\ [Next]_vars
        => [\A i \in Id \ renewed :
              Stored(i) /\ primary[i] > today /\ ~Stored(i)'
                => \E c \in Caller :
                     step[c] = "removeStorage" /\ i \in ids[c] /\ reason[c] # "TTL"]_vars
  <2> SUFFICES ASSUME Inv, TTLInv, Next, NEW i \in Id \ renewed,
                      Stored(i), primary[i] > today, ~Stored(i)'
               PROVE  \E c \in Caller :
                        step[c] = "removeStorage" /\ i \in ids[c] /\ reason[c] # "TTL"
    BY Zenon
  <2>1. \E c \in Caller : step[c] = "removeStorage" /\ i \in ids[c]
    <3>1. ASSUME NEW c \in Caller, RemoveStorage(c) \/ \E S \in SUBSET Id : RemoveStorageFails(c, S)
          PROVE  step[c] = "removeStorage" /\ i \in ids[c]
      BY <3>1 DEF RemoveStorage, RemoveStorageFails, Write, Inv, TypeOK, Stored
    <3>2. ASSUME NEW c \in Caller, NEW S \in SUBSET Id, NEW life \in Lifetimes,
                 AddMessagesToStorage(c, S, life) \/ AddMessagesToStorageFails(c, S, life)
          PROVE  FALSE
      <4>1. today + life # Absent
        BY LifetimeAssumption DEF Inv, TypeOK, Absent
      <4> QED BY <3>2, <4>1 DEF AddMessagesToStorage, AddMessagesToStorageFails, Write, Inv, TypeOK, Stored
    <3>3. primary' # primary
      BY DEF Stored
    <3> QED
      BY <3>1, <3>2, <3>3, Zenon
      DEF Next, Proceed, AddMessagesToCache, getFromStorage, getFromStorageRetry, PullClean,
          AckCache, FindExceeding, RemoveCache, Pull, RemoveRequest, FailInCache, Fail,
          AckStorage, RemoveTTLMessages, CountExceeding, TimeoutMessage, UnlockMessage,
          Replicate, NextDay, stores
  <2>2. ASSUME NEW c \in Caller, step[c] = "removeStorage", i \in ids[c] PROVE reason[c] # "TTL"
    <3>1. primary[i] \in Nat /\ today \in Nat
      BY DEF Inv, TypeOK, Stored
    <3> QED BY <2>2, <3>1 DEF TTLInv, Deleting
  <2> QED BY <2>1, <2>2
<1> QED BY <1>1, <1>2, InitInv, NextInv, NextTTL, PTL DEF Spec, RenewedAloneDieEarly
=============================================================================
