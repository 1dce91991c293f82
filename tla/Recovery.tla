------------------------------ MODULE Recovery ------------------------------
(***************************************************************************)
(* The recovery task: it rebuilds the cache from the storage, a batch of   *)
(* messages per pass in the order of their _id, and keeps its progress in  *)
(* three keys of the cache itself.  Every Deckard process runs the task    *)
(* each second; a pass makes one call to Redis or MongoDB per step, and    *)
(* passes of different processes interleave with each other, with          *)
(* additions and removals, and with an operator clearing Redis.            *)
(***************************************************************************)
EXTENDS Integers, FiniteSets

CONSTANTS
  Node,      \* Deckard processes with the housekeeper enabled
  BatchSize, \* 4000 in the code
  MaxId,     \* bound on the messages added; an _id is its rank in creation order
  MaxInitial, \* bound on the messages a first start finds in the storage
  MaxClears, \* bound on how often Redis is cleared
  Failures   \* whether calls fail and processes die

VARIABLES
  stored, shown,      \* the _ids on the primary, and those a secondary shows
  cached,             \* messages some pool of the cache holds
  lastId,             \* the _id of the newest message
  adding,             \* messages between the storage and the cache call of an Add
  running,            \* the key RECOVERY_RUNNING
  storageBreakpoint,  \* RECOVERY_STORAGE_BREAKPOINT_KEY
  recoveryBreakpoint, \* RECOVERY_BREAKPOINT_KEY
  clears,
  step,               \* per node, the call it makes next, or "idle"
  breakpoint, limit,  \*   the breakpoints it has read
  batch,              \*   the messages it has read
  spoiled,            \* history: Redis was cleared during a pass, or a pass read
                      \*   a secondary that lacked a message Redis had lost
  cut                 \* history: a pass was cut short, lost the effect of a Set, or
                      \*   began while another was in progress

messages == <<stored, shown, cached, lastId, adding>>
keys == <<running, storageBreakpoint, recoveryBreakpoint>>
locals == <<step, breakpoint, limit, batch>>
vars == <<messages, keys, clears, locals, spoiled, cut>>

ASSUME NodeAssumption == IsFiniteSet(Node)
ASSUME BoundAssumption ==
  /\ BatchSize \in Nat \ {0} /\ MaxId \in Nat /\ MaxInitial \in 0..MaxId
  /\ MaxClears \in Nat /\ Failures \in BOOLEAN

Unset == 0        \* a key that is not there, the empty string
Finished == -1    \* RECOVERY_FINISHED
Steps == {"idle", "getRunning", "startRunning", "findLast", "startBreakpoint",
          "emptyFinished", "emptyRunning", "getBreakpoint", "find", "insert",
          "setBreakpoint", "finishRunning", "finishBreakpoint"}

Init ==
  /\ lastId \in 0..MaxInitial
  /\ stored = 1..lastId /\ shown = stored /\ cached = {}
  /\ adding = {}
  /\ running = "" /\ storageBreakpoint = Unset /\ recoveryBreakpoint = Unset
  /\ clears = 0
  /\ step = [n \in Node |-> "idle"]
  /\ breakpoint = [n \in Node |-> Unset]
  /\ limit = [n \in Node |-> Unset]
  /\ batch = [n \in Node |-> {}]
  /\ spoiled = FALSE /\ cut = FALSE

Goto(n, s) == step' = [step EXCEPT ![n] = s]

\* The pass ends and its local variables with it.
Return(n) ==
  /\ Goto(n, "idle")
  /\ breakpoint' = [breakpoint EXCEPT ![n] = Unset]
  /\ limit' = [limit EXCEPT ![n] = Unset]
  /\ batch' = [batch EXCEPT ![n] = {}]

\* The messages a read of the secondary misses though only the storage has them.
Missed == (stored \ shown) \ (cached \cup adding)

-----------------------------------------------------------------------------
(***************************************************************************)
(* RecoveryMessagesPool                                                    *)
(***************************************************************************)
GetStorageBreakpoint(n) ==
  /\ step[n] = "idle"
  /\ storageBreakpoint # Finished
  /\ breakpoint' = [breakpoint EXCEPT ![n] = storageBreakpoint]
  /\ Goto(n, "getRunning")
  /\ cut' = (cut \/ \E k \in Node : step[k] # "idle")
  /\ UNCHANGED <<messages, keys, clears, limit, batch, spoiled>>

isRecovering(n) ==
  /\ step[n] = "getRunning"
  /\ Goto(n, IF breakpoint[n] = Unset /\ running # "true"
             THEN "startRunning" ELSE "getBreakpoint")
  /\ UNCHANGED <<messages, keys, clears, breakpoint, limit, batch, spoiled, cut>>

GetRecoveryBreakpoint(n) ==
  /\ step[n] = "getBreakpoint"
  /\ limit' = [limit EXCEPT ![n] = recoveryBreakpoint]
  /\ Goto(n, "find")
  /\ UNCHANGED <<messages, keys, clears, breakpoint, batch, spoiled, cut>>

SlipInWindow(m, n) ==
  m > breakpoint[n] + 1 /\ (limit[n] # Unset => m <= limit[n])

\* The filter of the Find: greater than the one breakpoint and, if there is one,
\* at most the other.
InWindow(m, n) == m > breakpoint[n] /\ (limit[n] # Unset => m <= limit[n])

\* The first messages in the order of _id: sort and limit of the Find.
FirstN(S) == {m \in S : Cardinality({k \in S : k < m}) < BatchSize}

Find(n) ==
  LET found == FirstN({m \in shown : InWindow(m, n)})
  IN  /\ step[n] = "find"
      /\ batch' = [batch EXCEPT ![n] = found]
      /\ Goto(n, IF found = {} THEN "finishRunning" ELSE "insert")
      /\ spoiled' = (spoiled \/ Missed # {})
      /\ UNCHANGED <<messages, keys, clears, breakpoint, limit, cut>>

\* The cache takes the messages that no pool holds, with their scores clamped.
InsertBatch(n) ==
  /\ step[n] = "insert"
  /\ cached' = cached \cup batch[n]
  /\ Goto(n, "setBreakpoint")
  /\ UNCHANGED <<stored, shown, lastId, adding, keys, clears,
                 breakpoint, limit, batch, spoiled, cut>>

SlipLast(S) == 1 + CHOOSE m \in S : \A k \in S : k <= m

\* The greatest _id, the last of a batch or of the storage.
Last(S) == CHOOSE m \in S : \A k \in S : k <= m

\* The result of a Set is ignored from here on: key' = value, or the call
\* failed and the pass goes on.
Ignored(set, unchanged) ==
  \/ set /\ UNCHANGED cut
  \/ Failures /\ unchanged /\ cut' = TRUE

SetStorageBreakpoint(n) ==
  /\ step[n] = "setBreakpoint"
  /\ Ignored(storageBreakpoint' = Last(batch[n]), UNCHANGED storageBreakpoint)
  /\ \/ /\ Cardinality(batch[n]) < BatchSize
        /\ Goto(n, "finishRunning")
        /\ UNCHANGED <<breakpoint, limit, batch>>
     \/ /\ Cardinality(batch[n]) >= BatchSize
        /\ Return(n)
  /\ UNCHANGED <<messages, running, recoveryBreakpoint, clears, spoiled>>

SlipFinishRunning(n) ==
  /\ step[n] = "finishRunning"
  /\ Goto(n, "finishBreakpoint")
  /\ UNCHANGED <<messages, keys, clears, breakpoint, limit, batch, spoiled, cut>>

FinishRunning(n) ==
  /\ step[n] = "finishRunning"
  /\ Ignored(running' = "false", UNCHANGED running)
  /\ Goto(n, "finishBreakpoint")
  /\ UNCHANGED <<messages, storageBreakpoint, recoveryBreakpoint, clears,
                 breakpoint, limit, batch, spoiled>>

FinishBreakpoint(n) ==
  /\ step[n] = "finishBreakpoint"
  /\ Ignored(storageBreakpoint' = Finished, UNCHANGED storageBreakpoint)
  /\ Return(n)
  /\ UNCHANGED <<messages, running, recoveryBreakpoint, clears, spoiled>>

(***************************************************************************)
(* tryToStartRecovery                                                      *)
(***************************************************************************)
StartRunning(n) ==
  /\ step[n] = "startRunning"
  /\ running' = "true"
  /\ Goto(n, "findLast")
  /\ UNCHANGED <<messages, storageBreakpoint, recoveryBreakpoint, clears,
                 breakpoint, limit, batch, spoiled, cut>>

FindLast(n) ==
  /\ step[n] = "findLast"
  /\ spoiled' = (spoiled \/ Missed # {})
  /\ \/ /\ shown = {}
        /\ Goto(n, "emptyFinished")
        /\ UNCHANGED limit
     \/ /\ shown # {}
        /\ Goto(n, "startBreakpoint")
        /\ limit' = [limit EXCEPT ![n] = Last(shown)]
  /\ UNCHANGED <<messages, keys, clears, breakpoint, batch, cut>>

StartBreakpoint(n) ==
  /\ step[n] = "startBreakpoint"
  /\ Ignored(recoveryBreakpoint' = limit[n], UNCHANGED recoveryBreakpoint)
  /\ Goto(n, "getBreakpoint")
  /\ UNCHANGED <<messages, running, storageBreakpoint, clears,
                 breakpoint, limit, batch, spoiled>>

EmptyFinished(n) ==
  /\ step[n] = "emptyFinished"
  /\ Ignored(storageBreakpoint' = Finished, UNCHANGED storageBreakpoint)
  /\ Goto(n, "emptyRunning")
  /\ UNCHANGED <<messages, running, recoveryBreakpoint, clears,
                 breakpoint, limit, batch, spoiled>>

EmptyRunning(n) ==
  /\ step[n] = "emptyRunning"
  /\ Ignored(running' = "false", UNCHANGED running)
  /\ Return(n)
  /\ UNCHANGED <<messages, storageBreakpoint, recoveryBreakpoint, clears, spoiled>>

-----------------------------------------------------------------------------
(***************************************************************************)
(* The rest of the system                                                  *)
(***************************************************************************)
\* A call of the pass returns an error, having inserted some of the messages if
\* it is the insertion, or the process dies: the next pass starts from the keys.
Fail(n, S) ==
  /\ Failures
  /\ step[n] # "idle"
  /\ S # {} => step[n] = "insert" /\ S \subseteq batch[n]
  /\ cached' = cached \cup S
  /\ cut' = TRUE
  /\ Return(n)
  /\ UNCHANGED <<stored, shown, lastId, adding, keys, clears, spoiled>>

\* Add, of a new message.  One that fails after its first call never makes the
\* second.
AddStorage ==
  /\ lastId < MaxId
  /\ lastId' = lastId + 1
  /\ stored' = stored \cup {lastId'} /\ adding' = adding \cup {lastId'}
  /\ UNCHANGED <<shown, cached, keys, clears, locals, spoiled, cut>>

AddCache(m) ==
  /\ m \in adding
  /\ adding' = adding \ {m} /\ cached' = cached \cup {m}
  /\ UNCHANGED <<stored, shown, lastId, keys, clears, locals, spoiled, cut>>

\* Remove, its two calls at once: what the cache holds of a message that is no
\* longer stored makes no difference here, and Queue interleaves them.
Remove(m) ==
  /\ m \in stored
  /\ stored' = stored \ {m} /\ cached' = cached \ {m}
  /\ UNCHANGED <<shown, lastId, adding, keys, clears, locals, spoiled, cut>>

Replicate(m) ==
  /\ m \in stored \cup shown /\ (m \in stored <=> m \notin shown)
  /\ shown' = IF m \in stored THEN shown \cup {m} ELSE shown \ {m}
  /\ UNCHANGED <<stored, cached, lastId, adding, keys, clears, locals,
                 spoiled, cut>>

\* The operator clears Redis, or it restarts empty.
Clear ==
  /\ clears < MaxClears
  /\ clears' = clears + 1
  /\ cached' = {}
  /\ running' = "" /\ storageBreakpoint' = Unset /\ recoveryBreakpoint' = Unset
  /\ spoiled' = \E n \in Node : step[n] # "idle"
  /\ UNCHANGED <<stored, shown, lastId, adding, locals, cut>>

Pass(n) ==
  \/ GetStorageBreakpoint(n) \/ isRecovering(n) \/ GetRecoveryBreakpoint(n)
  \/ Find(n) \/ InsertBatch(n) \/ SetStorageBreakpoint(n)
  \/ FinishRunning(n) \/ FinishBreakpoint(n)
  \/ StartRunning(n) \/ FindLast(n) \/ StartBreakpoint(n)
  \/ EmptyFinished(n) \/ EmptyRunning(n)

Next ==
  \/ \E n \in Node : Pass(n) \/ \E S \in SUBSET batch[n] : Fail(n, S)
  \/ AddStorage \/ Clear
  \/ \E m \in 1..MaxId : AddCache(m) \/ Remove(m) \/ Replicate(m)

Spec == Init /\ [][Next]_vars

-----------------------------------------------------------------------------
\* Sets of _ids, breakpoints and steps are what they are declared to be; a
\* breakpoint is the _id of a message that has existed.
TypeOK ==
  /\ stored \subseteq 1..lastId /\ shown \subseteq 1..lastId /\ cached \subseteq 1..lastId
  /\ adding \subseteq 1..lastId
  /\ lastId \in 0..MaxId
  /\ running \in {"", "true", "false"}
  /\ storageBreakpoint \in 1..lastId \cup {Unset, Finished}
  /\ recoveryBreakpoint \in 1..lastId \cup {Unset}
  /\ clears \in 0..MaxClears
  /\ step \in [Node -> Steps]
  /\ breakpoint \in [Node -> 1..lastId \cup {Unset}]
  /\ limit \in [Node -> 1..lastId \cup {Unset}]
  /\ batch \in [Node -> SUBSET (1..lastId)]
  /\ spoiled \in BOOLEAN /\ cut \in BOOLEAN

\* When the recovery is marked finished, every stored message whose addition is
\* complete is in the cache, however many processes recovered at the same time,
\* died or lost a Set on the way.
RecoveryIsComplete ==
  storageBreakpoint = Finished /\ ~spoiled => stored \ adding \subseteq cached

\* Once a recovery of passes that followed one another, none of them cut short,
\* is finished, it is not marked as running: the TTL and MAX_ELEMENTS tasks,
\* which do nothing during a recovery, work again.
RunningEnds ==
  storageBreakpoint = Finished /\ (\A n \in Node : step[n] = "idle") /\ ~cut
    => running # "true"

\* A finished recovery leaves no stored message out of the cache, even if Redis
\* was cleared while it ran.
RepopulatesCache ==
  storageBreakpoint = Finished /\ (\A n \in Node : step[n] = "idle")
    => stored \ adding \subseteq cached
=============================================================================
