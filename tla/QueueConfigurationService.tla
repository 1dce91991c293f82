---------------------- MODULE QueueConfigurationService ----------------------
(***************************************************************************)
(* The configuration of one queue, its maximum number of elements: kept in *)
(* the storage, and in a local cache of each Deckard process whose entries *)
(* live for nine minutes.  Requests interleave at each call to the local   *)
(* cache and to the storage.                                               *)
(***************************************************************************)
EXTENDS Integers

CONSTANTS
  Node,     \* Deckard processes
  Call,     \* requests that run at the same time
  Limits,   \* max_elements of an edit; negative to remove the limit
  None,     \* no entry in a local cache
  MaxEdits  \* bound on the number of edits

VARIABLES
  limit,    \* max_elements on the primary; 0 when there is none
  shown,    \* what a secondary shows of it
  local,    \* per node, the cached value, or None
  step,     \* per call, what it does next, or "idle"
  node,     \*   the process it runs in
  value,    \*   the value asked for, or read from the storage
  edits,
  alone,    \* history, per call: no other edit has overlapped with this one
  answered  \* history: the value of the last edit, if it was alone and succeeded

configurationVars == <<limit, shown, local, step, node, value, edits, alone, answered>>

Steps == {"idle", "editStorage", "editStorageDrop", "editDrop", "getStorage", "getCache"}
EditSteps == {"editStorage", "editStorageDrop", "editDrop"}

ASSUME LimitsAssumption == Limits \subseteq Int \ {0} /\ MaxEdits \in Nat
ASSUME NoneAssumption == None \notin Int

ConfigurationInit ==
  /\ limit = 0 /\ shown = 0
  /\ local = [n \in Node |-> None]
  /\ step = [c \in Call |-> "idle"]
  /\ node \in [Call -> Node]
  /\ value = [c \in Call |-> 0]
  /\ edits = 0
  /\ alone = [c \in Call |-> FALSE]
  /\ answered = None

SlipMaxElements(v) == v

\* A negative value stands for the default, no limit.
MaxElements(v) == IF v < 0 THEN 0 ELSE v

Continue(c, s) ==
  /\ step' = [step EXCEPT ![c] = s]
  /\ UNCHANGED <<node, edits, alone>>

Return(c) ==
  /\ Continue(c, "idle")
  /\ value' = [value EXCEPT ![c] = 0]

\* An edit that succeeds ends.
Succeed(c) ==
  /\ Return(c)
  /\ answered' = IF alone[c] THEN MaxElements(value[c]) ELSE None

-----------------------------------------------------------------------------
(***************************************************************************)
(* EditQueueConfiguration.  An edit to 0 changes nothing and is left out.  *)
(***************************************************************************)
SlipInCache(n, v) == local[n] # None

\* The local cache has the value that is asked for.
InCache(n, v) == local[n] = v

\* The value is compared with the entry of the local cache.
Edit(c, n, v) ==
  LET first == \A d \in Call : step[d] \notin EditSteps
  IN  /\ step[c] = "idle" /\ edits < MaxEdits
      /\ edits' = edits + 1
      /\ node' = [node EXCEPT ![c] = n]
      /\ alone' = [d \in Call |-> d = c /\ first]
      /\ UNCHANGED <<limit, shown, local>>
      /\ \/ /\ local[n] = None
            /\ step' = [step EXCEPT ![c] = "editStorage"]
            /\ value' = [value EXCEPT ![c] = v] /\ answered' = None
         \/ /\ local[n] # None /\ ~InCache(n, v)
            /\ step' = [step EXCEPT ![c] = "editStorageDrop"]
            /\ value' = [value EXCEPT ![c] = v] /\ answered' = None
         \/ /\ InCache(n, v)
            /\ answered' = IF first THEN MaxElements(v) ELSE None
            /\ UNCHANGED <<step, value>>

EditStorage(c) ==
  /\ step[c] = "editStorage"
  /\ limit' = MaxElements(value[c])
  /\ Succeed(c)
  /\ UNCHANGED <<shown, local>>

\* The deletion of the local entry is deferred to the end of the edit.
EditStorageDrop(c) ==
  /\ step[c] = "editStorageDrop"
  /\ limit' = MaxElements(value[c])
  /\ Continue(c, "editDrop")
  /\ UNCHANGED <<shown, local, value, answered>>

EditDrop(c) ==
  /\ step[c] = "editDrop"
  /\ local' = [local EXCEPT ![node[c]] = None]
  /\ Succeed(c)
  /\ UNCHANGED <<limit, shown>>

\* The storage fails: the edit or the read ends with an error, an edit that
\* found a local entry after dropping it.
StorageCallFails(c) ==
  /\ step[c] \in {"editStorage", "editStorageDrop", "getStorage"}
  /\ local' = IF step[c] = "editStorageDrop"
              THEN [local EXCEPT ![node[c]] = None] ELSE local
  /\ Return(c)
  /\ UNCHANGED <<limit, shown, answered>>

(***************************************************************************)
(* GetQueueConfiguration, when the local cache has no entry; otherwise it  *)
(* returns the entry and changes nothing                                   *)
(***************************************************************************)
Get(c, n) ==
  /\ step[c] = "idle" /\ local[n] = None
  /\ step' = [step EXCEPT ![c] = "getStorage"]
  /\ node' = [node EXCEPT ![c] = n]
  /\ UNCHANGED <<limit, shown, local, value, edits, alone, answered>>

\* No document is the default configuration.
GetStorage(c) ==
  /\ step[c] = "getStorage"
  /\ value' = [value EXCEPT ![c] = shown]
  /\ Continue(c, "getCache")
  /\ UNCHANGED <<limit, shown, local, answered>>

SlipGetCache(c) ==
  /\ step[c] = "getCache"
  /\ local' = [local EXCEPT ![node[c]] = 0]
  /\ Return(c)
  /\ UNCHANGED <<limit, shown, answered>>

GetCache(c) ==
  /\ step[c] = "getCache"
  /\ local' = [local EXCEPT ![node[c]] = value[c]]
  /\ Return(c)
  /\ UNCHANGED <<limit, shown, answered>>

-----------------------------------------------------------------------------
\* A local entry's nine minutes are over.
Expire(n) ==
  /\ local[n] # None /\ local' = [local EXCEPT ![n] = None]
  /\ UNCHANGED <<limit, shown, step, node, value, edits, alone, answered>>

Replicate ==
  /\ shown # limit /\ shown' = limit
  /\ UNCHANGED <<limit, local, step, node, value, edits, alone, answered>>

Proceed(c) ==
  \/ EditStorage(c) \/ EditStorageDrop(c) \/ EditDrop(c)
  \/ GetStorage(c) \/ GetCache(c)

ConfigurationNext ==
  \/ \E c \in Call, n \in Node, v \in Limits : Edit(c, n, v)
  \/ \E c \in Call, n \in Node : Get(c, n)
  \/ \E c \in Call : Proceed(c) \/ StorageCallFails(c)
  \/ \E n \in Node : Expire(n)
  \/ Replicate

ConfigurationSpec == ConfigurationInit /\ [][ConfigurationNext]_configurationVars

\* Requests end, entries expire and the secondary catches up.
FairConfigurationSpec ==
  /\ ConfigurationSpec
  /\ \A c \in Call : WF_configurationVars(Proceed(c))
  /\ \A n \in Node : WF_configurationVars(Expire(n))
  /\ WF_configurationVars(Replicate)

-----------------------------------------------------------------------------
\* The configuration is a limit or 0 everywhere: the negative value that asks to
\* remove the limit reaches neither the storage nor a local cache.
ConfigurationTypeOK ==
  /\ limit \in Nat /\ shown \in Nat
  /\ local \in [Node -> Nat \cup {None}]
  /\ step \in [Call -> Steps]
  /\ node \in [Call -> Node]
  /\ value \in [Call -> Int]
  /\ edits \in 0..MaxEdits
  /\ alone \in [Call -> BOOLEAN]
  /\ answered \in Nat \cup {None}

\* Every process ends up with the configuration of the storage: once edits have
\* stopped, a local cache holds it or nothing from some time on, even if it was
\* filled by a read that raced with an edit or that a secondary answered late.
Converges == <>[](\A n \in Node : local[n] \in {None, limit})

\* A stale local entry is the one thing that makes an edit that no other overlaps
\* with succeed without effect: the edit asked for the value of that entry.
LostOnlyToStaleEntry ==
  [][answered' # None /\ limit' # answered'
       => UNCHANGED <<answered, limit>> \/ \E n \in Node : local[n] = answered']_configurationVars

\* An edit that is answered with success, and that no other edit overlaps with,
\* leaves the queue with the configuration it asked for.
EditTakesEffect == answered # None => limit = answered
=============================================================================
