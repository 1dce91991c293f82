# A TLA+ model of Deckard

Deckard is a cyclic priority queue. Producers add messages; workers pull them in
the order of their scores, and acknowledge them, give them back, lock them for a
while or remove them; a message that is not removed returns to the queue. Every
message is a document of the storage (MongoDB) and an entry of the cache (Redis),
which orders the messages and holds the pools they move between. A housekeeper in
each process returns what has timed out, ends locks, removes expired and
exceeding messages and rebuilds a lost cache from the storage.

## The parts and what is hard about them

| Part | State | Operations | Hard behaviour |
|---|---|---|---|
| Redis cache (`redis_cache.go`, `redis_cache_scripts.go`) | six sorted sets per queue | Insert, Pull, MakeAvailable, Lock, Unlock, Timeout, Remove | long sequences of scripts that each touch two or three sets; results taken from `ZADD`; batches of 1000, latest first |
| Queue layer (`queue.go`, `deckard_service.go`) | none of its own | Add, Pull, Ack, Nack, Remove | two stores written one after the other, without a transaction, by concurrent requests; reads of a lagging secondary |
| Housekeeper (`queue_housekeeper.go`) | keys in Redis | timeout, unlock, TTL, MAX_ELEMENTS | read, then remove by id |
| Recovery (`queue_housekeeper.go`) | three keys in Redis | one pass per second and process | no lock between processes; ignored results of Set; its own state is lost with what it recovers |
| Configuration (`queue_configuration_service.go`) | storage, and a cache per process | edit, get | edits compared with stale entries |
| Startup (`main.go`, `mongo_storage.go`, `redis_cache.go`) | two connections | connect, ping, start the server and the schedulers | two retry loops with different rules; errors and signals half-way |
| Shutdown and scheduler (`shutdown.go`, `main.go`) | two wait groups, a lock, two channels | the shutdown sequence, one loop per task | counting races with waiting; order of cancellation |
| Audit (`audit.go`) | a channel and a batch | Store, the sender's loop | blocking sends, sends on a closed channel |
| Memory cache (`memory_cache.go`) | four lists per queue | as the Redis cache | loops that remove what they iterate over; seconds and milliseconds; entries taken out and put back |
| Memory storage (`memory_storage.go`) | a map of documents | Insert, Find, Ack, Nack, Remove, Flush | looks a document up under one lock and changes it under another; documents shared by pointer |
| Scores (`score.go`, `deckard_service.go`) | none | scores of Add, Ack, Nack, unlocks; filters of a pull | 0 is "not set", -1 "undefined"; capped in some places only |

## Modules

**MessageCycle** is what the cache promises: every message is in one cell of a
cycle (none, active, processing, one of two locks) with the key that orders it
there. It is abstract and models no line of code. `Punctual` says whether a deadline is
the one a pull asked for; if not, it is never early. An insertion leaves a message that
is already somewhere as it is. The comment of the interface says otherwise ("Elements
already in cache should have its score updated.", `cache.go:50`), but neither cache does
it and `TestInsertSameObjectTwiceShouldNotUpdateScore` tests that it is not done, so the
promise is that of the code and of the test.

**RedisCache** is the cache of one queue. A sorted set is a function from ids to
scores; a Lua script is one action because Redis runs it atomically, and the
action includes what the Go method around it computes. `reply` is what the call
returned. `ImplementsMessageCycle` maps the six sets to cells. Queues use
different keys and do not interact, so one is enough. Errors that return before
the script are stuttering.

**MemoryCache** is the alternative for one process: four ordered lists per queue and
one mutex, so a method is one action. Several queues are modelled because an unlock
goes over all of them. A list is a sequence of entries, with the removal and insertion
of `container/list` as operators; the loops of timeouts and
unlocks end with the first entry they remove, as `container/list` makes them. It
implements MessageCycle, but without `Punctual`: `Deadline` adds the milliseconds of the
request to the seconds of `Unix`, so that a message returns a thousand times later than
asked for. That is not "the amount of time in milliseconds" of
`deckard_service.proto:131`, nor what `cache_suite_test.go` expects; the run and the proof
show that a deadline is never early, and no run states the disagreement.

**Queue** has callers (requests and housekeeper tasks, of any process) that make
one call to the storage or the cache per step, so that calls of different
callers interleave. A message is its expiry date on the primary, what the
secondary shows of it, and the pool it is in. `Fail` and `FailInCache` end a
request with an error or by the death of its process; a bulk write, a chunked
deletion and a partitioned cache call may be done in part. `overlapped` is a history
variable: the messages on which an addition overlapped a removal, or a call
failed half-way. So is `renewed`: the messages that were last stored while an earlier
version was stored, was shown by the secondary or was about to be deleted by a TTL task.

**Recovery** has the passes of `RecoveryMessagesPool` on several processes, one
step per call. A message is the rank of its `_id`. `spoiled` and `cut` are history
variables that say when Redis was cleared under a pass, or a pass was cut short,
overlapped or lost a Set.

**QueueConfigurationService** has the limit of one queue on the primary and the
secondary, the local entry of each process, and concurrent edits and reads.

**Scores** has the scores the service computes, as operators over integers.

**MemoryInstance** composes a process whose storage and cache are both in memory:
the service's requests with their scores and expiry dates, the queue layer, the
memory storage, the cache reduced to the list and score of each message, and the
housekeeper's tasks. A call to the cache holds its mutex throughout and is one step.
The storage is not like that: Insert looks the document up under the read lock and
writes under the write lock (`InsertCheck`, then `InsertCreate`, `InsertUpdate` or
`InsertPanics`), and so do Ack and Nack (`AnswerFind`, `AnswerUpdate`). A document is
a pointer and has its `InternalId`, so that an answer to one that was replaced
meanwhile changes nothing that is stored. The document an Add creates is the message
of the request itself: Add gives the cache the score it reads from it afterwards.
Four history variables record the answers each document got, the ids on which answers
were lost, the ids on which calls overlapped and the callers whose document was
deleted under them. When a recovery pass runs, and over which window, is modelled in
Recovery; here it inserts copies of any set of documents.

**Startup** has the main goroutine up to `signal.Notify`: two Mongo clients, then the
cache, then the auditor, the server and the schedulers. A panic runs the deferred
Close calls that were reached; a signal before `Notify` runs none.

**Shutdown** extends Startup with the main goroutine in `PerformShutdown` and the Close
calls after it, the scheduler of each task, the gRPC handlers, and the audit sender
with its channel. Tasks and handlers only store audit entries here. A panic ends the
process. `late` is a history variable: the tasks that joined a wait group after its
Wait had returned.

The `MC...` modules give the constants that a `.cfg` cannot write and the symmetry
sets; the `...Proofs` modules hold the theorems. A definition
`SlipX` before a definition `X` is `X` with a plausible slip of the code: with it
in the place of `X`, TLC finds a property violated. Specifications do not use it.

## What the runs show

| Run | Result |
|---|---|
| `RedisCache.cfg` | a message is in at most one pool; a return score is kept only while its message is locked; a call reports what it moved; the scripts implement MessageCycle; a message past due returns unless more messages than one batch are past due or its deadline is negative, which the script does not look at (2 ids, batches of 1, deadlines from -1 to 1, 3 110 states) |
| `MemoryCache.cfg` | a message is in the lists once; lists are sorted; each queue implements MessageCycle; no message stays overdue, unless workers keep asking for deadlines that are over, which get before it (a queue of 2 and one of 1 message, 2 ms to the second, a negative deadline among others, 15 361 states) |
| `Queue.cfg` | the cache follows the storage except for overlapped messages; a TTL task deletes a message before its expiry date only if it was renewed (2 messages, 2 callers, a limit of 1, failures; 1.09 million states) |
| `Recovery.cfg` | a finished recovery is complete and is not marked as running (2 processes, batches of 1, a clearing of Redis, failures; 2.5 million states) |
| `QueueConfigurationService.cfg` | local caches converge to the storage; a negative limit is stored nowhere; an edit that no other overlaps with is lost only to a stale local entry (2 processes, 2 requests, 3 edits) |
| `MemoryInstance.cfg` | a document counts exactly the answers it got; the cache follows the storage; available messages have scores within the bounds, as the answers of this run do; of the modelled steps only a deletion between the two halves of an Insert ends the process; each but for the overlaps its comment names (1 message, 2 callers, 2.22 million states) |
| `Shutdown.cfg` | a startup ends, with the server or without; locked tasks exclude each other; no counted critical task sees the context cancelled; only a late task runs with closed connections; the audit channel is closed under no call and no critical task that is not late; a shutdown hangs on nothing but a call that never ends; audit entries are not kept waiting (2 and 3 attempts to connect, 3 tasks, 1 handler, a channel of 1, batches of 2) |

Five runs are expected to find a violation of what a document or a comment says.

* `QueueLivesUntilExpiry.cfg`: a message that has expired is added again with a longer
  life; a TTL task that has read it before, or reads it from a secondary that lags,
  removes it by id.
* `RecoveryRepopulatesCache.cfg`: Redis is cleared while a pass has a Set still to make,
  after its insertion or after it found the storage empty; the Set marks the empty cache
  as recovered.
* `QueueConfigurationServiceEditTakesEffect.cfg`: another process has changed the limit;
  an edit that restores the value of the stale local entry is dropped and succeeds.
* `MemoryInstanceScoresInBounds.cfg`: a Nack asks for a score beyond the maximum, and the
  message becomes available with it; no second call is needed.
* `ShutdownFinishes.cfg`: a task without the critical wait group still runs when the
  context is cancelled, and stores an entry after the sender has closed the channel.

### Bounds

The clock (`MaxNow`, `MaxToday`), `MaxId`, `MaxClears`, `MaxEdits` and `MaxStored`
only bound exploration. Two ids tell the order of scores and one moving while
the other stays, and a batch of 1 leaves one behind. `MaxRequest` of 2 lets an
insertion name a message twice. Two callers are
enough for an overlap on one message. Batches of 1 make a second pass, and a crowded batch, possible with two messages.

`MemoryInstance.cfg` has one message, since documents of different ids share nothing
but the counter of InternalIds and the Flush; an Add with a second, invalid message
shows the failure half-way, one that names the message twice, first with a negative life,
the update of a document by the request that created it. `MaxInserted` of 2 lets a
document be replaced, `MaxAnswers` of 2 a run of answers start anew, `MaxNow` of 2 a
message expire and a lock end. `MaxScore` of 2 is below the score that an Add asks for,
and the subtracted 9 takes a score below 0. The proofs below have none of these bounds.

### Fairness

The timeout and unlock tasks run every second (`main.go`), hence weak fairness of
those actions, as calls on the whole cache: which messages a call moves is the code's
choice. In Shutdown no gRPC call is assumed to end, since the streams of the health and
reflection services (`deckard_service.go:100`) end with their client and `GracefulStop`
waits for them. Goroutines are scheduled; Go's `select` chooses among ready cases at
random, hence strong fairness of a scheduler's `Stop`. A step of main returns, because
the drivers give up a connection that is not made, and the auditor's ping to
ElasticSearch is taken to return; that it succeeds is not assumed. Nothing is assumed of
workers, clients, timers or replication, except in the configuration run, where an edit
or a read that has begun makes its next call, entries expire and the secondary catches up.

The finite runs of `Recovery`, `MemoryInstance` and `Shutdown` may stop and do not check
deadlock: all messages are added and recovered, the bounds are reached or the process
has died, or it has exited.

## What is proved

The proofs hold for every value of the constants that satisfies the `ASSUME`s:

* RedisCache: ids are a finite set of naturals (their order is that of the strings);
  scores, limits, deadlines, lock times and the default deadline are integers, the batch
  size is natural, and a pull asks for at least one message (the service
  raises what is less to 1).
* MemoryCache: the same without finiteness; the default deadline and the length of a
  second are positive.
* Queue: ids are finite and lives are not negative. A life of 0 has expired when it is
  stored, so a negative one would only change the order among expired messages. The clock
  stays below `Century`, which is why a timeless message does not expire.
* Recovery: processes are finite, a batch has room for a message, and at most `MaxId`
  messages are stored at first.
* QueueConfigurationService: an edit is a number other than 0, which the service takes
  for none, and the mark of an empty entry is no number.
* MemoryInstance: ids are finite and the empty id is none of them; a request has at least
  one message, whose life and score are any integers, and may name an id more than once;
  answers and filters are any integers. The clock starts at 1 and stays within the
  largest score, as milliseconds since 1970 do.
* Scores, Startup, Shutdown: the largest score, the room of the channel and the size of a
  batch are positive; attempts are integers; the locked and the critical tasks are tasks,
  and no task is a handler.

* `RedisCacheProofs!CacheInvariant`: `TypeOK /\ PoolsDisjoint /\ ScoresOnlyWhileLocked`
  is inductive; `CacheTypes` and `NoStaleScore` follow. Disjointness holds because each
  script removes from one set what it adds to another, and an insertion searches all four.
* `RedisCacheProofs!ReplyCorrect`: `ReplyIsWhatMoved`, from that invariant; `ZADD`
  counts new members only, so a left-over entry would make a move look like none.
* `RedisCacheProofs!Refinement`: the initial states map to initial states and each
  script to a step of MessageCycle or a stutter.
* `MemoryCacheProofs`: `Inv` has the types, that a message is once in the lists of its
  queue and that lists are sorted, and gives `MemoryCacheTypes`, `MessageOnce` and
  `ListsSorted`. The three need each other: an entry is put before the first with its
  score or a greater one, which is its place only in a sorted list, and is removed by id,
  which removes it only from a list that holds it once. Lemmas say what `removeEntry` and
  `insertEntry` do to a list; `Induction`, from the well-foundedness of `<`, carries them
  over the loops of an insertion, a removal and a pull for requests of any length. What a
  call does to a queue is then a `Moved`: some messages leave their lists, and entries of
  those messages or of new ones (`Fresh`) come into one. The score of an Ack is not
  assumed to be in any range, because the service does not cap it.
* `MemoryCacheCycleProofs!MemoryImplementsMessageCycle`: the cell of a message depends on
  the lists of its queue alone (`CellsIn`), and is that of its entry because, by `Inv`,
  there is only one. With `Moved`, each call changes the cells of each queue as a step of
  MessageCycle does or leaves them alone; a call to one queue leaves the others alone,
  an unlock does so in each of them. A pull takes the first messages of the cycle's order
  because its list is sorted.
* `QueueProofs!QueueInvariant`: `CacheFollowsStorage` is not inductive. `Settled` adds
  what a caller about to clean up or drop a message knows of the storage: that a
  message that has not been overlapped is not stored. `QueueTypes` follows.
* `QueueProofs!TTLTaskIsSafe`: `RenewedAloneDieEarly`. `TTLInv` says, of a stored
  message that was not renewed, that the secondary shows its present version or none, and
  that it has expired if a TTL task is about to delete it, however late replication and the
  task are. The run
  `QueueLivesUntilExpiry.cfg` shows that the exception is real.
* `RecoveryProofs!RecoveryCompletes`: `Complete` says, of the messages only the storage has
  (`Lost`), that they come after the storage breakpoint and up to the recovery breakpoint,
  and the same of what each pass has read: they are in its batch or, if that is full,
  after it, and there are none when a pass is about to finish. Nothing is added to `Lost`
  but by a clearing of Redis, which is why passes without a lock do no harm. It needs
  that a Find returns the first messages of its window (`FirstNTakesFirst`).
  `RecoveryTypes`, and `RecoveryRunningEnds` by an invariant of its own (`Uncut`).
* `ServiceProofs!ConfigurationTypes`, of the configuration service: with `ReadIsLimit`, what a read is
  about to cache came from the storage.
* `ServiceProofs!EditsLostToStaleEntries`: `LostOnlyToStaleEntry`. `AloneInv` says that an
  edit that overlaps with no other is the only one in progress, that its value is the limit
  once it has written the storage, and that an answer is remembered only while no edit is
  in progress; so an answer without effect is that of an edit that wrote nothing.
* `ServiceProofs`, of the process: one invariant gives `ProcessTypes`, `TasksExclude` (the lock is held
  exactly when a locked task executes), `CancelWaits` (after a Wait, a task of its
  group that executes is late) and `ConnectionsOutlast` (both connections are open from
  the end of the startup to the first Close, which comes after both Waits).
* `ServiceProofs!CallsOutliveAudit`: `ClosedUnderUncounted`. The sender closes its channel
  only after the cancellation (`AuditClosed`), which comes after the server is drained and
  the critical tasks are done; a process that has died stores nothing (`Dead`). With the
  run `ShutdownFinishes.cfg` this says which sends can panic, and that no other can.
* `MemoryInstanceProofs!MemoryTypes`: `Base` adds to the types that what a caller holds
  fits its step (`CallsFit`) and that a document is there exactly when it has an
  InternalId (`Numbered`), so that none is taken for the one a call found.
* `MemoryInstanceProofs!CrashNeedsOverlap`: `UpdateFound` says that a caller about to
  update either has its document or was undercut.
* `MemoryInstanceProofs!MemoryScores`: `Scored` says for each list which scores it may
  hold (Undefined only under a lock), and for each caller which score it will give the
  cache. The service does not check an answer: a score out of bounds is used as it is, and
  a negative lock_ms gets the score Undefined and no lock. `AskedFor` has exactly these
  scores, and is empty if answers stay within the bounds, as those of the passing run do;
  the run `MemoryInstanceScoresInBounds.cfg` has one that does not. An answer to a
  document whose Add has not read its score is an overlap.
* `MemoryInstanceCacheProofs!MemoryCacheFollows`: `Follows` adds, for each caller, what
  it knows of a message that was not overlapped: an Add that created it has it stored,
  a pull about to drop it has it expired or gone.
* `MemoryInstanceCacheProofs!MemoryDiagnostics`: `Counted` relates the four counts of a
  document to the sequence of its answers.

Every invariant and every action property that a passing run checks is a theorem. The
liveness properties (`ExpiredEventuallyReturns`, `OverdueReturns`,
`Converges`, `StartupEnds`, `ShutdownEnds`, `AuditIsSent`) are only model-checked: they rest
on fairness, about which the prover does not reason.

## Abstractions

* The checks of `isRecovering` and `shutdown.Ongoing` inside tasks are the choice not to
  run the task; a task that is allowed to run always may be late.
* The retry of a pull asks for the primary with `PrimaryPreferred`, which is taken to
  reach it; without a primary it falls back to a secondary.
* Scores are integers. The limit of the TTL task's query counts the messages of all
  queues, so in one queue the task takes any first part of the expired messages.
* `CrashesOnlyOnOverlap` is about the steps of MemoryInstance: a send on the closed audit
  channel (Shutdown) and races on the map of configurations can end a process too.
* Queue and Recovery leave scores and payloads out: their properties are about which
  store holds a message. A misuse panic of `sync.WaitGroup` is not modelled.

## Not modelled

* Read-only operations (Count, GetById, ListQueues, IsProcessing, GetQueue's answer) and the
  metrics task: they change no state of a queue.
* Query building, sorting and projection of both storages, TLS, the parsing of options:
  conversions of data that no property tells apart.
* The configurations of the memory storage: a map without a lock, whose races Go does not
  define; QueueConfigurationService has the edits.
* Configuration, logging, tracing, generated code and clients: no state of a queue depends
  on them.
* Go's float64: `score.go` stays within 2^53, where integers are exact.
* A composition of Queue with the full RedisCache: the refinement to MessageCycle is what
  Queue relies on, with the pool of a message as its state.
