---------------------------- MODULE MemoryInstance ----------------------------
(***************************************************************************)
(* A Deckard process whose storage and cache are both in memory, for one   *)
(* queue.  Every call to the cache holds its mutex throughout and is one   *)
(* step; the storage takes a read lock to look a document up and the write *)
(* lock to change it, so that Insert, Ack and Nack are two steps, between  *)
(* which the gRPC calls and the housekeeper's tasks interleave.            *)
(*                                                                         *)
(* Documents are pointers, told apart by their InternalId: a call may hold *)
(* one that docs no longer leads to, and changes it unseen.  An inserted   *)
(* message is the caller's own, from which the caller then takes the score *)
(* it gives to the cache.                                                  *)
(***************************************************************************)
EXTENDS Scores, FiniteSets, Sequences

CONSTANTS
  Id,          \* message ids of the queue
  NoId,        \* the empty id of an invalid message
  Caller,      \* requests and housekeeper tasks that run at the same time
  Requests,    \* Add requests: sequences of [id, ttl, timeless, score]
  Pulls,       \* filters of pull requests: [minScore, maxScore, scoreFilter]
  Answers,     \* Ack and Nack requests: [kind, score, scoreSubtract, lockMs, remove]
  Century,     \* what timeless adds to an expiry date
  MaxInserted, \* bounds: documents inserted,
  MaxAnswers,  \*   answers per document,
  MaxNow       \*   and the clock

VARIABLES
  docs,       \* the document of each id, or NoDocument
  internalCounter,
  pool,       \* the cache: list and score of each message
  now,
  call,       \* what each caller does next, and its local variables
  crashed,    \* the process died
  answers,    \* history: what was accepted of each document, in order
  lost,       \* history: ids of which an answer went to a replaced document
  overlapped, \* history: ids on which calls overlapped, or a request failed half-way
  undercut    \* history: callers whose document was deleted after they found it

stores == <<docs, internalCounter, pool>>
history == <<answers, lost, overlapped, undercut>>
vars == <<stores, now, call, crashed, history>>

Message == [id : Id \cup {NoId}, ttl : Int, timeless : BOOLEAN, score : Int]
Answer == [kind : {"ack", "nack"}, score : Int, scoreSubtract : Int,
           lockMs : Int, remove : BOOLEAN]

ASSUME IdAssumption == IsFiniteSet(Id) /\ NoId \notin Id
ASSUME InputAssumption ==
  /\ Requests \subseteq Seq(Message) \ {<< >>} /\ Answers \subseteq Answer
  /\ Pulls \subseteq [minScore : Int, maxScore : Int, scoreFilter : Int]
ASSUME BoundAssumption ==
  /\ Century \in Nat /\ MaxInserted \in Nat /\ MaxAnswers \in Nat
  /\ MaxNow \in 1 .. MaxScore

Steps == {"idle", "check", "create", "update", "addCache", "answer", "answerCache",
          "pullFind", "pullRetry", "pullClean", "removeStorage", "removeCache",
          "flushStorage"}
Places == {"none", "active", "processing", "ack", "nack"}

\* A document with InternalId n.  Its score, which only a recovery reads again,
\* is left out.
NewDocument(n, m) ==
  [internalId |-> n, expiry |-> m.expiry, timeless |-> m.timeless,
   acks |-> 0, nacks |-> 0, consecutiveAcks |-> 0, consecutiveNacks |-> 0]
NoDocument == NewDocument(0, [expiry |-> 0, timeless |-> FALSE])

NoAnswer == [kind |-> "ack", score |-> 0, scoreSubtract |-> 0, lockMs |-> 0,
             remove |-> FALSE]
NotAdded == [internalId |-> -1, score |-> 0]

(* pending: messages still to be inserted.  added: those that are, with     *)
(* their score, and the InternalId if the message itself became a document, *)
(* 0 if not; of an id that a request names twice, the last one, whose entry *)
(* replaces the other in the cache.  target: the document an answer holds.  *)
Idle == [step |-> "idle", pending |-> << >>, added |-> [i \in Id |-> NotAdded],
         ids |-> {}, answer |-> NoAnswer, target |-> 0]

Init ==
  /\ docs = [i \in Id |-> NoDocument]
  /\ internalCounter = 0
  /\ pool = [i \in Id |-> [at |-> "none", score |-> 0]]
  /\ now = 1
  /\ call = [c \in Caller |-> Idle]
  /\ crashed = FALSE
  /\ answers = [i \in Id |-> << >>]
  /\ lost = {}
  /\ overlapped = {}
  /\ undercut = {}

Stored(i) == docs[i] # NoDocument

At(c, s) == ~crashed /\ call[c].step = s

Return(c) == call' = [call EXCEPT ![c] = Idle]

Goto(c, s) == call' = [call EXCEPT ![c].step = s]

GotoWith(c, s, ids) == call' = [call EXCEPT ![c].step = s, ![c].ids = ids]

\* The messages of S get into list p with score s.
Put(S, p, s) == pool' = [i \in Id |-> IF i \in S THEN [at |-> p, score |-> s] ELSE pool[i]]

Drop(S) == Put(S, "none", 0)

\* Is c between the storage and the cache with message i?
HasAdded(c, i) == call[c].added[i] # NotAdded
Adding(i) == \E c \in Caller : HasAdded(c, i)
Removing(i) ==
  \E c \in Caller : call[c].step \in {"removeCache", "pullClean"} /\ i \in call[c].ids
Flushing == \E c \in Caller : call[c].step = "flushStorage"

-----------------------------------------------------------------------------
(***************************************************************************)
(* Queries of the storage, each under the read lock                        *)
(***************************************************************************)
\* A filter that is not set is {} or 0.
AnyMessage == [ids |-> {}, expiry |-> 0]

MatchesExpiry(i, f) == f.expiry # 0 => docs[i].expiry <= f.expiry

matchesInternalFilter(i, f) ==
  /\ Stored(i)
  /\ f.ids # {} => i \in f.ids
  /\ MatchesExpiry(i, f)

isExpired(i) == ~docs[i].timeless /\ docs[i].expiry <= now

\* Expired messages are shown only to a query by expiry date.
Find(f) == {i \in Id : matchesInternalFilter(i, f) /\ (f.expiry = 0 => ~isExpired(i))}

-----------------------------------------------------------------------------
(***************************************************************************)
(* Add                                                                     *)
(***************************************************************************)
Expiry(m) == now + m.ttl + IF m.timeless THEN Century ELSE 0

Add(c, request) ==
  /\ At(c, "idle")
  /\ call' = [call EXCEPT ![c].step = "check", ![c].pending =
       [k \in DOMAIN request |->
          [id |-> request[k].id, expiry |-> Expiry(request[k]),
           timeless |-> request[k].timeless, score |-> GetAddScore(request[k].score, now)]]]
  /\ UNCHANGED <<stores, now, crashed, history>>

\* Mistake: the document is updated without a look whether it is there.
SlipInsertCheck(c) ==
  /\ At(c, "check")
  /\ Head(call[c].pending).id # NoId
  /\ Goto(c, "update")
  /\ UNCHANGED <<stores, now, crashed, history>>

InsertCheck(c) ==
  LET m == Head(call[c].pending)
  IN  /\ At(c, "check")
      /\ m.id # NoId
      /\ Goto(c, IF Stored(m.id) THEN "update" ELSE "create")
      /\ UNCHANGED <<stores, now, crashed, history>>

\* The messages before the invalid one stay in the storage, and the cache never
\* gets them.
InsertInvalid(c) ==
  /\ At(c, "check")
  /\ Head(call[c].pending).id = NoId
  /\ overlapped' = overlapped \cup {i \in Id : HasAdded(c, i)}
  /\ Return(c)
  /\ UNCHANGED <<stores, now, crashed, answers, lost, undercut>>

\* c goes on with its next message, or with the cache.
Inserted(c, i, entry) ==
  LET rest == Tail(call[c].pending)
  IN  call' = [call EXCEPT ![c] =
                 [@ EXCEPT !.pending = rest, !.added[i] = entry,
                           !.step = IF rest = << >> THEN "addCache" ELSE "check"]]

InsertCreate(c) ==
  LET m == Head(call[c].pending)
      n == internalCounter + 1
  IN  /\ At(c, "create")
      /\ n <= MaxInserted
      /\ internalCounter' = n
      /\ docs' = [docs EXCEPT ![m.id] = NewDocument(n, m)]
      /\ Inserted(c, m.id, [internalId |-> n, score |-> m.score])
      /\ lost' = IF Stored(m.id) THEN lost \cup {m.id} ELSE lost
      /\ overlapped' = overlapped \cup {i \in {m.id} : Removing(i)}
      /\ UNCHANGED <<pool, now, crashed, answers, undercut>>

\* Mistake: the message replaces the document.
SlipUpdated(d, m) == NewDocument(d.internalId, m)

\* Neither the score nor timeless of the document changes with it.
Updated(d, m) == [d EXCEPT !.expiry = m.expiry]

InsertUpdate(c) ==
  LET m == Head(call[c].pending)
  IN  /\ At(c, "update")
      /\ Stored(m.id)
      /\ docs' = [docs EXCEPT ![m.id] = Updated(@, m)]
      /\ Inserted(c, m.id, [internalId |-> 0, score |-> m.score])
      /\ overlapped' = overlapped \cup {i \in {m.id} : Removing(i)}
      /\ UNCHANGED <<internalCounter, pool, now, crashed, answers, lost, undercut>>

\* The document is gone since the check: a nil pointer is dereferenced.
InsertPanics(c) ==
  /\ At(c, "update")
  /\ ~Stored(Head(call[c].pending).id)
  /\ crashed' = TRUE
  /\ UNCHANGED <<stores, now, call, history>>

\* The messages c has added get into the active list if no list holds them.
InsertAdded(c) ==
  pool' = [i \in Id |->
             IF HasAdded(c, i) /\ pool[i].at = "none"
             THEN [at |-> "active", score |-> call[c].added[i].score]
             ELSE pool[i]]

AddMessagesToCache(c) ==
  /\ At(c, "addCache")
  /\ InsertAdded(c)
  /\ Return(c)
  /\ UNCHANGED <<docs, internalCounter, now, crashed, history>>

-----------------------------------------------------------------------------
(***************************************************************************)
(* Ack and Nack                                                            *)
(***************************************************************************)
AnswerScore(a) ==
  IF a.kind = "ack" THEN AckScore(a.score, a.scoreSubtract, a.lockMs, now)
  ELSE NackScore(a.score, a.lockMs)

\* The document is looked up; without one the cache is still asked.
AnswerFind(c, i, a) ==
  /\ At(c, "idle")
  /\ Len(answers[i]) < MaxAnswers
  /\ call' = [call EXCEPT ![c] =
       [@ EXCEPT !.step = IF Stored(i) THEN "answer" ELSE "answerCache",
                 !.ids = {i},
                 !.answer = [a EXCEPT !.score = AnswerScore(a), !.scoreSubtract = 0],
                 !.target = docs[i].internalId]]
  /\ UNCHANGED <<stores, now, crashed, history>>

\* Mistake: the run of the other kind is counted down, not ended.
SlipAnswered(d, a) ==
  IF a.kind = "ack"
  THEN [d EXCEPT !.acks = @ + 1, !.consecutiveAcks = @ + 1, !.consecutiveNacks = @ - 1]
  ELSE [d EXCEPT !.nacks = @ + 1, !.consecutiveNacks = @ + 1, !.consecutiveAcks = @ - 1]

Answered(d, a) ==
  IF a.kind = "ack"
  THEN [d EXCEPT !.acks = @ + 1,
                 !.consecutiveAcks = @ + 1, !.consecutiveNacks = 0]
  ELSE [d EXCEPT !.nacks = @ + 1,
                 !.consecutiveNacks = @ + 1, !.consecutiveAcks = 0]

\* The document that was found is changed: the one docs leads to, unless that is
\* another one by now, and the message of the Add that created it.
AnswerUpdate(c) ==
  LET a == call[c].answer
      i == CHOOSE j \in call[c].ids : TRUE
      current == docs[i].internalId = call[c].target
      aliasing == {d \in Caller : call[d].added[i].internalId = call[c].target}
  IN  /\ At(c, "answer")
      /\ docs' = IF current THEN [docs EXCEPT ![i] = Answered(@, a)] ELSE docs
      /\ answers' = IF Stored(i) THEN [answers EXCEPT ![i] = Append(@, a.kind)] ELSE answers
      /\ lost' = IF Stored(i) /\ ~current THEN lost \cup {i} ELSE lost
      /\ overlapped' = IF aliasing # {} THEN overlapped \cup {i} ELSE overlapped
      /\ call' = [d \in Caller |->
           IF d = c THEN [call[c] EXCEPT !.step = "answerCache", !.target = 0]
           ELSE IF d \in aliasing THEN [call[d] EXCEPT !.added[i].score = a.score]
           ELSE call[d]]
      /\ UNCHANGED <<internalCounter, pool, now, crashed, undercut>>

\* LockMessage or MakeAvailable, which only move what is being processed.
AnswerCache(c) ==
  LET a == call[c].answer
  IN  /\ At(c, "answerCache")
      /\ Put({i \in call[c].ids : pool[i].at = "processing"},
             IF a.lockMs > 0 THEN a.kind ELSE "active", a.score)
      /\ IF a.remove
         THEN call' = [call EXCEPT ![c] =
                         [Idle EXCEPT !.step = "removeStorage", !.ids = call[c].ids]]
         ELSE Return(c)
      /\ UNCHANGED <<docs, internalCounter, now, crashed, history>>

-----------------------------------------------------------------------------
(***************************************************************************)
(* Pull                                                                    *)
(***************************************************************************)
InRange(s, lo, hi) == (lo # << >> => lo[1] <= s) /\ (hi # << >> => s <= hi[1])

Pull(c, S, f) ==
  LET lo == GetPullMinScore(f.minScore)
      hi == PullMaxScore(f.maxScore, f.scoreFilter, now)
  IN  /\ At(c, "idle")
      /\ S # {}
      /\ \A i \in S : pool[i].at = "active" /\ InRange(pool[i].score, lo, hi)
      /\ Put(S, "processing", 0)
      /\ GotoWith(c, "pullFind", S)
      /\ UNCHANGED <<docs, internalCounter, now, crashed, history>>

\* The storage is asked twice for what it does not show.
getFromStorage(c, from, to) ==
  LET notFound == call[c].ids \ Find([AnyMessage EXCEPT !.ids = call[c].ids])
  IN  /\ At(c, from)
      /\ IF notFound = {} THEN Return(c) ELSE GotoWith(c, to, notFound)
      /\ UNCHANGED <<stores, now, crashed, history>>

PullClean(c) ==
  /\ At(c, "pullClean")
  /\ Drop(call[c].ids)
  /\ Return(c)
  /\ UNCHANGED <<docs, internalCounter, now, crashed, history>>

-----------------------------------------------------------------------------
(***************************************************************************)
(* Removals, from the storage and then from the cache                      *)
(***************************************************************************)
RemoveRequest(c, S) ==
  /\ At(c, "idle")
  /\ S # {}
  /\ GotoWith(c, "removeStorage", S)
  /\ UNCHANGED <<stores, now, crashed, history>>

\* The documents of S are deleted; unsafe are the messages that the cache keeps,
\* or is about to get.
Delete(S, unsafe) ==
  /\ docs' = [i \in Id |-> IF i \in S THEN NoDocument ELSE docs[i]]
  /\ answers' = [i \in Id |-> IF i \in S THEN << >> ELSE answers[i]]
  /\ lost' = lost \ S
  /\ overlapped' = overlapped \cup unsafe
  /\ undercut' = undercut \cup
       {c \in Caller : call[c].step = "update" /\ Head(call[c].pending).id \in S}

RemoveStorage(c) ==
  /\ At(c, "removeStorage")
  /\ Delete(call[c].ids, {i \in call[c].ids : Adding(i)})
  /\ Goto(c, "removeCache")
  /\ UNCHANGED <<internalCounter, pool, now, crashed>>

\* Mistake: the cache is not told.
SlipRemoveCache(c) ==
  /\ At(c, "removeCache")
  /\ Return(c)
  /\ UNCHANGED <<stores, now, crashed, history>>

RemoveCache(c) ==
  /\ At(c, "removeCache")
  /\ Drop(call[c].ids)
  /\ Return(c)
  /\ UNCHANGED <<docs, internalCounter, now, crashed, history>>

\* The task removes what was expired when it asked, timeless or not, up to a limit
\* that messages of other queues may use up in part.
RemoveTTLMessages(c, S) ==
  LET expired == Find([AnyMessage EXCEPT !.expiry = now])
  IN  /\ At(c, "idle")
      /\ S # {} /\ S \subseteq expired
      /\ \A i \in S, j \in expired \ S : docs[i].expiry <= docs[j].expiry
      /\ GotoWith(c, "removeStorage", S)
      /\ UNCHANGED <<stores, now, crashed, history>>

-----------------------------------------------------------------------------
(***************************************************************************)
(* Flush, the housekeeper's other tasks and the clock                      *)
(***************************************************************************)
FlushCache(c) ==
  /\ At(c, "idle")
  /\ Drop(Id)
  /\ Goto(c, "flushStorage")
  /\ UNCHANGED <<docs, internalCounter, now, crashed, history>>

FlushStorage(c) ==
  /\ At(c, "flushStorage")
  /\ Delete(Id, {i \in Id : Stored(i) /\ (Adding(i) \/ pool[i].at # "none")})
  /\ Return(c)
  /\ UNCHANGED <<internalCounter, pool, now, crashed>>

\* Copies of documents, with their scores made valid, get into the cache like
\* added messages.  When a pass runs, and which documents are its window, is
\* modelled in Recovery: here any are, at any time, with any score a document has.
RecoveryMessagesPool(c, S, scores) ==
  /\ At(c, "idle")
  /\ S # {} /\ S \subseteq Find(AnyMessage)
  /\ call' = [call EXCEPT ![c].step = "addCache", ![c].added =
       [i \in Id |-> IF i \in S THEN [internalId |-> 0, score |-> Capped(scores[i])]
                    ELSE NotAdded]]
  /\ UNCHANGED <<stores, now, crashed, history>>

TimeoutMessage(i) ==
  /\ ~crashed
  /\ pool[i].at = "processing"
  /\ Put({i}, "active", MinScore)
  /\ UNCHANGED <<docs, internalCounter, now, call, crashed, history>>

UnlockMessage(i) ==
  /\ ~crashed
  /\ pool[i].at \in {"ack", "nack"}
  /\ Put({i}, "active", UnlockScore(pool[i].score, pool[i].at, now))
  /\ UNCHANGED <<docs, internalCounter, now, call, crashed, history>>

Tick ==
  /\ ~crashed
  /\ now < MaxNow
  /\ now' = now + 1
  /\ UNCHANGED <<stores, call, crashed, history>>

-----------------------------------------------------------------------------
Next ==
  \/ \E c \in Caller :
       \/ \E request \in Requests : Add(c, request)
       \/ InsertCheck(c) \/ InsertInvalid(c) \/ InsertCreate(c) \/ InsertUpdate(c)
       \/ InsertPanics(c) \/ AddMessagesToCache(c)
       \/ \E i \in Id, a \in Answers : AnswerFind(c, i, a)
       \/ AnswerUpdate(c) \/ AnswerCache(c)
       \/ \E S \in SUBSET Id, f \in Pulls : Pull(c, S, f)
       \/ getFromStorage(c, "pullFind", "pullRetry")
       \/ getFromStorage(c, "pullRetry", "pullClean")
       \/ PullClean(c)
       \/ \E S \in SUBSET Id : RemoveRequest(c, S) \/ RemoveTTLMessages(c, S)
       \/ RemoveStorage(c) \/ RemoveCache(c)
       \/ FlushCache(c) \/ FlushStorage(c)
       \/ \E S \in SUBSET Id, scores \in [Id -> Undefined .. MaxScore] :
            RecoveryMessagesPool(c, S, scores)
  \/ \E i \in Id : TimeoutMessage(i) \/ UnlockMessage(i)
  \/ Tick

Spec == Init /\ [][Next]_vars

-----------------------------------------------------------------------------
Document == [internalId : 0 .. MaxInserted, expiry : Int, timeless : BOOLEAN,
             acks : Nat, nacks : Nat, consecutiveAcks : Nat, consecutiveNacks : Nat]

Call == [step : Steps,
         pending : Seq([id : Id \cup {NoId}, expiry : Int, timeless : BOOLEAN, score : Int]),
         added : [Id -> [internalId : Int, score : Int]], ids : SUBSET Id,
         answer : Answer, target : 0 .. MaxInserted]

\* Types.
TypeOK ==
  /\ docs \in [Id -> Document]
  /\ internalCounter \in 0 .. MaxInserted
  /\ pool \in [Id -> [at : Places, score : Int]]
  /\ now \in 1 .. MaxNow
  /\ call \in [Caller -> Call]
  /\ crashed \in BOOLEAN
  /\ answers \in [Id -> Seq({"ack", "nack"})]
  /\ lost \subseteq Id /\ overlapped \subseteq Id /\ undercut \subseteq Caller

CountOf(kind, s) == Cardinality({k \in DOMAIN s : s[k] = kind})

\* How many answers of this kind end the sequence.
RunOf(kind, s) == Cardinality({k \in DOMAIN s : \A j \in k .. Len(s) : s[j] = kind})

\* "Track total number of ACKs", "Track number of consecutive ACKs": a stored
\* message has counted exactly the answers it got since it was created, across
\* updates by later Adds, removals and flushes.  Two overlaps lose answers: an
\* Add that found no document and replaces one created since, and an answer to
\* a document that was removed, and created again, after it was found.
DiagnosticsAreExact ==
  \A i \in Id \ lost :
    Stored(i) =>
      LET d == docs[i]
      IN  /\ d.acks = CountOf("ack", answers[i]) /\ d.nacks = CountOf("nack", answers[i])
          /\ d.consecutiveAcks = RunOf("ack", answers[i])
          /\ d.consecutiveNacks = RunOf("nack", answers[i])

\* The cache follows the storage: but for messages on which an addition, a
\* removal and a flush overlapped, or whose Add failed at a later message, what
\* is stored and not expired is in a list or about to be, and what is in a list
\* is stored or about to be removed.  A pull takes expired messages out of the
\* cache, and an Add that gives them a new life brings them back.
CacheFollowsStorage ==
  \A i \in Id \ overlapped :
    /\ Stored(i) /\ ~isExpired(i) => pool[i].at # "none" \/ Adding(i) \/ Flushing
    /\ pool[i].at # "none" => Stored(i) \/ Removing(i)

\* The scores outside the bounds that answers ask for: one that is set is used as
\* it is, and a negative lock_ms is taken neither for a lock nor for none.
AskedFor ==
  {a.score : a \in {b \in Answers : ~InBounds(b.score)}}
    \cup {Undefined : a \in {b \in Answers : b.score = 0 /\ b.lockMs < 0}}

\* No score gets out of bounds by itself: an available message has one outside
\* them only if an answer asks for that very score, whatever mixture of additions,
\* locks, timeouts, unlocks and recoveries it went through.  The exception is a
\* message that is answered before the Add that created it has read, from the
\* document, the score to give to the cache.
BeyondBoundsOnlyAsAsked ==
  \A i \in Id \ overlapped :
    pool[i].at = "active" => InBounds(pool[i].score) \/ pool[i].score \in AskedFor

\* "The maximum score accepted by Deckard is 9007199254740992 and the minimum is
\* 0, so values outside this range will be capped" (deckard_service.proto:386): an
\* available message has a score within the bounds.  The score of an Ack or Nack
\* is not capped (deckard_service.go:567).
ScoresInBounds ==
  \A i \in Id \ overlapped : pool[i].at = "active" => InBounds(pool[i].score)

\* Of the steps modelled here only one kills the process: an Add that updates a
\* document it had found, and that a deletion has taken from under it.
CrashesOnlyOnOverlap == crashed => \E c \in undercut : call[c].step = "update"
=============================================================================
