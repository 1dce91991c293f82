----------------------- MODULE MemoryInstanceCacheProofs -----------------------
(***************************************************************************)
(* The cache of the memory instance follows its storage, and the storage   *)
(* counts the answers exactly.                                             *)
(***************************************************************************)
EXTENDS MemoryInstanceProofs, FiniteSetTheorems

-----------------------------------------------------------------------------
(* The cache follows the storage *)

Cleaning(c, i) == call[c].step = "pullClean" /\ i \in call[c].ids
Dropping(c, i) == call[c].step = "removeCache" /\ i \in call[c].ids
FlushesNext(c) == call[c].step = "flushStorage"

\* What a call drops from the cache is no live message of the storage, and what
\* it is about to give to the cache is stored.
CallFollows(c, i) ==
  /\ Cleaning(c, i) => ~Stored(i) \/ isExpired(i)
  /\ Dropping(c, i) => ~Stored(i)
  /\ HasAdded(c, i) => Stored(i)

FollowsAt(i) ==
  /\ \A c \in Caller : CallFollows(c, i)
  /\ Stored(i) /\ ~isExpired(i) =>
       pool[i].at # "none" \/ \E c \in Caller : HasAdded(c, i) \/ FlushesNext(c)
  /\ pool[i].at # "none" => Stored(i) \/ \E c \in Caller : Cleaning(c, i) \/ Dropping(c, i)

Follows == \A i \in Safe : FollowsAt(i)

\* The inductive form implies the property.
LEMMA FollowsSuffices == Follows => CacheFollowsStorage
  BY DEF Follows, FollowsAt, CacheFollowsStorage, Safe, Adding, Flushing, Removing, Cleaning,
    Dropping, FlushesNext

\* How a call's record differs after a step.
LEMMA ReturnEffect ==
  ASSUME Base, NEW c \in Caller, Return(c), NEW i \in Id
  PROVE  ~HasAdded(c, i)' /\ ~Cleaning(c, i)' /\ ~Dropping(c, i)' /\ ~FlushesNext(c)'
<1>1. call'[c] = Idle
  BY DEF Base, TypeOK, Return
<1> QED BY <1>1, IdleFits DEF HasAdded, Cleaning, Dropping, FlushesNext

\* A call that goes on keeps what it added.
LEMMA GotoEffect ==
  ASSUME Base, NEW c \in Caller, NEW s,
         Goto(c, s) \/ \E S : GotoWith(c, s, S)
  PROVE  call'[c].step = s /\ call'[c].added = call[c].added
  BY DEF Base, TypeOK, Call, Goto, GotoWith

\* Calls that neither add nor remove message i, nor flush, leave it as it is.
LEMMA FollowsKept ==
  ASSUME NEW i \in Id, FollowsAt(i), Stored(i)' <=> Stored(i), isExpired(i) => isExpired(i)',
         pool'[i].at = "none" <=> pool[i].at = "none",
         \A d \in Caller : /\ HasAdded(d, i)' <=> HasAdded(d, i)
                           /\ Cleaning(d, i)' <=> Cleaning(d, i)
                           /\ Dropping(d, i)' <=> Dropping(d, i)
                           /\ FlushesNext(d)' <=> FlushesNext(d)
  PROVE  FollowsAt(i)'
  BY DEF FollowsAt, CallFollows

\* Only one of a removal, a pull's clean-up, an addition and a flush at a time.
LEMMA OneErrand ==
  ASSUME Base, NEW c \in Caller, NEW i \in Id
  PROVE  /\ HasAdded(c, i) => call[c].step \in {"check", "create", "update", "addCache"}
         /\ Cleaning(c, i) => call[c].step = "pullClean"
         /\ Dropping(c, i) => call[c].step = "removeCache"
         /\ FlushesNext(c) <=> call[c].step = "flushStorage"
  BY DEF Base, CallsFit, Inserting, Cleaning, Dropping, FlushesNext

\* Calls keep their errands when another one steps.
LEMMA OthersErrands ==
  ASSUME Base, NEW c \in Caller, Own(c), NEW i \in Id
  PROVE  \A d \in Caller \ {c} : /\ HasAdded(d, i)' <=> HasAdded(d, i)
                                 /\ Cleaning(d, i)' <=> Cleaning(d, i)
                                 /\ Dropping(d, i)' <=> Dropping(d, i)
                                 /\ FlushesNext(d)' <=> FlushesNext(d)
  BY OthersKeep DEF HasAdded, Cleaning, Dropping, FlushesNext

\* The steps of call c that change no document, nor take a message out of the
\* cache, nor into it, and begin or end no errand with it.
Neutral(c) ==
  \/ \E request \in Requests : Add(c, request)
  \/ InsertCheck(c)
  \/ \E i \in Id, a \in Answers : AnswerFind(c, i, a)
  \/ AnswerCache(c)
  \/ \E S \in SUBSET Id, f \in Pulls : Pull(c, S, f)
  \/ getFromStorage(c, "pullFind", "pullRetry")
  \/ \E S \in SUBSET Id : RemoveRequest(c, S) \/ RemoveTTLMessages(c, S)

Errands == {"pullClean", "removeCache", "flushStorage"}

\* A neutral step of call c.
LEMMA NeutralCall ==
  ASSUME Base, NEW c \in Caller, Neutral(c), NEW i \in Id
  PROVE  /\ HasAdded(c, i)' <=> HasAdded(c, i)
         /\ call[c].step \notin Errands /\ call'[c].step \notin Errands
<1>1. call[c] \in Call /\ call \in [Caller -> Call]
  BY DEF Base, TypeOK
<1>2. ASSUME NEW request \in Requests, Add(c, request)
      PROVE  call'[c].step = "check" /\ call'[c].added = call[c].added /\ call[c].step = "idle"
  BY <1>1, <1>2 DEF Add, At, Call
<1>3. ASSUME NEW j \in Id, NEW a \in Answers, AnswerFind(c, j, a)
      PROVE  /\ call'[c].step \in {"answer", "answerCache"} /\ call'[c].added = call[c].added
             /\ call[c].step = "idle"
  BY <1>1, <1>3 DEF AnswerFind, At, Call
<1>4. ASSUME AnswerCache(c)
      PROVE  /\ call'[c].step \in {"idle", "removeStorage"} /\ ~HasAdded(c, i)' /\ ~HasAdded(c, i)
             /\ call[c].step = "answerCache"
  <2>1. call[c].step = "answerCache" /\ ~HasAdded(c, i)
    BY <1>4, OneErrand DEF AnswerCache, At
  <2> DEFINE r == [Idle EXCEPT !.step = "removeStorage", !.ids = call[c].ids]
  <2>2. call'[c] = Idle \/ call'[c] = r
    BY <1>1, <1>4 DEF AnswerCache, Return
  <2>3. r.step = "removeStorage" /\ r.added = Idle.added
    BY DEF Idle
  <2> HIDE DEF r
  <2> QED BY <2>1, <2>2, <2>3, IdleFits DEF HasAdded
<1>5. CASE InsertCheck(c)
  BY <1>5, GotoEffect DEF InsertCheck, At, HasAdded, Errands
<1>6. CASE \/ \E S \in SUBSET Id, f \in Pulls : Pull(c, S, f)
           \/ \E S \in SUBSET Id : RemoveRequest(c, S) \/ RemoveTTLMessages(c, S)
  <2>1. call[c].step = "idle"
    BY <1>6 DEF Pull, RemoveRequest, RemoveTTLMessages, At
  <2>2. \E s \in {"pullFind", "removeStorage"} : \E S : GotoWith(c, s, S)
    BY <1>6 DEF Pull, RemoveRequest, RemoveTTLMessages
  <2>3. call'[c].step \in {"pullFind", "removeStorage"} /\ call'[c].added = call[c].added
    BY <2>2, GotoEffect
  <2> QED BY <2>1, <2>3 DEF HasAdded, Errands
<1>7. CASE getFromStorage(c, "pullFind", "pullRetry")
  <2>1. call[c].step = "pullFind" /\ ~HasAdded(c, i)
    BY <1>7, OneErrand DEF getFromStorage, At
  <2>2. CASE Return(c)
    BY <1>1, <2>1, <2>2, IdleFits, ReturnEffect, Zenon DEF Errands, Return
  <2>3. CASE ~Return(c)
    <3>1. \E S : GotoWith(c, "pullRetry", S)
      BY <1>7, <2>3 DEF getFromStorage
    <3>2. call'[c].step = "pullRetry" /\ call'[c].added = call[c].added
      BY <3>1, GotoEffect
    <3> QED BY <2>1, <3>2 DEF HasAdded, Errands
  <2> QED BY <2>2, <2>3
<1> QED BY <1>2, <1>3, <1>4, <1>5, <1>6, <1>7 DEF Neutral, HasAdded, Errands

\* Neutral steps keep cache and storage in line.
LEMMA NeutralFollows ==
  ASSUME Base, NEW c \in Caller, Neutral(c), NEW i \in Id, FollowsAt(i)
  PROVE  FollowsAt(i)'
<1>1. Own(c)
  BY DEF Neutral, Own
<1>2. docs' = docs /\ now' = now
  BY ZenonT(30) DEF Neutral, Add, InsertCheck, AnswerFind, AnswerCache, Pull, getFromStorage, RemoveRequest,
    RemoveTTLMessages, stores
<1>3. pool'[i].at = "none" <=> pool[i].at = "none"
  <2>1. CASE AnswerCache(c)
    <3> DEFINE a == call[c].answer
               q == IF a.lockMs > 0 THEN a.kind ELSE "active"
    <3>1. q # "none"
      BY Zenon DEF Base, TypeOK, Call, Answer
    <3>2. pool'[i].at = pool[i].at \/ (pool[i].at = "processing" /\ pool'[i].at = q)
      BY <2>1 DEF AnswerCache, Put
    <3> HIDE DEF q
    <3> QED BY <3>1, <3>2
  <2>2. CASE \E S \in SUBSET Id, f \in Pulls : Pull(c, S, f)
    BY <2>2 DEF Pull, Put
  <2>3. CASE UNCHANGED pool
    BY <2>3
  <2> QED
    BY <2>1, <2>2, <2>3, Zenon
    DEF Neutral, Add, InsertCheck, AnswerFind, getFromStorage, RemoveRequest, RemoveTTLMessages, stores
<1>4. /\ HasAdded(c, i)' <=> HasAdded(c, i)
      /\ Cleaning(c, i)' <=> Cleaning(c, i)
      /\ Dropping(c, i)' <=> Dropping(c, i)
      /\ FlushesNext(c)' <=> FlushesNext(c)
  BY NeutralCall DEF Cleaning, Dropping, FlushesNext, Errands
<1>5. (Stored(i)' <=> Stored(i)) /\ (isExpired(i) => isExpired(i)')
  BY <1>2 DEF Stored, isExpired
<1>6. \A d \in Caller : /\ HasAdded(d, i)' <=> HasAdded(d, i)
                        /\ Cleaning(d, i)' <=> Cleaning(d, i)
                        /\ Dropping(d, i)' <=> Dropping(d, i)
                        /\ FlushesNext(d)' <=> FlushesNext(d)
  BY <1>1, <1>4, OthersErrands
<1> QED BY <1>3, <1>5, <1>6, FollowsKept

\* An answer changes counters, not whether a message is stored or expired.
LEMMA AnswerUpdateFollows ==
  ASSUME Base, NEW c \in Caller, AnswerUpdate(c), NEW i \in Id, FollowsAt(i)
  PROVE  FollowsAt(i)'
<1>1. pool' = pool /\ now' = now /\ call[c].step = "answer"
  BY DEF AnswerUpdate, At
<1>2. \A d \in Caller : /\ HasAdded(d, i)' <=> HasAdded(d, i)
                        /\ Cleaning(d, i)' <=> Cleaning(d, i)
                        /\ Dropping(d, i)' <=> Dropping(d, i)
                        /\ FlushesNext(d)' <=> FlushesNext(d)
  BY <1>1, AnswerKeeps DEF Cleaning, Dropping, FlushesNext
<1>3. (Stored(i)' <=> Stored(i)) /\ (isExpired(i) => isExpired(i)')
  <2> DEFINE a == call[c].answer
             j == CHOOSE k \in call[c].ids : TRUE
             current == docs[j].internalId = call[c].target
  <2>1. j \in Id /\ call[c].target # 0
    BY DEF Base, CallsFit, AnswerUpdate, At
  <2>2. docs' = IF current THEN [docs EXCEPT ![j] = Answered(docs[j], a)] ELSE docs
    BY DEF AnswerUpdate
  <2>3. a \in Answer /\ docs[j] \in Document
    BY <2>1 DEF Base, TypeOK, Call
  <2> HIDE DEF j, a
  <2>4. /\ Answered(docs[j], a).internalId = docs[j].internalId
        /\ Answered(docs[j], a).expiry = docs[j].expiry
        /\ Answered(docs[j], a).timeless = docs[j].timeless
    BY <2>3, AnsweredFits, Zenon DEF Answered, Document
  <2>5. NoDocument.internalId = 0
    BY DEF NoDocument, NewDocument
  <2>6. CASE docs'[i] = docs[i]
    BY <1>1, <2>6 DEF Stored, isExpired
  <2>7. CASE docs'[i] # docs[i]
    <3>1. i = j /\ current /\ docs'[i] = Answered(docs[j], a)
      BY <2>1, <2>2, <2>7 DEF Base, TypeOK
    <3>2. docs'[i].internalId # 0 /\ docs[i].internalId # 0
      BY <2>1, <2>4, <3>1
    <3> QED BY <1>1, <2>4, <2>5, <3>1, <3>2 DEF Stored, isExpired
  <2> QED BY <2>6, <2>7
<1> QED BY <1>1, <1>2, <1>3, FollowsKept

\* Timeouts and unlocks move messages within the cache; time only expires them.
LEMMA StillFollows ==
  ASSUME Base, Still, NEW i \in Id, FollowsAt(i)
  PROVE  FollowsAt(i)'
<1>1. call' = call /\ docs' = docs
  BY Zenon DEF Still, InsertPanics, TimeoutMessage, UnlockMessage, Tick, stores
<1>2. pool'[i].at = "none" <=> pool[i].at = "none"
  BY DEF Still, InsertPanics, TimeoutMessage, UnlockMessage, Tick, stores, Put
<1>3. isExpired(i) => isExpired(i)'
  <2>1. now' = now \/ now' = now + 1
    BY Zenon DEF Still, InsertPanics, TimeoutMessage, UnlockMessage, Tick
  <2>2. docs[i].expiry \in Int /\ now \in Int
    BY DEF Base, TypeOK, Document
  <2>3. docs[i].expiry <= now => docs[i].expiry <= now'
    BY <2>1, <2>2
  <2> QED BY <1>1, <2>3 DEF isExpired
<1>4. \A d \in Caller : /\ HasAdded(d, i)' <=> HasAdded(d, i)
                        /\ Cleaning(d, i)' <=> Cleaning(d, i)
                        /\ Dropping(d, i)' <=> Dropping(d, i)
                        /\ FlushesNext(d)' <=> FlushesNext(d)
  BY <1>1 DEF HasAdded, Cleaning, Dropping, FlushesNext
<1>5. Stored(i)' <=> Stored(i)
  BY <1>1 DEF Stored
<1> QED BY <1>2, <1>3, <1>4, <1>5, FollowsKept

\* Insert goes on with the next message, and remembers the one it inserted.
LEMMA InsertedEffect ==
  ASSUME Base, NEW c \in Caller, NEW j \in Id, NEW e, Inserted(c, j, e)
  PROVE  /\ call'[c].step \in {"addCache", "check"}
         /\ call'[c].added = [call[c].added EXCEPT ![j] = e]
<1> DEFINE rest == Tail(call[c].pending)
           s == IF rest = << >> THEN "addCache" ELSE "check"
           r == [call[c] EXCEPT !.pending = rest, !.added[j] = e, !.step = s]
<1>1. call'[c] = r
  BY DEF Inserted, Base, TypeOK
<1>2. s \in {"addCache", "check"}
  OBVIOUS
<1> HIDE DEF rest, s
<1>3. r.step = s /\ r.added = [call[c].added EXCEPT ![j] = e]
  BY DEF Base, TypeOK, Call
<1> QED BY <1>1, <1>2, <1>3

\* An inserted message is on its way to the cache, and no removal is under way
\* unless the calls overlap.
LEMMA InsertFollows ==
  ASSUME Base, NEW c \in Caller, InsertCreate(c) \/ InsertUpdate(c),
         NEW i \in Id \ overlapped', FollowsAt(i)
  PROVE  FollowsAt(i)'
<1> DEFINE m == Head(call[c].pending)
           e == [internalId |-> IF call[c].step = "create" THEN internalCounter + 1 ELSE 0,
                 score |-> m.score]
<1>1. m.id \in Id /\ call[c].step \in {"create", "update"} /\ Own(c)
  BY ZenonT(30) DEF Base, CallsFit, InsertCreate, InsertUpdate, At, Own
<1>2. Inserted(c, m.id, e) /\ pool' = pool /\ now' = now
  BY Zenon DEF InsertCreate, InsertUpdate, At
<1>3. e # NotAdded
  <2>1. e.internalId # -1
    BY DEF Base, TypeOK
  <2> QED BY <2>1 DEF NotAdded
<1>4. i = m.id => ~Removing(i)
  BY DEF InsertCreate, InsertUpdate
<1>5. i # m.id => docs'[i] = docs[i]
  BY DEF InsertCreate, InsertUpdate, Base, TypeOK
<1>6. i = m.id => docs'[i] # NoDocument
  <2> DEFINE n == internalCounter + 1
  <2>1. NoDocument.internalId = 0 /\ n # 0
    BY DEF NoDocument, NewDocument, Base, TypeOK
  <2>2. CASE InsertCreate(c)
    <3>1. docs' = [docs EXCEPT ![m.id] = NewDocument(n, m)]
      BY <2>2 DEF InsertCreate
    <3>2. NewDocument(n, m).internalId = n
      BY DEF NewDocument
    <3> HIDE DEF m, n
    <3> QED BY <1>1, <2>1, <3>1, <3>2, SMTT(30) DEF Base, TypeOK
  <2>3. CASE InsertUpdate(c)
    <3>1. ~InsertCreate(c) /\ ~RemoveStorage(c) /\ ~FlushStorage(c) /\ Stored(m.id)
      BY <2>3 DEF InsertCreate, InsertUpdate, RemoveStorage, FlushStorage, At
    <3> QED BY <1>1, <3>1, StoredKept
  <2> QED BY <2>2, <2>3
<1> HIDE DEF m, e
<1>7. /\ call'[c].step \in {"addCache", "check"}
      /\ call'[c].added = [call[c].added EXCEPT ![m.id] = e]
  BY <1>1, <1>2, InsertedEffect
<1>8. call[c].added \in [Id -> [internalId : Int, score : Int]]
  BY DEF Base, TypeOK, Call
<1>9. /\ ~Cleaning(c, i)' /\ ~Dropping(c, i)' /\ ~FlushesNext(c)'
      /\ ~Cleaning(c, i) /\ ~Dropping(c, i) /\ ~FlushesNext(c)
  BY <1>1, <1>7 DEF Cleaning, Dropping, FlushesNext
<1>10. CASE i # m.id
  <2>1. HasAdded(c, i)' <=> HasAdded(c, i)
    BY <1>7, <1>8, <1>10 DEF HasAdded
  <2>2. \A d \in Caller : /\ HasAdded(d, i)' <=> HasAdded(d, i)
                          /\ Cleaning(d, i)' <=> Cleaning(d, i)
                          /\ Dropping(d, i)' <=> Dropping(d, i)
                          /\ FlushesNext(d)' <=> FlushesNext(d)
    BY <1>1, <1>9, <2>1, OthersErrands
  <2>3. (Stored(i)' <=> Stored(i)) /\ (isExpired(i) => isExpired(i)')
    BY <1>2, <1>5, <1>10 DEF Stored, isExpired
  <2> QED BY <1>2, <2>2, <2>3, FollowsKept
<1>11. CASE i = m.id
  <2>1. HasAdded(c, i)' /\ Stored(i)'
    BY <1>3, <1>6, <1>7, <1>8, <1>11 DEF HasAdded, Stored
  <2>2. \A d \in Caller : ~Cleaning(d, i) /\ ~Dropping(d, i)
    BY <1>4, <1>11 DEF Removing, Cleaning, Dropping
  <2>3. \A d \in Caller : ~Cleaning(d, i)' /\ ~Dropping(d, i)'
    BY <1>1, <1>9, <2>2, OthersErrands
  <2> QED BY <2>1, <2>3 DEF FollowsAt, CallFollows
<1> QED BY <1>10, <1>11

\* What a recovery is about to give to the cache is stored.
LEMMA RecoverFollows ==
  ASSUME Base, NEW c \in Caller, Recover(c), NEW i \in Id, FollowsAt(i)
  PROVE  FollowsAt(i)'
<1>1. Own(c) /\ call[c].step = "idle" /\ call'[c].step = "addCache"
  BY RecoverEffect DEF Own
<1>2. docs' = docs /\ now' = now /\ pool' = pool
  BY RecoverEffect DEF stores
<1>3. /\ ~HasAdded(c, i) /\ ~Cleaning(c, i)' /\ ~Dropping(c, i)' /\ ~FlushesNext(c)'
      /\ ~Cleaning(c, i) /\ ~Dropping(c, i) /\ ~FlushesNext(c)
  BY <1>1, OneErrand DEF Cleaning, Dropping, FlushesNext
<1>4. HasAdded(c, i)' => Stored(i)
  BY RecoverEffect
<1>5. (Stored(i)' <=> Stored(i)) /\ (isExpired(i)' <=> isExpired(i))
  BY <1>2 DEF Stored, isExpired
<1> QED BY <1>1, <1>2, <1>3, <1>4, <1>5, OthersErrands, SMTT(30) DEF FollowsAt, CallFollows

\* The cache gets what a call added, which is stored; a request that fails
\* half-way leaves its messages to the overlapped ones.
LEMMA AddEndFollows ==
  ASSUME Base, NEW c \in Caller, AddMessagesToCache(c) \/ InsertInvalid(c),
         NEW i \in Id \ overlapped', FollowsAt(i)
  PROVE  FollowsAt(i)'
<1>1. Own(c) /\ Return(c) /\ docs' = docs /\ now' = now
  BY DEF Own, AddMessagesToCache, InsertInvalid, stores
<1>2. /\ ~HasAdded(c, i)' /\ ~Cleaning(c, i)' /\ ~Dropping(c, i)' /\ ~FlushesNext(c)'
      /\ ~Cleaning(c, i) /\ ~Dropping(c, i) /\ ~FlushesNext(c)
  BY <1>1, ReturnEffect DEF AddMessagesToCache, InsertInvalid, At, Cleaning, Dropping, FlushesNext
<1>3. Stored(i)' <=> Stored(i)
  BY <1>1 DEF Stored
<1>4. isExpired(i)' <=> isExpired(i)
  BY <1>1 DEF isExpired
<1>5. CASE HasAdded(c, i)
  <2>1. Stored(i)
    BY <1>5 DEF FollowsAt, CallFollows
  <2>2. ~InsertInvalid(c)
    BY <1>5 DEF InsertInvalid
  <2>3. pool'[i].at # "none"
    BY <1>5, <2>2 DEF AddMessagesToCache, InsertAdded
  <2> QED BY <1>1, <1>2, <1>3, <1>4, <2>1, <2>3, OthersErrands DEF FollowsAt, CallFollows
<1>6. CASE ~HasAdded(c, i)
  <2>1. pool'[i] = pool[i]
    BY <1>6 DEF AddMessagesToCache, InsertAdded, InsertInvalid, stores
  <2>2. \A d \in Caller : /\ HasAdded(d, i)' <=> HasAdded(d, i)
                          /\ Cleaning(d, i)' <=> Cleaning(d, i)
                          /\ Dropping(d, i)' <=> Dropping(d, i)
                          /\ FlushesNext(d)' <=> FlushesNext(d)
    BY <1>1, <1>2, <1>6, OthersErrands
  <2> QED BY <1>3, <1>4, <2>1, <2>2, FollowsKept
<1> QED BY <1>5, <1>6

\* A pull gives up a message that the storage has not, or that is expired.
LEMMA PullRetryFollows ==
  ASSUME Base, NEW c \in Caller, getFromStorage(c, "pullRetry", "pullClean"), NEW i \in Id,
         FollowsAt(i)
  PROVE  FollowsAt(i)'
<1> DEFINE notFound == call[c].ids \ Find([AnyMessage EXCEPT !.ids = call[c].ids])
<1>1. Own(c) /\ docs' = docs /\ now' = now /\ pool' = pool /\ call[c].step = "pullRetry"
  BY DEF Own, getFromStorage, stores, At
<1>2. ~HasAdded(c, i) /\ ~Cleaning(c, i) /\ ~Dropping(c, i) /\ ~FlushesNext(c)
  BY <1>1, OneErrand DEF Cleaning, Dropping, FlushesNext
<1>3. i \in notFound => ~Stored(i) \/ isExpired(i)
  BY DEF Find, matchesInternalFilter, MatchesExpiry, AnyMessage
<1>4. /\ ~HasAdded(c, i)' /\ ~Dropping(c, i)' /\ ~FlushesNext(c)'
      /\ Cleaning(c, i)' => i \in notFound
  <2>1. CASE Return(c)
    BY <2>1, ReturnEffect
  <2>2. CASE GotoWith(c, "pullClean", notFound)
    <3> HIDE DEF notFound
    <3>1. call'[c].step = "pullClean" /\ call'[c].added = call[c].added /\ call'[c].ids = notFound
      BY <2>2 DEF Base, TypeOK, Call, GotoWith
    <3> QED BY <1>2, <3>1 DEF HasAdded, Cleaning, Dropping, FlushesNext
  <2> QED BY <2>1, <2>2 DEF getFromStorage
<1>5. (Stored(i)' <=> Stored(i)) /\ (isExpired(i)' <=> isExpired(i))
  BY <1>1 DEF Stored, isExpired
<1> HIDE DEF notFound
<1> QED BY <1>1, <1>2, <1>3, <1>4, <1>5, OthersErrands DEF FollowsAt, CallFollows

\* A call that drops messages from the cache.
LEMMA DropFollows ==
  ASSUME Base, NEW c \in Caller, PullClean(c) \/ RemoveCache(c), NEW i \in Id, FollowsAt(i)
  PROVE  FollowsAt(i)'
<1>1. Own(c) /\ Return(c) /\ docs' = docs /\ now' = now /\ Drop(call[c].ids)
  BY DEF Own, PullClean, RemoveCache
<1>2. ~HasAdded(c, i)' /\ ~Cleaning(c, i)' /\ ~Dropping(c, i)' /\ ~FlushesNext(c)'
  BY <1>1, ReturnEffect
<1>3. ~HasAdded(c, i) /\ ~FlushesNext(c) /\ call[c].step \in {"pullClean", "removeCache"}
  BY OneErrand DEF PullClean, RemoveCache, At, FlushesNext
<1>4. (Stored(i)' <=> Stored(i)) /\ (isExpired(i)' <=> isExpired(i))
  BY <1>1 DEF Stored, isExpired
<1>5. CASE i \in call[c].ids
  <2>1. pool'[i].at = "none"
    BY <1>1, <1>5 DEF Drop, Put
  <2>2. ~Stored(i) \/ isExpired(i)
    BY <1>3, <1>5 DEF FollowsAt, CallFollows, Cleaning, Dropping
  <2> QED BY <1>1, <1>2, <1>3, <1>4, <2>1, <2>2, OthersErrands DEF FollowsAt, CallFollows
<1>6. CASE i \notin call[c].ids
  <2>1. pool'[i] = pool[i]
    BY <1>1, <1>6 DEF Drop, Put
  <2>2. ~Cleaning(c, i) /\ ~Dropping(c, i)
    BY <1>6 DEF Cleaning, Dropping
  <2> QED BY <1>1, <1>2, <1>3, <1>4, <2>1, <2>2, OthersErrands DEF FollowsAt, CallFollows
<1> QED BY <1>5, <1>6

\* A removal has the cache told next.
LEMMA RemoveStorageFollows ==
  ASSUME Base, NEW c \in Caller, RemoveStorage(c), NEW i \in Id \ overlapped', FollowsAt(i)
  PROVE  FollowsAt(i)'
<1>1. Own(c) /\ now' = now /\ pool' = pool /\ call[c].step = "removeStorage"
  BY Zenon DEF Own, RemoveStorage, At
<1>2. ~HasAdded(c, i) /\ ~Cleaning(c, i) /\ ~Dropping(c, i) /\ ~FlushesNext(c)
  BY <1>1, OneErrand DEF Cleaning, Dropping, FlushesNext
<1>3. /\ call'[c].step = "removeCache" /\ call'[c].added = call[c].added
      /\ call'[c].ids = call[c].ids
  BY DEF RemoveStorage, Goto, Base, TypeOK, Call
<1>4. ~HasAdded(c, i)' /\ ~Cleaning(c, i)' /\ ~FlushesNext(c)'
      /\ (Dropping(c, i)' <=> i \in call[c].ids)
  BY <1>2, <1>3 DEF HasAdded, Cleaning, Dropping, FlushesNext
<1>5. CASE i \in call[c].ids
  <2>1. docs'[i] = NoDocument /\ ~Adding(i)
    BY <1>5 DEF RemoveStorage, Delete
  <2>2. ~Stored(i)'
    BY <2>1 DEF Stored
  <2>3. \A d \in Caller : ~HasAdded(d, i)'
    BY <1>1, <1>4, <2>1, OthersErrands, Zenon DEF Adding
  <2>4. Dropping(c, i)'
    BY <1>4, <1>5
  <2> QED BY <2>2, <2>3, <2>4, Zenon DEF FollowsAt, CallFollows
<1>6. CASE i \notin call[c].ids
  <2>1. docs'[i] = docs[i]
    BY <1>6 DEF RemoveStorage, Delete
  <2>2. (Stored(i)' <=> Stored(i)) /\ (isExpired(i)' <=> isExpired(i))
    BY <1>1, <2>1 DEF Stored, isExpired
  <2> QED BY <1>1, <1>2, <1>4, <1>6, <2>2, OthersErrands, ZenonT(40) DEF FollowsAt, CallFollows
<1> QED BY <1>5, <1>6

\* A flush empties the cache, and then the storage.
LEMMA FlushFollows ==
  ASSUME Base, NEW c \in Caller, FlushCache(c) \/ FlushStorage(c),
         NEW i \in Id \ overlapped', FollowsAt(i)
  PROVE  FollowsAt(i)'
<1>1. Own(c)
  BY DEF Own
<1>2. CASE FlushCache(c)
  <2>1. docs' = docs /\ now' = now /\ pool'[i].at = "none" /\ call[c].step = "idle"
    BY <1>2 DEF FlushCache, Drop, Put, At
  <2>2. ~HasAdded(c, i) /\ ~Cleaning(c, i) /\ ~Dropping(c, i) /\ ~FlushesNext(c)
    BY <2>1, OneErrand DEF Cleaning, Dropping, FlushesNext
  <2>3. call'[c].step = "flushStorage" /\ call'[c].added = call[c].added
    BY <1>2, GotoEffect DEF FlushCache
  <2>4. ~HasAdded(c, i)' /\ ~Cleaning(c, i)' /\ ~Dropping(c, i)' /\ FlushesNext(c)'
    BY <2>2, <2>3 DEF HasAdded, Cleaning, Dropping, FlushesNext
  <2>5. (Stored(i)' <=> Stored(i)) /\ (isExpired(i)' <=> isExpired(i))
    BY <2>1 DEF Stored, isExpired
  <2> QED BY <1>1, <2>1, <2>4, <2>5, OthersErrands, ZenonT(40) DEF FollowsAt, CallFollows
<1>3. CASE FlushStorage(c)
  <2>1. docs'[i] = NoDocument /\ pool' = pool /\ call[c].step = "flushStorage" /\ Return(c)
    BY <1>3 DEF FlushStorage, Delete, At
  <2>2. ~(Stored(i) /\ (Adding(i) \/ pool[i].at # "none"))
    BY <1>3 DEF FlushStorage, Delete
  <2>3. ~HasAdded(c, i)' /\ ~Cleaning(c, i)' /\ ~Dropping(c, i)' /\ ~FlushesNext(c)'
    BY <2>1, ReturnEffect
  <2>4. ~HasAdded(c, i) /\ ~Cleaning(c, i) /\ ~Dropping(c, i)
    BY <2>1, OneErrand DEF Cleaning, Dropping
  <2>5. ~Stored(i)'
    BY <2>1 DEF Stored
  <2> QED BY <1>1, <2>1, <2>2, <2>3, <2>4, <2>5, OthersErrands, ZenonT(40) DEF FollowsAt, CallFollows, Adding
<1> QED BY <1>2, <1>3

\* Every stored message that is not expired is in a list of the cache, or about
\* to be; every listed one is stored, or about to be removed, but for the
\* messages on which calls overlapped.
THEOREM MemoryCacheFollows == Spec => []CacheFollowsStorage
<1>1. Init => Follows
  <2> SUFFICES ASSUME Init, NEW i \in Id PROVE FollowsAt(i)
    BY DEF Follows, Safe
  <2>1. ~Stored(i) /\ pool[i].at = "none"
    BY DEF Init, Stored
  <2>2. \A c \in Caller : call[c].step = "idle" /\ ~HasAdded(c, i)
    BY IdleFits DEF Init, HasAdded
  <2> QED BY <2>1, <2>2 DEF FollowsAt, CallFollows, Cleaning, Dropping
<1>2. Base /\ Follows /\ [Next]_vars => Follows'
  <2> SUFFICES ASSUME Base, Follows, [Next]_vars PROVE Follows'
    OBVIOUS
  <2>1. CASE UNCHANGED vars
    BY <2>1 DEF vars, stores, history, Follows, FollowsAt, CallFollows, Safe, Stored, isExpired,
      HasAdded, Cleaning, Dropping, FlushesNext
  <2>2. CASE Next
    <3> SUFFICES ASSUME NEW i \in Id \ overlapped' PROVE FollowsAt(i)'
      BY DEF Follows, Safe
    <3>1. FollowsAt(i)
      BY <2>2, OverlapStays DEF Follows, Safe
    <3>2. ASSUME NEW c \in Caller, Own(c) PROVE FollowsAt(i)'
      BY <3>1, <3>2, NeutralFollows, InsertFollows, AddEndFollows, PullRetryFollows, DropFollows,
        RemoveStorageFollows, FlushFollows, RecoverFollows
      DEF Own, Neutral
    <3> QED BY <2>2, <3>1, <3>2, NextCases, AnswerUpdateFollows, StillFollows
  <2> QED BY <2>1, <2>2
<1> QED BY <1>1, <1>2, FollowsSuffices, InitBase, NextBase, PTL DEF Spec

-----------------------------------------------------------------------------
(* The diagnostics *)

Kinds == {"ack", "nack"}

\* One more answer counts once, and not for the other kind.
LEMMA CountAppend ==
  ASSUME NEW s \in Seq(Kinds), NEW k \in Kinds, NEW kind \in Kinds
  PROVE  CountOf(kind, Append(s, k)) = CountOf(kind, s) + IF k = kind THEN 1 ELSE 0
<1> DEFINE n == Len(s)
           t == Append(s, k)
           A == {j \in 1 .. n : s[j] = kind}
           B == {j \in 1 .. n + 1 : t[j] = kind}
<1>1. n \in Nat /\ DOMAIN s = 1 .. n /\ DOMAIN t = 1 .. n + 1 /\ t[n + 1] = k
      /\ \A j \in 1 .. n : t[j] = s[j]
  OBVIOUS
<1>2. IsFiniteSet(A) /\ n + 1 \notin A
  <2>1. IsFiniteSet(1 .. n)
    BY <1>1, FS_Interval
  <2> QED BY <1>1, <2>1, FS_Subset
<1>3. B = IF k = kind THEN A \cup {n + 1} ELSE A
  BY <1>1
<1>4. CountOf(kind, s) = Cardinality(A) /\ CountOf(kind, t) = Cardinality(B)
  BY <1>1 DEF CountOf
<1>5. Cardinality(A) \in Nat
  BY <1>2, FS_CardinalityType
<1>6. Cardinality(A \cup {n + 1}) = Cardinality(A) + 1
  BY <1>2, FS_AddElement, Zenon
<1> HIDE DEF A, B, n, t
<1> QED BY <1>3, <1>4, <1>5, <1>6 DEF t

\* A run goes on with an answer of its kind and ends with the other.
LEMMA RunAppend ==
  ASSUME NEW s \in Seq(Kinds), NEW k \in Kinds, NEW kind \in Kinds
  PROVE  RunOf(kind, Append(s, k)) = IF k = kind THEN RunOf(kind, s) + 1 ELSE 0
<1> DEFINE n == Len(s)
           t == Append(s, k)
           A == {i \in 1 .. n : \A j \in i .. n : s[j] = kind}
           B == {i \in 1 .. n + 1 : \A j \in i .. n + 1 : t[j] = kind}
<1>1. n \in Nat /\ DOMAIN s = 1 .. n /\ DOMAIN t = 1 .. n + 1 /\ Len(t) = n + 1 /\ t[n + 1] = k
      /\ \A j \in 1 .. n : t[j] = s[j]
  OBVIOUS
<1>2. RunOf(kind, s) = Cardinality(A) /\ RunOf(kind, t) = Cardinality(B)
  BY <1>1 DEF RunOf
<1>3. IsFiniteSet(A) /\ n + 1 \notin A
  <2>1. IsFiniteSet(1 .. n)
    BY <1>1, FS_Interval
  <2> QED BY <1>1, <2>1, FS_Subset
<1> HIDE DEF n, t
<1>4. CASE k = kind
  <2>1. ASSUME NEW i \in 1 .. n + 1 PROVE i \in B <=> i \in A \cup {n + 1}
    BY <1>1, <1>4, <2>1
  <2>2. B = A \cup {n + 1}
    BY <1>1, <2>1
  <2>3. Cardinality(A \cup {n + 1}) = Cardinality(A) + 1
    BY <1>3, FS_AddElement, Zenon
  <2> QED BY <1>2, <1>4, <2>2, <2>3, Zenon DEF t
<1>5. CASE k # kind
  <2>1. B = {}
    BY <1>1, <1>5
  <2> QED BY <1>2, <1>5, <2>1, FS_EmptySet, Zenon DEF t
<1> QED BY <1>4, <1>5

\* Without answers all counts are zero.
LEMMA CountNothing ==
  \A kind : CountOf(kind, << >>) = 0 /\ RunOf(kind, << >>) = 0
  BY FS_EmptySet DEF CountOf, RunOf

Exact(d, s) ==
  /\ d.acks = CountOf("ack", s) /\ d.nacks = CountOf("nack", s)
  /\ d.consecutiveAcks = RunOf("ack", s) /\ d.consecutiveNacks = RunOf("nack", s)

\* Answers are counted from nothing once a document is gone.
Counted ==
  \A i \in Id : /\ ~Stored(i) => answers[i] = << >>
                /\ Stored(i) /\ i \notin lost => Exact(docs[i], answers[i])

\* An answer brings the counters of its document up to date.
LEMMA AnsweredExact ==
  ASSUME NEW d \in Document, NEW a \in Answer, NEW s \in Seq(Kinds), Exact(d, s)
  PROVE  Exact(Answered(d, a), Append(s, a.kind))
<1>1. a.kind \in Kinds
  BY DEF Answer, Kinds
<1>2. CASE a.kind = "ack"
  <2> DEFINE e == Answered(d, a)
  <2>1. /\ e.acks = d.acks + 1 /\ e.nacks = d.nacks
        /\ e.consecutiveAcks = d.consecutiveAcks + 1 /\ e.consecutiveNacks = 0
    BY <1>2 DEF Answered, Document
  <2>2. /\ CountOf("ack", Append(s, a.kind)) = CountOf("ack", s) + 1
        /\ CountOf("nack", Append(s, a.kind)) = CountOf("nack", s) + 0
    BY <1>1, <1>2, CountAppend DEF Kinds
  <2>3. /\ RunOf("ack", Append(s, a.kind)) = RunOf("ack", s) + 1
        /\ RunOf("nack", Append(s, a.kind)) = 0
    BY <1>1, <1>2, RunAppend DEF Kinds
  <2>4. d.nacks \in Nat
    BY DEF Document
  <2> HIDE DEF e
  <2> QED BY <2>1, <2>2, <2>3, <2>4 DEF Exact, e
<1>3. CASE a.kind = "nack"
  <2> DEFINE e == Answered(d, a)
  <2>1. /\ e.acks = d.acks /\ e.nacks = d.nacks + 1
        /\ e.consecutiveAcks = 0 /\ e.consecutiveNacks = d.consecutiveNacks + 1
    BY <1>3 DEF Answered, Document
  <2>2. /\ CountOf("ack", Append(s, a.kind)) = CountOf("ack", s) + 0
        /\ CountOf("nack", Append(s, a.kind)) = CountOf("nack", s) + 1
    BY <1>1, <1>3, CountAppend DEF Kinds
  <2>3. /\ RunOf("ack", Append(s, a.kind)) = 0
        /\ RunOf("nack", Append(s, a.kind)) = RunOf("nack", s) + 1
    BY <1>1, <1>3, RunAppend DEF Kinds
  <2>4. d.acks \in Nat
    BY DEF Document
  <2> HIDE DEF e
  <2> QED BY <2>1, <2>2, <2>3, <2>4 DEF Exact, e
<1> QED BY <1>1, <1>2, <1>3 DEF Kinds

\* A new document starts from zero; one it replaces is lost.
LEMMA CreateCounted ==
  ASSUME Base, Counted, NEW c \in Caller, InsertCreate(c)
  PROVE  Counted'
<1> DEFINE m == Head(call[c].pending)
           n == internalCounter + 1
<1>1. m.id \in Id
  BY ZenonT(30) DEF InsertCreate, At, Base, CallsFit
<1>2. docs' = [docs EXCEPT ![m.id] = NewDocument(n, m)] /\ answers' = answers
      /\ lost' = IF Stored(m.id) THEN lost \cup {m.id} ELSE lost
  BY Zenon DEF InsertCreate
<1>3. Exact(NewDocument(n, m), << >>)
  BY CountNothing DEF Exact, NewDocument
<1>4. NewDocument(n, m) # NoDocument
  <2>1. NewDocument(n, m).internalId = n /\ NoDocument.internalId = 0 /\ n # 0
    BY DEF NewDocument, NoDocument, Base, TypeOK
  <2> QED BY <2>1
<1> HIDE DEF m, n
<1> SUFFICES ASSUME NEW i \in Id
             PROVE  /\ docs'[i] = NoDocument => answers'[i] = << >>
                    /\ docs'[i] # NoDocument /\ i \notin lost' => Exact(docs'[i], answers'[i])
  BY DEF Counted, Stored
<1>5. CASE i = m.id
  BY <1>1, <1>2, <1>3, <1>4, <1>5 DEF Counted, Stored, Base, TypeOK
<1>6. CASE i # m.id
  BY <1>1, <1>2, <1>6, SMTT(30) DEF Counted, Stored, Base, TypeOK
<1> QED BY <1>5, <1>6

\* An update leaves the counters alone.
LEMMA UpdateCounted ==
  ASSUME Base, Counted, NEW c \in Caller, InsertUpdate(c)
  PROVE  Counted'
<1> DEFINE m == Head(call[c].pending)
<1>1. m.id \in Id /\ Stored(m.id) /\ docs[m.id] \in Document
  BY ZenonT(30) DEF InsertUpdate, At, Base, TypeOK, CallsFit
<1>2. docs' = [docs EXCEPT ![m.id] = Updated(docs[m.id], m)] /\ answers' = answers /\ lost' = lost
  BY Zenon DEF InsertUpdate
<1> HIDE DEF m
<1>3. LET u == Updated(docs[m.id], m)
          d == docs[m.id]
      IN  /\ u.acks = d.acks /\ u.nacks = d.nacks
          /\ u.consecutiveAcks = d.consecutiveAcks /\ u.consecutiveNacks = d.consecutiveNacks
  BY <1>1 DEF Updated, Document
<1>4. \A s : Exact(docs[m.id], s) => Exact(Updated(docs[m.id], m), s)
  BY <1>3 DEF Exact
<1> SUFFICES ASSUME NEW i \in Id
             PROVE  /\ docs'[i] = NoDocument => answers'[i] = << >>
                    /\ docs'[i] # NoDocument /\ i \notin lost' => Exact(docs'[i], answers'[i])
  BY DEF Counted, Stored
<1>5. CASE i = m.id
  <2>1. docs'[i] # NoDocument
    <3>1. Updated(docs[m.id], m).internalId = docs[m.id].internalId
      BY <1>1 DEF Updated, Document
    <3>2. NoDocument.internalId = 0 /\ docs[m.id].internalId # 0
      BY <1>1 DEF NoDocument, NewDocument, Base, Numbered
    <3> QED BY <1>1, <1>2, <1>5, <3>1, <3>2 DEF Base, TypeOK
  <2> QED BY <1>1, <1>2, <1>4, <1>5, <2>1, Zenon DEF Counted, Stored, Base, TypeOK
<1>6. CASE i # m.id
  BY <1>1, <1>2, <1>6 DEF Counted, Stored, Base, TypeOK
<1> QED BY <1>5, <1>6

\* An answer is counted, or its message is among the lost ones.
LEMMA AnswerUpdateCounted ==
  ASSUME Base, Counted, NEW c \in Caller, AnswerUpdate(c)
  PROVE  Counted'
<1> DEFINE a == call[c].answer
           j == CHOOSE k \in call[c].ids : TRUE
           current == docs[j].internalId = call[c].target
<1>1. j \in Id /\ call[c].target # 0
  BY Zenon DEF Base, CallsFit, AnswerUpdate, At
<1>2. /\ docs' = IF current THEN [docs EXCEPT ![j] = Answered(docs[j], a)] ELSE docs
      /\ answers' = IF Stored(j) THEN [answers EXCEPT ![j] = Append(answers[j], a.kind)] ELSE answers
      /\ lost' = IF Stored(j) /\ ~current THEN lost \cup {j} ELSE lost
  BY DEF AnswerUpdate
<1>3. a \in Answer /\ docs[j] \in Document /\ answers[j] \in Seq(Kinds)
  BY <1>1 DEF Base, TypeOK, Call, Kinds
<1>4. NoDocument.internalId = 0
  BY DEF NoDocument, NewDocument
<1>5. current => Stored(j)
  BY <1>1 DEF Base, Numbered
<1> HIDE DEF a, j
<1>6. Exact(docs[j], answers[j]) => Exact(Answered(docs[j], a), Append(answers[j], a.kind))
  BY <1>3, AnsweredExact
<1>7. current => Answered(docs[j], a) # NoDocument
  <2>1. Answered(docs[j], a).internalId = docs[j].internalId
    BY <1>3, AnsweredFits
  <2> QED BY <1>1, <1>4, <2>1
<1> SUFFICES ASSUME NEW i \in Id
             PROVE  /\ docs'[i] = NoDocument => answers'[i] = << >>
                    /\ docs'[i] # NoDocument /\ i \notin lost' => Exact(docs'[i], answers'[i])
  BY DEF Counted, Stored
<1>8. CASE i # j
  BY <1>1, <1>2, <1>8 DEF Counted, Stored, Base, TypeOK
<1>9. CASE i = j /\ current
  BY <1>1, <1>2, <1>5, <1>6, <1>7, <1>9 DEF Counted, Stored, Base, TypeOK
<1>10. CASE i = j /\ ~current
  BY <1>1, <1>2, <1>10 DEF Counted, Stored, Base, TypeOK
<1> QED BY <1>8, <1>9, <1>10

\* A deletion forgets the answers with the document.
LEMMA DeleteCounted ==
  ASSUME Base, Counted, NEW S, NEW unsafe, Delete(S, unsafe)
  PROVE  Counted'
  BY DEF Counted, Stored, Delete

\* A stored message has counted exactly the answers it got, in number and in
\* consecutive runs, unless an answer went to a document that was replaced.
THEOREM MemoryDiagnostics == Spec => []DiagnosticsAreExact
<1>1. Init => Counted
  BY DEF Init, Counted, Stored
<1>2. Base /\ Counted /\ [Next]_vars => Counted'
  <2> SUFFICES ASSUME Base, Counted, [Next]_vars PROVE Counted'
    OBVIOUS
  <2>1. CASE UNCHANGED <<docs, answers, lost>>
    BY <2>1 DEF Counted, Stored
  <2>2. ASSUME NEW c \in Caller, RemoveStorage(c) \/ FlushStorage(c) PROVE Counted'
    BY <2>2, DeleteCounted DEF RemoveStorage, FlushStorage
  <2> QED
    BY <2>1, <2>2, CreateCounted, UpdateCounted, AnswerUpdateCounted, ZenonT(40)
    DEF Next, Add, InsertCheck, InsertInvalid, InsertPanics, AddMessagesToCache, AnswerFind,
      AnswerCache, Pull, getFromStorage, PullClean, RemoveRequest, RemoveTTLMessages, RemoveCache,
      FlushCache, RecoveryMessagesPool, TimeoutMessage, UnlockMessage, Tick, stores, history, vars
<1>3. Counted => DiagnosticsAreExact
  BY DEF Counted, Exact, DiagnosticsAreExact
<1> QED BY <1>1, <1>2, <1>3, InitBase, NextBase, PTL DEF Spec
=============================================================================
