------------------------- MODULE MemoryInstanceProofs -------------------------
(***************************************************************************)
(* The types, the scores and the one way to crash of the memory instance,  *)
(* for any ids, callers, requests and bounds.                              *)
(***************************************************************************)
EXTENDS MemoryInstance, TLAPS

Inserting == {"check", "create", "update"}

\* What a call holds fits the step it is at.
CallsFit ==
  \A c \in Caller :
    /\ call[c].step \in Inserting => call[c].pending # << >>
    /\ call[c].step \in {"create", "update"} => Head(call[c].pending).id \in Id
    /\ call[c].step = "answer" => call[c].target # 0
    /\ call[c].step \in {"answer", "answerCache"} => \E i \in Id : call[c].ids = {i}
    /\ \A i \in Id : HasAdded(c, i) => call[c].step \in Inserting \cup {"addCache"}

\* A stored document has an InternalId.
Numbered == \A i \in Id : Stored(i) <=> docs[i].internalId # 0

-----------------------------------------------------------------------------
(* Scores *)

\* What the service makes of a request's score is within the bounds.
LEMMA CappedInBounds == \A s \in Int : Capped(s) \in Int /\ InBounds(Capped(s))
  BY MaxScoreAssumption DEF Capped, InBounds, MinScore

\* A score an available message may have.
Allowed(s) == InBounds(s) \/ s \in AskedFor

\* The score a message is added with: the clock's, or the request's, capped.
LEMMA AddScoreInBounds ==
  \A s \in Int, t \in 1 .. MaxNow : GetAddScore(s, t) \in Int /\ InBounds(GetAddScore(s, t))
  BY CappedInBounds, MaxScoreAssumption, BoundAssumption DEF GetAddScore, InBounds, MinScore

\* A score is left undefined only for a message that is to be locked, and is out
\* of bounds only as an answer asks.
LEMMA AnswerScoreFits ==
  ASSUME NEW a \in Answers, now \in 1 .. MaxNow
  PROVE  /\ AnswerScore(a) \in Int
         /\ Allowed(AnswerScore(a)) \/ (a.lockMs > 0 /\ AnswerScore(a) = Undefined)
<1>1. a \in Answer
  BY InputAssumption
<1>2. now - a.scoreSubtract \in Int
  BY <1>1 DEF Answer
<1>3. /\ ~InBounds(a.score) => Allowed(a.score)
      /\ a.score = 0 /\ a.lockMs < 0 => Allowed(Undefined)
  BY DEF Allowed, AskedFor
<1>4. InBounds(a.score) => Allowed(a.score)
  BY DEF Allowed
<1>5. Allowed(MinScore) /\ \A s \in Int : Capped(s) \in Int /\ Allowed(Capped(s))
  BY CappedInBounds, MaxScoreAssumption DEF Allowed, InBounds, MinScore
<1> HIDE DEF Allowed
<1> QED
  BY <1>1, <1>2, <1>3, <1>4, <1>5, MaxScoreAssumption
  DEF Answer, AnswerScore, AckScore, NackScore, Undefined, MinScore

\* The unlock replaces a score that is not defined.
LEMMA UnlockScoreAllowed ==
  ASSUME NEW s \in Int, Allowed(s) \/ s = Undefined, now \in 1 .. MaxNow, NEW kind
  PROVE  UnlockScore(s, kind, now) \in Int /\ Allowed(UnlockScore(s, kind, now))
  BY MaxScoreAssumption, BoundAssumption DEF UnlockScore, Undefined, Allowed, InBounds, MinScore

-----------------------------------------------------------------------------
(* Types, and what a call holds at each step *)

Base == TypeOK /\ CallsFit /\ Numbered

Pending == [id : Id \cup {NoId}, expiry : Int, timeless : BOOLEAN, score : Int]

\* A call that returns, or never started, holds nothing.
LEMMA IdleFits == Idle \in Call /\ Idle.step = "idle" /\ \A i \in Id : Idle.added[i] = NotAdded
<1>1. NoAnswer \in Answer
  BY DEF NoAnswer, Answer
<1>2. << >> \in Seq(Pending)
  OBVIOUS
<1>3. 0 \in 0 .. MaxInserted
  BY BoundAssumption
<1> QED BY <1>1, <1>2, <1>3 DEF Idle, Call, Steps, NotAdded, Pending

\* The first state has the types, idle calls and no documents.
LEMMA InitBase == Init => Base
<1> SUFFICES ASSUME Init PROVE Base
  OBVIOUS
<1>1. NoDocument \in Document
  BY BoundAssumption DEF NoDocument, NewDocument, Document
<1>2. TypeOK
  <2>1. call \in [Caller -> Call]
    BY IdleFits DEF Init
  <2>2. internalCounter \in 0 .. MaxInserted /\ now \in 1 .. MaxNow
    BY BoundAssumption DEF Init
  <2>3. pool \in [Id -> [at : Places, score : Int]] /\ answers \in [Id -> Seq({"ack", "nack"})]
    BY DEF Init, Places
  <2> QED BY <1>1, <2>1, <2>2, <2>3, Zenon DEF Init, TypeOK
<1>3. CallsFit
  BY IdleFits DEF Init, CallsFit, HasAdded, Inserting
<1>4. Numbered
  BY DEF Init, Numbered, Stored, NoDocument, NewDocument
<1> QED BY <1>2, <1>3, <1>4 DEF Base

\* A message that is still to be inserted.
LEMMA NextPending ==
  ASSUME TypeOK, NEW c \in Caller, call[c].pending # << >>
  PROVE  Head(call[c].pending) \in Pending /\ Tail(call[c].pending) \in Seq(Pending)
<1>1. call[c].pending \in Seq(Pending)
  BY Zenon DEF TypeOK, Call, Pending
<1> QED BY <1>1

\* A step that only makes call c return keeps the rest.
LEMMA ReturnBase ==
  ASSUME Base, NEW c \in Caller, Return(c)
  PROVE  call' \in [Caller -> Call] /\ CallsFit'
<1>1. call' \in [Caller -> Call]
  BY IdleFits DEF Base, TypeOK, Return
<1>2. call'[c] = Idle /\ \A d \in Caller \ {c} : call'[d] = call[d]
  BY DEF Base, TypeOK, Return
<1>3. CallsFit'
  BY <1>1, <1>2, IdleFits DEF Base, CallsFit, HasAdded, Inserting
<1> QED BY <1>1, <1>3

\* So does one that makes it go on with messages S at a step after Insert.
LEMMA GotoBase ==
  ASSUME Base, NEW c \in Caller, NEW S \in SUBSET Id,
         NEW s \in {"pullFind", "pullRetry", "pullClean", "removeStorage", "removeCache",
                    "flushStorage"},
         call[c].step \notin Inserting \cup {"addCache"},
         call' = [call EXCEPT ![c].step = s, ![c].ids = S]
  PROVE  call' \in [Caller -> Call] /\ CallsFit'
<1>1. call' \in [Caller -> Call]
  <2> DEFINE r == [call[c] EXCEPT !.step = s, !.ids = S]
  <2>1. s \in Steps
    BY DEF Steps
  <2>2. r \in Call
    BY <2>1, ZenonT(30) DEF Base, TypeOK, Call
  <2>3. call' = [call EXCEPT ![c] = r]
    BY Zenon DEF Base, TypeOK
  <2> QED BY <2>2, <2>3 DEF Base, TypeOK
<1>2. call'[c].step = s /\ call'[c].added = call[c].added
  BY DEF Base, TypeOK, Call
<1>3. \A d \in Caller \ {c} : call'[d] = call[d]
  BY DEF Base, TypeOK
<1>4. CallsFit'
  BY <1>1, <1>2, <1>3 DEF Base, CallsFit, HasAdded, Inserting
<1> QED BY <1>1, <1>4

\* An Add takes the request's messages with their expiry dates and scores.
LEMMA AddBase ==
  ASSUME Base, NEW c \in Caller, NEW request \in Requests, Add(c, request)
  PROVE  Base'
<1> DEFINE P == [k \in DOMAIN request |->
                   [id |-> request[k].id, expiry |-> Expiry(request[k]),
                    timeless |-> request[k].timeless, score |-> GetAddScore(request[k].score, now)]]
           r == [call[c] EXCEPT !.step = "check", !.pending = P]
<1>1. request \in Seq(Message) /\ request # << >>
  BY InputAssumption
<1>2. P \in Seq(Pending) /\ P # << >>
  <2>1. \A k \in DOMAIN request : P[k] \in Pending
    <3> SUFFICES ASSUME NEW k \in DOMAIN request PROVE P[k] \in Pending
      OBVIOUS
    <3>1. request[k] \in Message
      BY <1>1
    <3>2. now \in 1 .. MaxNow /\ MaxNow \in Nat /\ Century \in Nat
      BY BoundAssumption, MaxScoreAssumption DEF Base, TypeOK
    <3>3. Expiry(request[k]) \in Int
      BY <3>1, <3>2 DEF Message, Expiry
    <3>4. GetAddScore(request[k].score, now) \in Int
      BY <3>1, <3>2, AddScoreInBounds DEF Message
    <3> QED BY <3>1, <3>3, <3>4 DEF Message, Pending
  <2>2. Len(request) \in Nat /\ DOMAIN request = 1 .. Len(request) /\ Len(request) # 0
    BY <1>1
  <2> HIDE DEF P
  <2>3. P \in [1 .. Len(request) -> Pending]
    BY <2>1, <2>2 DEF P
  <2> QED BY <2>2, <2>3
<1>3. r \in Call
  <2>1. "check" \in Steps
    BY DEF Steps
  <2> HIDE DEF P
  <2> QED BY <1>2, <2>1, Zenon DEF Base, TypeOK, Call, Pending
<1>4. call' = [call EXCEPT ![c] = r]
  BY Zenon DEF Base, TypeOK, Add
<1>5. TypeOK'
  <2> HIDE DEF r
  <2> QED BY <1>3, <1>4, Zenon DEF Base, TypeOK, Add, stores, history
<1>6. CallsFit'
  <2> HIDE DEF P
  <2>1. r.step = "check" /\ r.pending = P /\ r.added = call[c].added
    BY DEF Base, TypeOK, Call
  <2>2. \A i \in Id : ~HasAdded(c, i)
    BY DEF Base, CallsFit, Add, At, Inserting
  <2> HIDE DEF r
  <2> QED BY <1>2, <1>4, <2>1, <2>2, Zenon DEF Base, TypeOK, CallsFit, HasAdded, Inserting
<1> QED BY <1>5, <1>6 DEF Base, Add, stores, Numbered, Stored

\* The look-up only decides how the insertion goes on.
LEMMA InsertCheckBase == ASSUME Base, NEW c \in Caller, InsertCheck(c) PROVE Base'
<1> DEFINE s == IF Stored(Head(call[c].pending).id) THEN "update" ELSE "create"
           r == [call[c] EXCEPT !.step = s]
<1>1. s \in Steps /\ s \in {"create", "update"}
  BY DEF Steps
<1> HIDE DEF s
<1>2. r \in Call /\ r.step = s /\ r.pending = call[c].pending /\ r.added = call[c].added
  BY <1>1, Zenon DEF Base, TypeOK, Call
<1>3. call' = [call EXCEPT ![c] = r]
  BY DEF Base, TypeOK, InsertCheck, Goto, s
<1>4. Head(call[c].pending).id \in Id /\ call[c].pending # << >> /\ call[c].step \in Inserting
  <2>1. call[c].pending # << >> /\ call[c].step \in Inserting
    BY DEF Base, CallsFit, InsertCheck, At, Inserting
  <2>2. Head(call[c].pending) \in Pending
    BY <2>1, NextPending DEF Base
  <2> QED BY <2>1, <2>2 DEF InsertCheck, Pending
<1>5. TypeOK'
  <2> HIDE DEF r
  <2> QED BY <1>2, <1>3 DEF Base, TypeOK, InsertCheck, stores, history
<1>6. CallsFit'
  <2> HIDE DEF r
  <2> QED BY <1>1, <1>2, <1>3, <1>4, Zenon DEF Base, TypeOK, CallsFit, HasAdded, Inserting
<1> QED BY <1>5, <1>6 DEF Base, InsertCheck, stores, Numbered, Stored

\* Once a message is inserted the call goes on with the next, or with the cache.
LEMMA InsertedBase ==
  ASSUME Base, NEW c \in Caller, call[c].step \in Inserting, NEW i \in Id,
         NEW entry \in [internalId : Nat, score : Int], Inserted(c, i, entry)
  PROVE  call' \in [Caller -> Call] /\ CallsFit'
<1> DEFINE rest == Tail(call[c].pending)
           s == IF rest = << >> THEN "addCache" ELSE "check"
           new == [call[c].added EXCEPT ![i] = entry]
           r == [call[c] EXCEPT !.pending = rest, !.added = new, !.step = s]
<1>1. s \in Steps /\ (s = "check" \/ s = "addCache") /\ (s = "check" => rest # << >>)
  BY DEF Steps
<1>2. rest \in Seq(Pending)
  BY NextPending DEF Base, CallsFit
<1>3. call[c] \in Call
  BY DEF Base, TypeOK
<1>4. new \in [Id -> [internalId : Int, score : Int]]
  BY <1>3 DEF Call
<1>5. call' = [call EXCEPT ![c] = r]
  BY DEF Base, TypeOK, Inserted
<1> HIDE DEF rest, s, new
<1>6. r \in Call /\ r.step = s /\ r.pending = rest
  BY <1>1, <1>2, <1>3, <1>4, Zenon DEF Call, Pending
<1> HIDE DEF r
<1> QED BY <1>1, <1>5, <1>6, Zenon DEF Base, TypeOK, CallsFit, HasAdded, Inserting

\* A new document gets the next InternalId.
LEMMA InsertCreateBase == ASSUME Base, NEW c \in Caller, InsertCreate(c) PROVE Base'
<1> DEFINE m == Head(call[c].pending)
           n == internalCounter + 1
           entry == [internalId |-> n, score |-> m.score]
<1>1. call[c].step \in Inserting /\ call[c].pending # << >> /\ m.id \in Id
  BY DEF Base, CallsFit, InsertCreate, At, Inserting
<1>2. m \in Pending
  BY <1>1, NextPending DEF Base
<1>3. n \in 1 .. MaxInserted
  BY BoundAssumption DEF Base, TypeOK, InsertCreate
<1>4. entry \in [internalId : Nat, score : Int] /\ Inserted(c, m.id, entry)
  BY <1>2, <1>3 DEF Pending, InsertCreate
<1>5. call' \in [Caller -> Call] /\ CallsFit'
  <2> HIDE DEF m, entry
  <2> QED BY <1>1, <1>4, InsertedBase
<1>6. NewDocument(n, m) \in Document /\ NewDocument(n, m).internalId # 0
  BY <1>2, <1>3, BoundAssumption DEF NewDocument, Document, Pending
<1>7. docs' = [docs EXCEPT ![m.id] = NewDocument(n, m)]
  BY DEF InsertCreate
<1>8. docs' \in [Id -> Document] /\ Numbered'
  <2> HIDE DEF n, m
  <2>1. NewDocument(n, m) # NoDocument
    BY <1>6 DEF NoDocument, NewDocument
  <2> QED BY <1>1, <1>6, <1>7, <2>1 DEF Base, TypeOK, Numbered, Stored
<1>9. internalCounter' \in 0 .. MaxInserted
  BY <1>3 DEF InsertCreate
<1>10. lost' \subseteq Id /\ overlapped' \subseteq Id
  BY <1>1 DEF Base, TypeOK, InsertCreate
<1> QED BY <1>5, <1>8, <1>9, <1>10 DEF Base, TypeOK, InsertCreate

\* A document that is found is given the message's expiry date.
LEMMA InsertUpdateBase == ASSUME Base, NEW c \in Caller, InsertUpdate(c) PROVE Base'
<1> DEFINE m == Head(call[c].pending)
           entry == [internalId |-> 0, score |-> m.score]
<1>1. call[c].step \in Inserting /\ call[c].pending # << >> /\ m.id \in Id
  BY DEF Base, CallsFit, InsertUpdate, At, Inserting
<1>2. m \in Pending
  BY <1>1, NextPending DEF Base
<1>3. entry \in [internalId : Nat, score : Int] /\ Inserted(c, m.id, entry)
  BY <1>2 DEF Pending, InsertUpdate
<1>4. call' \in [Caller -> Call] /\ CallsFit'
  <2> HIDE DEF m, entry
  <2> QED BY <1>1, <1>3, InsertedBase
<1>5. docs' = [docs EXCEPT ![m.id] = [docs[m.id] EXCEPT !.expiry = m.expiry]]
  BY DEF InsertUpdate, Updated
<1>6. docs' \in [Id -> Document] /\ Numbered'
  <2> HIDE DEF m
  <2>1. docs[m.id] \in Document /\ docs[m.id].internalId # 0
    BY <1>1 DEF Base, TypeOK, Numbered, InsertUpdate, m
  <2>2. [docs[m.id] EXCEPT !.expiry = m.expiry] \in Document
    BY <1>2, <2>1 DEF Document, Pending
  <2>3. [docs[m.id] EXCEPT !.expiry = m.expiry].internalId # 0
    BY <2>1 DEF Document
  <2>4. NoDocument.internalId = 0
    BY DEF NoDocument, NewDocument
  <2> QED BY <1>1, <1>5, <2>2, <2>3, <2>4, Zenon DEF Base, TypeOK, Numbered, Stored
<1>7. overlapped' \subseteq Id
  BY <1>1 DEF Base, TypeOK, InsertUpdate
<1> QED BY <1>4, <1>6, <1>7 DEF Base, TypeOK, InsertUpdate

\* A record of answers or documents keeps its shape when fields change.
LEMMA AnswerShape ==
  ASSUME NEW K, NEW N, NEW L, NEW B, NEW x \in N, NEW y \in N,
         NEW e \in [kind : K, score : N, scoreSubtract : N, lockMs : L, remove : B]
  PROVE  [e EXCEPT !.score = x, !.scoreSubtract = y] \in
           [kind : K, score : N, scoreSubtract : N, lockMs : L, remove : B]
  BY Zenon

\* Changing counters of a document leaves a document.
LEMMA DocumentShape ==
  ASSUME NEW I, NEW N, NEW B, NEW x \in N, NEW y \in N, NEW z \in N,
         NEW d \in [internalId : I, expiry : N, timeless : B,
                    acks : N, nacks : N, consecutiveAcks : N, consecutiveNacks : N]
  PROVE  /\ [d EXCEPT !.acks = x, !.consecutiveAcks = y, !.consecutiveNacks = z] \in
              [internalId : I, expiry : N, timeless : B,
               acks : N, nacks : N, consecutiveAcks : N, consecutiveNacks : N]
         /\ [d EXCEPT !.nacks = x, !.consecutiveNacks = y, !.consecutiveAcks = z] \in
              [internalId : I, expiry : N, timeless : B,
               acks : N, nacks : N, consecutiveAcks : N, consecutiveNacks : N]
  BY Zenon

\* An answer holds its message, its score and the document that was found.
LEMMA AnswerFindBase ==
  ASSUME Base, NEW c \in Caller, NEW i \in Id, NEW a \in Answers, AnswerFind(c, i, a)
  PROVE  Base'
<1> DEFINE s == IF Stored(i) THEN "answer" ELSE "answerCache"
           b == [a EXCEPT !.score = AnswerScore(a), !.scoreSubtract = 0]
           r == [call[c] EXCEPT !.step = s, !.ids = {i}, !.answer = b,
                                !.target = docs[i].internalId]
<1>1. s \in Steps /\ s \in {"answer", "answerCache"} /\ (s = "answer" => Stored(i))
  BY DEF Steps
<1>2. b \in Answer
  <2>1. a \in Answer
    BY InputAssumption
  <2>2. AnswerScore(a) \in Int
    BY AnswerScoreFits DEF Base, TypeOK
  <2>3. 0 \in Int
    OBVIOUS
  <2> QED BY <2>1, <2>2, <2>3, AnswerShape, Zenon DEF Answer
<1>3. docs[i].internalId \in 0 .. MaxInserted /\ (Stored(i) => docs[i].internalId # 0)
  BY DEF Base, TypeOK, Numbered, Document
<1>4. call[c] \in Call /\ {i} \in SUBSET Id /\ call[c].step = "idle"
  BY DEF Base, TypeOK, AnswerFind, At
<1>5. call' = [call EXCEPT ![c] = r]
  BY DEF AnswerFind
<1> HIDE DEF s, b
<1>6. r \in Call /\ r.step = s /\ r.ids = {i} /\ r.target = docs[i].internalId
      /\ r.added = call[c].added
  BY <1>1, <1>2, <1>3, <1>4, Zenon DEF Call
<1> HIDE DEF r
<1>7. TypeOK' /\ Numbered'
  BY <1>5, <1>6 DEF Base, TypeOK, Numbered, Stored, AnswerFind, stores, history
<1>8. CallsFit'
  <2>1. \A j \in Id : ~HasAdded(c, j)
    BY <1>4 DEF Base, CallsFit, Inserting
  <2> QED
    BY <1>1, <1>3, <1>4, <1>5, <1>6, <2>1, ZenonT(30) DEF Base, TypeOK, CallsFit, HasAdded, Inserting
<1> QED BY <1>7, <1>8 DEF Base

\* Counting an answer makes no other document of it.
LEMMA AnsweredFits ==
  ASSUME NEW d \in Document, NEW a
  PROVE  /\ Answered(d, a) \in Document
         /\ Answered(d, a).internalId = d.internalId
         /\ Answered(d, a).expiry = d.expiry /\ Answered(d, a).timeless = d.timeless
<1>1. d.acks + 1 \in Nat /\ d.nacks + 1 \in Nat /\ d.consecutiveAcks + 1 \in Nat
      /\ d.consecutiveNacks + 1 \in Nat /\ 0 \in Nat
  BY DEF Document
<1>2. Answered(d, a) \in Document
  BY <1>1, DocumentShape, Zenon DEF Answered, Document
<1>3. /\ Answered(d, a).internalId = d.internalId
      /\ Answered(d, a).expiry = d.expiry /\ Answered(d, a).timeless = d.timeless
  BY DEF Answered, Document
<1> QED BY <1>2, <1>3

\* An answer changes its document, if that is still the stored one, and the score
\* another call may hold of it.
LEMMA AnswerUpdateBase == ASSUME Base, NEW c \in Caller, AnswerUpdate(c) PROVE Base'
<1> DEFINE a == call[c].answer
           i == CHOOSE j \in call[c].ids : TRUE
           current == docs[i].internalId = call[c].target
           aliasing == {d \in Caller : call[d].added[i].internalId = call[c].target}
<1>1. i \in Id /\ call[c].target # 0 /\ call[c].step = "answer"
  BY DEF Base, CallsFit, AnswerUpdate, At
<1>2. \A d \in Caller : call[d] \in Call
  BY DEF Base, TypeOK
<1>3. a \in Answer /\ a.score \in Int /\ a.kind \in {"ack", "nack"}
  BY <1>2 DEF Call, Answer
<1>4. docs' = IF current THEN [docs EXCEPT ![i] = Answered(docs[i], a)] ELSE docs
  BY DEF AnswerUpdate
<1>5. call' = [d \in Caller |->
           IF d = c THEN [call[c] EXCEPT !.step = "answerCache", !.target = 0]
           ELSE IF d \in aliasing THEN [call[d] EXCEPT !.added[i].score = a.score]
           ELSE call[d]]
  BY DEF AnswerUpdate
<1>6. answers' \in [Id -> Seq({"ack", "nack"})]
  BY <1>1, <1>3 DEF Base, TypeOK, AnswerUpdate
<1> HIDE DEF i, a
<1>7. docs' \in [Id -> Document] /\ Numbered'
  <2>1. Answered(docs[i], a) \in Document /\ Answered(docs[i], a).internalId = docs[i].internalId
    BY <1>1, AnsweredFits DEF Base, TypeOK
  <2>2. NoDocument.internalId = 0
    BY DEF NoDocument, NewDocument
  <2> QED BY <1>1, <1>4, <2>1, <2>2 DEF Base, TypeOK, Numbered, Stored
<1>8. [call[c] EXCEPT !.step = "answerCache", !.target = 0] \in Call
  <2>1. "answerCache" \in Steps /\ 0 \in 0 .. MaxInserted
    BY BoundAssumption DEF Steps
  <2> QED BY <1>2, <2>1, Zenon DEF Call
<1>9. ASSUME NEW d \in aliasing
      PROVE  LET r == [call[d] EXCEPT !.added[i].score = a.score]
             IN  /\ r \in Call
                 /\ r.step = call[d].step /\ r.pending = call[d].pending
                 /\ r.target = call[d].target /\ r.ids = call[d].ids
                 /\ \A j \in Id : r.added[j] # NotAdded => call[d].added[j] # NotAdded
  <2> DEFINE new == [call[d].added EXCEPT ![i].score = a.score]
             r == [call[d] EXCEPT !.added = new]
  <2>1. call[d] \in Call /\ call[d].added[i].internalId = call[c].target
    BY <1>2, <1>9
  <2>2. new \in [Id -> [internalId : Int, score : Int]]
    BY <1>1, <1>3, <2>1 DEF Call
  <2>3. \A j \in Id : j # i => new[j] = call[d].added[j]
    BY <2>1 DEF Call
  <2>4. call[d].added[i] # NotAdded
    BY <1>1, <1>2, <2>1 DEF NotAdded, Call
  <2> HIDE DEF new
  <2>5. r \in Call /\ r.added = new
    BY <2>1, <2>2, Zenon DEF Call
  <2>6. r = [call[d] EXCEPT !.added[i].score = a.score]
    BY DEF new
  <2> QED BY <2>1, <2>3, <2>4, <2>5, <2>6, Zenon DEF Call
<1>10. call' \in [Caller -> Call]
  BY <1>2, <1>5, <1>8, <1>9
<1>11. CallsFit'
  <2>1. \A d \in Caller : d # c =>
          /\ call'[d].step = call[d].step /\ call'[d].pending = call[d].pending
          /\ call'[d].target = call[d].target /\ call'[d].ids = call[d].ids
          /\ \A j \in Id : call'[d].added[j] # NotAdded => call[d].added[j] # NotAdded
    BY <1>5, <1>9
  <2>2. /\ call'[c].step = "answerCache" /\ call'[c].ids = call[c].ids
        /\ call'[c].added = call[c].added
    BY <1>2, <1>5, Zenon DEF Call
  <2>3. \A j \in Id : ~HasAdded(c, j)
    BY <1>1 DEF Base, CallsFit, Inserting
  <2> QED BY <1>1, <2>1, <2>2, <2>3 DEF Base, CallsFit, HasAdded, Inserting
<1>12. lost' \subseteq Id /\ overlapped' \subseteq Id
  BY <1>1, Zenon DEF Base, TypeOK, AnswerUpdate, i
<1> QED BY <1>6, <1>7, <1>10, <1>11, <1>12, Zenon DEF Base, TypeOK, AnswerUpdate

\* Messages that move in the cache keep lists and scores of their types.
LEMMA PutType ==
  ASSUME TypeOK, NEW S, NEW q \in Places, NEW s \in Int, Put(S, q, s)
  PROVE  pool' \in [Id -> [at : Places, score : Int]]
  BY DEF TypeOK, Put

\* So do those that leave it.
LEMMA DropType ==
  ASSUME TypeOK, NEW S, Drop(S)
  PROVE  pool' \in [Id -> [at : Places, score : Int]]
<1>1. "none" \in Places /\ 0 \in Int
  BY DEF Places
<1> QED BY <1>1, PutType DEF Drop

\* The cache is told of an answer, and the message may be removed next.
LEMMA AnswerCacheBase == ASSUME Base, NEW c \in Caller, AnswerCache(c) PROVE Base'
<1> DEFINE a == call[c].answer
           r == [Idle EXCEPT !.step = "removeStorage", !.ids = call[c].ids]
           q == IF a.lockMs > 0 THEN a.kind ELSE "active"
           S == {i \in call[c].ids : pool[i].at = "processing"}
<1>1. a \in Answer /\ call[c].ids \in SUBSET Id
  BY DEF Base, TypeOK, Call
<1>2. pool' \in [Id -> [at : Places, score : Int]]
  <2>1. q \in Places /\ a.score \in Int
    BY <1>1 DEF Answer, Places
  <2>2. Put(S, q, a.score)
    BY DEF AnswerCache
  <2> HIDE DEF q, S, a
  <2> QED BY <2>1, <2>2, PutType DEF Base
<1>3. call' \in [Caller -> Call] /\ CallsFit'
  <2>1. CASE a.remove
    <3>1. call' = [call EXCEPT ![c] = r]
      BY <2>1 DEF AnswerCache
    <3>2. "removeStorage" \in Steps
      BY DEF Steps
    <3>3. r \in Call /\ r.step = "removeStorage" /\ r.added = Idle.added
      BY <1>1, <3>2, IdleFits, Zenon DEF Call
    <3> HIDE DEF r
    <3> QED BY <3>1, <3>3, IdleFits, Zenon DEF Base, TypeOK, CallsFit, HasAdded, Inserting
  <2>2. CASE ~a.remove
    BY <2>2, ReturnBase DEF AnswerCache
  <2> QED BY <2>1, <2>2
<1> QED BY <1>2, <1>3 DEF Base, TypeOK, Numbered, Stored, AnswerCache, history

\* Deleting documents leaves the others as they are.
LEMMA DeleteBase ==
  ASSUME Base, NEW S, NEW unsafe \in SUBSET Id, Delete(S, unsafe)
  PROVE  /\ docs' \in [Id -> Document] /\ answers' \in [Id -> Seq({"ack", "nack"})]
         /\ lost' \subseteq Id /\ overlapped' \subseteq Id /\ undercut' \subseteq Caller
         /\ Numbered'
<1>1. NoDocument \in Document /\ NoDocument.internalId = 0
  BY BoundAssumption DEF NoDocument, NewDocument, Document
<1>2. << >> \in Seq({"ack", "nack"})
  OBVIOUS
<1> QED BY <1>1, <1>2 DEF Base, TypeOK, Delete, Numbered, Stored

\* The steps of pulls, removals, flushes and tasks.
LEMMA PullBase ==
  ASSUME Base, NEW c \in Caller,
         \/ \E S \in SUBSET Id, f \in Pulls : Pull(c, S, f)
         \/ getFromStorage(c, "pullFind", "pullRetry")
         \/ getFromStorage(c, "pullRetry", "pullClean")
         \/ PullClean(c)
  PROVE  Base'
<1>1. ASSUME NEW S \in SUBSET Id, NEW f \in Pulls, Pull(c, S, f) PROVE Base'
  <2>1. call' \in [Caller -> Call] /\ CallsFit'
    BY <1>1, GotoBase, Zenon DEF Pull, At, GotoWith, Inserting
  <2>2. pool' \in [Id -> [at : Places, score : Int]]
    <3>1. "processing" \in Places /\ 0 \in Int
      BY DEF Places
    <3>2. Put(S, "processing", 0) /\ TypeOK
      BY <1>1 DEF Pull, Base
    <3> QED BY <3>1, <3>2, PutType
  <2> QED BY <1>1, <2>1, <2>2 DEF Base, TypeOK, Numbered, Stored, Pull, history
<1>2. ASSUME NEW from \in {"pullFind", "pullRetry"}, NEW to \in {"pullRetry", "pullClean"},
             getFromStorage(c, from, to)
      PROVE  Base'
  <2> DEFINE notFound == call[c].ids \ Find([AnyMessage EXCEPT !.ids = call[c].ids])
  <2>1. notFound \in SUBSET Id
    BY DEF Base, TypeOK, Call
  <2>2. Return(c) \/ GotoWith(c, to, notFound)
    BY <1>2 DEF getFromStorage
  <2>3. call[c].step = from
    BY <1>2 DEF getFromStorage, At
  <2> HIDE DEF notFound
  <2>4. call' \in [Caller -> Call] /\ CallsFit'
    BY <2>1, <2>2, <2>3, GotoBase, ReturnBase, Zenon DEF GotoWith, Inserting
  <2> QED BY <1>2, <2>4 DEF Base, TypeOK, Numbered, Stored, getFromStorage, stores, history
<1>3. CASE PullClean(c)
  <2>1. call' \in [Caller -> Call] /\ CallsFit'
    BY <1>3, ReturnBase DEF PullClean
  <2>2. pool' \in [Id -> [at : Places, score : Int]]
    BY <1>3, DropType DEF PullClean, Base
  <2> QED BY <1>3, <2>1, <2>2 DEF Base, TypeOK, Numbered, Stored, PullClean, history
<1> QED BY <1>1, <1>2, <1>3

\* A removal asks the storage and then the cache.
LEMMA RemoveBase ==
  ASSUME Base, NEW c \in Caller,
         \/ \E S \in SUBSET Id : RemoveRequest(c, S) \/ RemoveTTLMessages(c, S)
         \/ RemoveStorage(c) \/ RemoveCache(c)
  PROVE  Base'
<1>1. ASSUME NEW S \in SUBSET Id, At(c, "idle"), GotoWith(c, "removeStorage", S),
             UNCHANGED <<stores, now, crashed, history>>
      PROVE  Base'
  <2>1. call' \in [Caller -> Call] /\ CallsFit'
    BY <1>1, GotoBase, Zenon DEF At, GotoWith, Inserting
  <2> QED BY <1>1, <2>1 DEF Base, TypeOK, Numbered, Stored, stores, history
<1>2. ASSUME NEW S \in SUBSET Id, RemoveRequest(c, S) PROVE Base'
  BY <1>1, <1>2 DEF RemoveRequest
<1>3. ASSUME NEW S \in SUBSET Id, RemoveTTLMessages(c, S) PROVE Base'
  BY <1>1, <1>3 DEF RemoveTTLMessages
<1>4. CASE RemoveStorage(c)
  <2>1. call[c].ids \in SUBSET Id /\ call[c].step = "removeStorage"
    BY <1>4 DEF Base, TypeOK, Call, RemoveStorage, At
  <2>2. call' = [call EXCEPT ![c].step = "removeCache", ![c].ids = call[c].ids]
    BY <1>4, Zenon DEF Base, TypeOK, Call, RemoveStorage, Goto
  <2>3. call' \in [Caller -> Call] /\ CallsFit'
    BY <2>1, <2>2, GotoBase, Zenon DEF Inserting
  <2>4. {i \in call[c].ids : Adding(i)} \in SUBSET Id
    BY <2>1
  <2> QED BY <1>4, <2>3, <2>4, DeleteBase DEF Base, TypeOK, RemoveStorage
<1>5. CASE RemoveCache(c)
  <2>1. call' \in [Caller -> Call] /\ CallsFit'
    BY <1>5, ReturnBase DEF RemoveCache
  <2>2. pool' \in [Id -> [at : Places, score : Int]]
    BY <1>5, DropType DEF RemoveCache, Base
  <2> QED BY <1>5, <2>1, <2>2 DEF Base, TypeOK, Numbered, Stored, RemoveCache, history
<1> QED BY <1>2, <1>3, <1>4, <1>5

\* A flush empties the cache and then the storage.
LEMMA FlushBase ==
  ASSUME Base, NEW c \in Caller, FlushCache(c) \/ FlushStorage(c)
  PROVE  Base'
<1>1. CASE FlushCache(c)
  <2>1. call[c].ids \in SUBSET Id /\ call[c].step = "idle"
    BY <1>1 DEF Base, TypeOK, Call, FlushCache, At
  <2>2. call' = [call EXCEPT ![c].step = "flushStorage", ![c].ids = call[c].ids]
    BY <1>1, Zenon DEF Base, TypeOK, Call, FlushCache, Goto
  <2>3. call' \in [Caller -> Call] /\ CallsFit'
    BY <2>1, <2>2, GotoBase, Zenon DEF Inserting
  <2>4. pool' \in [Id -> [at : Places, score : Int]]
    BY <1>1, DropType DEF FlushCache, Base
  <2> QED BY <1>1, <2>3, <2>4 DEF Base, TypeOK, Numbered, Stored, FlushCache, history
<1>2. CASE FlushStorage(c)
  <2>1. call' \in [Caller -> Call] /\ CallsFit'
    BY <1>2, ReturnBase DEF FlushStorage
  <2>2. {i \in Id : Stored(i) /\ (Adding(i) \/ pool[i].at # "none")} \in SUBSET Id
    OBVIOUS
  <2> QED BY <1>2, <2>1, <2>2, DeleteBase DEF Base, TypeOK, FlushStorage
<1> QED BY <1>1, <1>2

\* The three ends of an Add: a failure, a crash and the cache.
LEMMA InsertEndBase ==
  ASSUME Base, NEW c \in Caller,
         InsertInvalid(c) \/ InsertPanics(c) \/ AddMessagesToCache(c)
  PROVE  Base'
<1>1. CASE InsertInvalid(c)
  <2>1. call' \in [Caller -> Call] /\ CallsFit'
    BY <1>1, ReturnBase DEF InsertInvalid
  <2> QED BY <1>1, <2>1 DEF Base, TypeOK, Numbered, Stored, InsertInvalid, stores
<1>2. CASE InsertPanics(c)
  BY <1>2, Zenon DEF Base, TypeOK, Numbered, Stored, CallsFit, HasAdded, InsertPanics, stores, history
<1>3. CASE AddMessagesToCache(c)
  <2>1. call' \in [Caller -> Call] /\ CallsFit'
    BY <1>3, ReturnBase DEF AddMessagesToCache
  <2>2. \A i \in Id : call[c].added[i].score \in Int
    BY DEF Base, TypeOK, Call
  <2>3. pool' \in [Id -> [at : Places, score : Int]]
    BY <1>3, <2>2 DEF AddMessagesToCache, InsertAdded, Base, TypeOK, Places
  <2> QED BY <1>3, <2>1, <2>3 DEF Base, TypeOK, Numbered, Stored, AddMessagesToCache, history
<1> QED BY <1>1, <1>2, <1>3

\* A pass of the recovery, with any window and scores.
Recover(c) ==
  \E S \in SUBSET Id, scores \in [Id -> Undefined .. MaxScore] : RecoveryMessagesPool(c, S, scores)

\* What a pass is about to give to the cache is stored, not expired, and has a
\* score within the bounds.
LEMMA RecoverEffect ==
  ASSUME Base, NEW c \in Caller, Recover(c)
  PROVE  /\ call[c].step = "idle" /\ UNCHANGED <<stores, now, crashed, history>>
         /\ call' \in [Caller -> Call]
         /\ \A d \in Caller \ {c} : call'[d] = call[d]
         /\ call'[c].step = "addCache" /\ call'[c].pending = call[c].pending
         /\ \A i \in Id : HasAdded(c, i)' => /\ Stored(i) /\ ~isExpired(i)
                                             /\ InBounds(call'[c].added[i].score)
<1>1. PICK S \in SUBSET Id, scores \in [Id -> Undefined .. MaxScore] :
             RecoveryMessagesPool(c, S, scores)
  BY DEF Recover
<1> DEFINE new == [i \in Id |-> IF i \in S THEN [internalId |-> 0, score |-> Capped(scores[i])]
                                ELSE NotAdded]
           r == [call[c] EXCEPT !.step = "addCache", !.added = new]
<1>2. call[c].step = "idle" /\ UNCHANGED <<stores, now, crashed, history>>
  BY <1>1 DEF RecoveryMessagesPool, At
<1>3. \A i \in Id : scores[i] \in Int
  BY MaxScoreAssumption DEF Undefined
<1>4. new \in [Id -> [internalId : Int, score : Int]]
  BY <1>3, CappedInBounds DEF NotAdded
<1>5. \A i \in Id : new[i] # NotAdded => i \in S /\ InBounds(new[i].score)
  BY <1>3, CappedInBounds
<1>6. \A i \in S : Stored(i) /\ ~isExpired(i)
  BY <1>1 DEF RecoveryMessagesPool, Find, matchesInternalFilter, AnyMessage
<1>7. call' = [call EXCEPT ![c] = r]
  BY <1>1, Zenon DEF RecoveryMessagesPool
<1> HIDE DEF new
<1>8. r \in Call /\ r.step = "addCache" /\ r.added = new /\ r.pending = call[c].pending
  BY <1>4, ZenonT(40) DEF Base, TypeOK, Call, Steps
<1> HIDE DEF r
<1> QED BY <1>2, <1>5, <1>6, <1>7, <1>8 DEF Base, TypeOK, HasAdded

\* A pass of the recovery.
LEMMA RecoverBase == ASSUME Base, NEW c \in Caller, Recover(c) PROVE Base'
<1>1. CallsFit'
  BY RecoverEffect DEF Base, CallsFit, HasAdded, Inserting
<1> QED BY <1>1, RecoverEffect DEF Base, TypeOK, Numbered, Stored, stores, history

\* The timeout and unlock tasks, and the clock.
LEMMA TaskBase ==
  ASSUME Base, (\E i \in Id : TimeoutMessage(i) \/ UnlockMessage(i)) \/ Tick
  PROVE  Base'
<1>1. ASSUME NEW i \in Id, TimeoutMessage(i) PROVE Base'
  <2>1. "active" \in Places /\ MinScore \in Int
    BY DEF Places, MinScore
  <2>2. pool' \in [Id -> [at : Places, score : Int]]
    BY <1>1, <2>1, PutType DEF TimeoutMessage, Base
  <2> QED BY <1>1, <2>2, Zenon DEF Base, TypeOK, Numbered, Stored, CallsFit, HasAdded, TimeoutMessage, history
<1>2. ASSUME NEW i \in Id, UnlockMessage(i) PROVE Base'
  <2> DEFINE s == UnlockScore(pool[i].score, pool[i].at, now)
  <2>1. pool[i].score \in Int /\ now \in Int
    BY DEF Base, TypeOK
  <2>2. "active" \in Places /\ s \in Int
    BY <2>1 DEF Places, UnlockScore, MinScore
  <2>3. Put({i}, "active", s)
    BY <1>2 DEF UnlockMessage
  <2> HIDE DEF s
  <2>4. pool' \in [Id -> [at : Places, score : Int]]
    BY <2>2, <2>3, PutType DEF Base
  <2> QED BY <1>2, <2>4, Zenon DEF Base, TypeOK, Numbered, Stored, CallsFit, HasAdded, UnlockMessage, history
<1>3. CASE Tick
  <2>1. now' \in 1 .. MaxNow
    BY <1>3, BoundAssumption, MaxScoreAssumption DEF Base, TypeOK, Tick
  <2> QED BY <1>3, <2>1, Zenon DEF Base, TypeOK, Numbered, Stored, CallsFit, HasAdded, Tick, stores, history
<1> QED BY <1>1, <1>2, <1>3

\* No step breaks a type, nor what a call holds.
LEMMA NextBase == Base /\ [Next]_vars => Base'
<1> SUFFICES ASSUME Base, [Next]_vars PROVE Base'
  OBVIOUS
<1>1. CASE UNCHANGED vars
  BY <1>1, Zenon DEF Base, TypeOK, Numbered, Stored, CallsFit, HasAdded, vars, stores, history
<1>2. CASE Next
  BY <1>2, AddBase, InsertCheckBase, InsertCreateBase, InsertUpdateBase, InsertEndBase,
     AnswerFindBase, AnswerUpdateBase, AnswerCacheBase, PullBase, RemoveBase, FlushBase, RecoverBase,
     TaskBase
  DEF Next, Recover
<1> QED BY <1>1, <1>2

\* The types of the storage, the cache, the calls and the histories.
THEOREM MemoryTypes == Spec => []TypeOK
<1>1. Base => TypeOK
  BY DEF Base
<1> QED BY <1>1, InitBase, NextBase, PTL DEF Spec

-----------------------------------------------------------------------------
(* What a call does to the others *)

\* The steps of call c that change its own record alone.
Own(c) ==
  \/ \E request \in Requests : Add(c, request)
  \/ InsertCheck(c) \/ InsertInvalid(c) \/ InsertCreate(c) \/ InsertUpdate(c)
  \/ AddMessagesToCache(c)
  \/ \E i \in Id, a \in Answers : AnswerFind(c, i, a)
  \/ AnswerCache(c)
  \/ \E S \in SUBSET Id, f \in Pulls : Pull(c, S, f)
  \/ getFromStorage(c, "pullFind", "pullRetry")
  \/ getFromStorage(c, "pullRetry", "pullClean")
  \/ PullClean(c)
  \/ \E S \in SUBSET Id : RemoveRequest(c, S) \/ RemoveTTLMessages(c, S)
  \/ RemoveStorage(c) \/ RemoveCache(c)
  \/ FlushCache(c) \/ FlushStorage(c) \/ Recover(c)

\* The steps that change no call.
Still ==
  \/ \E c \in Caller : InsertPanics(c)
  \/ \E i \in Id : TimeoutMessage(i) \/ UnlockMessage(i)
  \/ Tick

\* Every step is of one of these, or an answer that changes its document.
LEMMA NextCases ==
  Next => (\E c \in Caller : Own(c) \/ AnswerUpdate(c)) \/ Still
  BY DEF Next, Own, Still, Recover

\* Such a step leaves the records of the other calls alone.
LEMMA OthersKeep ==
  ASSUME Base, NEW c \in Caller, Own(c)
  PROVE  \A d \in Caller \ {c} : call'[d] = call[d]
<1> DEFINE Keep == \A d \in Caller \ {c} : call'[d] = call[d]
<1>0. call \in [Caller -> Call]
  BY DEF Base, TypeOK
<1>1. ASSUME NEW request \in Requests, Add(c, request) PROVE Keep
  BY <1>1, <1>0 DEF Add
<1>2. ASSUME NEW i \in Id, NEW a \in Answers, AnswerFind(c, i, a)
      PROVE  Keep
  BY <1>2, <1>0 DEF AnswerFind
<1>3. ASSUME NEW i, NEW e, Inserted(c, i, e) PROVE Keep
  BY <1>3, <1>0 DEF Inserted
<1>4. CASE InsertCreate(c) \/ InsertUpdate(c)
  BY <1>3, <1>4, Zenon DEF InsertCreate, InsertUpdate
<1>5. ASSUME NEW s, Goto(c, s) PROVE Keep
  BY <1>5, <1>0 DEF Goto
<1>6. ASSUME NEW s, NEW S, GotoWith(c, s, S) PROVE Keep
  BY <1>6, <1>0 DEF GotoWith
<1>7. Return(c) => Keep
  BY <1>0 DEF Return
<1>8. CASE InsertCheck(c) \/ RemoveStorage(c) \/ FlushCache(c)
  BY <1>5, <1>8, Zenon DEF InsertCheck, RemoveStorage, FlushCache
<1>9. CASE InsertInvalid(c) \/ AddMessagesToCache(c) \/ PullClean(c) \/ RemoveCache(c)
           \/ FlushStorage(c)
  BY <1>7, <1>9 DEF InsertInvalid, AddMessagesToCache, PullClean, RemoveCache, FlushStorage
<1>10. ASSUME NEW S \in SUBSET Id, NEW f \in Pulls, Pull(c, S, f)
       PROVE  Keep
  BY <1>6, <1>10 DEF Pull
<1>11. CASE getFromStorage(c, "pullFind", "pullRetry") \/ getFromStorage(c, "pullRetry", "pullClean")
  BY <1>6, <1>7, <1>11 DEF getFromStorage
<1>12. CASE \E S \in SUBSET Id : RemoveRequest(c, S) \/ RemoveTTLMessages(c, S)
  BY <1>6, <1>12 DEF RemoveRequest, RemoveTTLMessages
<1>13. CASE AnswerCache(c)
  BY <1>0, <1>7, <1>13 DEF AnswerCache
<1>14. CASE Recover(c)
  BY <1>14, RecoverEffect
<1> QED BY <1>1, <1>2, <1>4, <1>8, <1>9, <1>10, <1>11, <1>12, <1>13, <1>14, Zenon DEF Own

\* An answer changes no more of another call than the score of what it added.
LEMMA AnswerKeeps ==
  ASSUME Base, NEW c \in Caller, AnswerUpdate(c), NEW d \in Caller
  PROVE  /\ d # c => call'[d].step = call[d].step
         /\ d = c => call'[d].step = "answerCache"
         /\ call'[d].pending = call[d].pending /\ call'[d].ids = call[d].ids
         /\ call'[d].answer = call[d].answer
         /\ \A j \in Id : HasAdded(d, j)' <=> HasAdded(d, j)
         /\ \A j \in Id \ overlapped' : call'[d].added[j] = call[d].added[j]
<1> DEFINE a == call[c].answer
           i == CHOOSE j \in call[c].ids : TRUE
           aliasing == {e \in Caller : call[e].added[i].internalId = call[c].target}
<1>1. i \in Id /\ call[c].target # 0
  BY DEF Base, CallsFit, AnswerUpdate, At
<1>2. call[d] \in Call /\ call[c] \in Call
  BY DEF Base, TypeOK
<1>3. call'[d] = IF d = c THEN [call[c] EXCEPT !.step = "answerCache", !.target = 0]
                 ELSE IF d \in aliasing THEN [call[d] EXCEPT !.added[i].score = a.score]
                 ELSE call[d]
  BY DEF AnswerUpdate
<1>7. aliasing # {} => i \in overlapped'
  BY DEF AnswerUpdate
<1> HIDE DEF i, a
<1>4. CASE d = c
  BY <1>2, <1>3, <1>4 DEF Call, HasAdded
<1>5. CASE d # c /\ d \in aliasing
  <2> DEFINE new == [call[d].added EXCEPT ![i].score = a.score]
             r == [call[d] EXCEPT !.added = new]
  <2>1. \A j \in Id : j # i => new[j] = call[d].added[j]
    BY <1>2 DEF Call
  <2>2. call[d].added[i].internalId # NotAdded.internalId
    <3>1. call[d].added[i].internalId = call[c].target
      BY <1>5
    <3>2. call[c].target \in Nat
      BY <1>2, BoundAssumption DEF Call
    <3>3. NotAdded.internalId = -1
      BY DEF NotAdded
    <3> QED BY <3>1, <3>2, <3>3
  <2>3. new[i].internalId = call[d].added[i].internalId
    BY <1>1, <1>2 DEF Call
  <2>4. call[d].added[i] # NotAdded /\ new[i] # NotAdded
    <3> HIDE DEF new
    <3> QED BY <2>2, <2>3
  <2>5. call'[d] = r
    BY <1>3, <1>5
  <2> HIDE DEF new
  <2>6. /\ r.added = new /\ r.step = call[d].step /\ r.pending = call[d].pending
        /\ r.ids = call[d].ids /\ r.answer = call[d].answer
    BY <1>2 DEF Call
  <2> QED BY <1>5, <1>7, <2>1, <2>4, <2>5, <2>6 DEF HasAdded
<1>6. CASE d # c /\ d \notin aliasing
  BY <1>3, <1>6 DEF HasAdded
<1> QED BY <1>4, <1>5, <1>6

-----------------------------------------------------------------------------
(* The crash *)

\* An Add that is to update a document has one, or it was deleted meanwhile.
UpdateFound ==
  \A c \in Caller : call[c].step = "update" => Stored(Head(call[c].pending).id) \/ c \in undercut

\* Only the look-up of Insert makes a call go on with an update.
LEMMA UpdateStarts ==
  ASSUME Base, NEW c \in Caller, Own(c), ~InsertCheck(c)
  PROVE  call'[c].step # "update"
<1>1. call[c] \in Call /\ call \in [Caller -> Call]
  BY DEF Base, TypeOK
<1>2. Return(c) => call'[c].step # "update"
  BY <1>1 DEF Return, Idle
<1>3. ASSUME NEW s, Goto(c, s), s # "update" PROVE call'[c].step # "update"
  BY <1>1, <1>3 DEF Goto, Call
<1>4. ASSUME NEW s, NEW S, GotoWith(c, s, S), s # "update" PROVE call'[c].step # "update"
  BY <1>1, <1>4 DEF GotoWith, Call
<1>5. ASSUME NEW request \in Requests, Add(c, request) PROVE call'[c].step # "update"
  BY <1>1, <1>5 DEF Add, Call
<1>6. ASSUME NEW i \in Id, NEW a \in Answers, AnswerFind(c, i, a) PROVE call'[c].step # "update"
  BY <1>1, <1>6 DEF AnswerFind, Call
<1>7. ASSUME NEW i, NEW e, Inserted(c, i, e) PROVE call'[c].step # "update"
  <2> DEFINE rest == Tail(call[c].pending)
             r == [call[c] EXCEPT !.pending = rest, !.added[i] = e,
                                  !.step = IF rest = << >> THEN "addCache" ELSE "check"]
  <2>1. call'[c] = r
    BY <1>1, <1>7 DEF Inserted
  <2> HIDE DEF rest
  <2>2. r.step = IF rest = << >> THEN "addCache" ELSE "check"
    BY <1>1 DEF Call
  <2> QED BY <2>1, <2>2
<1>8. AnswerCache(c) => call'[c].step # "update"
  <2>1. [Idle EXCEPT !.step = "removeStorage", !.ids = call[c].ids].step = "removeStorage"
    BY DEF Idle
  <2> QED BY <1>1, <1>2, <2>1, Zenon DEF AnswerCache
<1>9. Recover(c) => call'[c].step # "update"
  BY RecoverEffect
<1> QED
  BY <1>2, <1>3, <1>4, <1>5, <1>6, <1>7, <1>8, <1>9, Zenon
  DEF Own, InsertInvalid, InsertCreate, InsertUpdate, AddMessagesToCache, Pull, getFromStorage,
      PullClean, RemoveRequest, RemoveTTLMessages, RemoveStorage, RemoveCache, FlushCache,
      FlushStorage


\* Documents leave the storage only in a removal or a flush.
LEMMA StoredKept ==
  ASSUME Base, NEW c \in Caller,
         \/ Own(c) /\ ~RemoveStorage(c) /\ ~FlushStorage(c)
         \/ AnswerUpdate(c)
         \/ Still
  PROVE  undercut' = undercut /\ \A i \in Id : Stored(i) => docs'[i] # NoDocument
<1>1. CASE InsertCreate(c)
  <2> DEFINE m == Head(call[c].pending)
  <2>1. docs' = [docs EXCEPT ![m.id] = NewDocument(internalCounter + 1, m)] /\ undercut' = undercut
    BY <1>1 DEF InsertCreate
  <2>2. NewDocument(internalCounter + 1, m).internalId = internalCounter + 1
    BY DEF NewDocument
  <2>3. NoDocument.internalId = 0 /\ internalCounter + 1 # 0
    BY BoundAssumption DEF NoDocument, NewDocument, Base, TypeOK
  <2> HIDE DEF m
  <2> QED BY <2>1, <2>2, <2>3 DEF Stored, Base, TypeOK
<1>2. CASE InsertUpdate(c)
  <2> DEFINE m == Head(call[c].pending)
  <2>1. docs' = [docs EXCEPT ![m.id] = Updated(docs[m.id], m)] /\ undercut' = undercut
    BY <1>2, ZenonT(30) DEF InsertUpdate
  <2>2. m.id \in Id /\ docs[m.id] \in Document /\ Stored(m.id)
    BY <1>2 DEF InsertUpdate, At, Base, CallsFit, TypeOK
  <2> HIDE DEF m
  <2>3. Updated(docs[m.id], m).internalId = docs[m.id].internalId
    BY <2>2 DEF Updated, Document
  <2>4. NoDocument.internalId = 0 /\ docs[m.id].internalId # 0
    BY <2>2 DEF NoDocument, NewDocument, Base, Numbered
  <2> QED BY <2>1, <2>2, <2>3, <2>4 DEF Stored, Base, TypeOK
<1>3. CASE AnswerUpdate(c)
  <2> DEFINE a == call[c].answer
             i == CHOOSE j \in call[c].ids : TRUE
             current == docs[i].internalId = call[c].target
  <2>1. i \in Id
    BY <1>3, ZenonT(30) DEF Base, CallsFit, AnswerUpdate, At
  <2>2. docs' = (IF current THEN [docs EXCEPT ![i] = Answered(docs[i], a)] ELSE docs)
        /\ undercut' = undercut
    BY <1>3 DEF AnswerUpdate
  <2>3. a \in Answer /\ docs[i] \in Document
    BY <2>1 DEF Base, TypeOK, Call
  <2> HIDE DEF i, a
  <2>4. Answered(docs[i], a).internalId = docs[i].internalId
    BY <2>3, AnsweredFits
  <2>5. NoDocument.internalId = 0
    BY DEF NoDocument, NewDocument
  <2> QED BY <2>1, <2>2, <2>4, <2>5 DEF Stored, Base, TypeOK, Numbered
<1>4. CASE Still
  BY <1>4, Zenon DEF Still, InsertPanics, TimeoutMessage, UnlockMessage, Tick, stores, history, Stored
<1>5. CASE Own(c) /\ ~InsertCreate(c) /\ ~InsertUpdate(c) /\ ~RemoveStorage(c) /\ ~FlushStorage(c)
  BY <1>5, RecoverEffect, Zenon
  DEF Own, Add, InsertCheck, InsertInvalid, AddMessagesToCache, AnswerFind, AnswerCache, Pull,
      getFromStorage, PullClean, RemoveRequest, RemoveTTLMessages, RemoveCache, FlushCache,
      stores, history, Stored
<1> QED BY <1>1, <1>2, <1>3, <1>4, <1>5

\* A deletion knows whom it undercuts.
LEMMA DeletedKnown ==
  ASSUME Base, UpdateFound, NEW S, NEW unsafe, Delete(S, unsafe), NEW d \in Caller,
         call[d].step = "update"
  PROVE  docs'[Head(call[d].pending).id] # NoDocument \/ d \in undercut'
<1>1. Head(call[d].pending).id \in Id
  BY DEF Base, CallsFit
<1> QED BY <1>1 DEF UpdateFound, Delete, Stored

\* No step leaves an Add to update a document that is gone, unless by a deletion.
LEMMA NextUpdateFound == Base /\ UpdateFound /\ Next => UpdateFound'
<1> SUFFICES ASSUME Base, UpdateFound, Next, NEW d \in Caller, call'[d].step = "update"
             PROVE  docs'[Head(call'[d].pending).id] # NoDocument \/ d \in undercut'
  BY DEF UpdateFound, Stored
<1>1. call[d].step = "update" => Head(call[d].pending).id \in Id
  BY DEF Base, CallsFit
<1>2. ASSUME NEW c \in Caller, Own(c), RemoveStorage(c) \/ FlushStorage(c)
      PROVE  docs'[Head(call'[d].pending).id] # NoDocument \/ d \in undercut'
  <2>1. ~InsertCheck(c)
    BY <1>2 DEF InsertCheck, RemoveStorage, FlushStorage, At
  <2>2. call'[d] = call[d]
    BY <1>2, <2>1, UpdateStarts, OthersKeep
  <2> QED BY <1>2, <2>2, DeletedKnown DEF RemoveStorage, FlushStorage
<1>3. ASSUME NEW c \in Caller, InsertCheck(c), d = c
      PROVE  docs'[Head(call'[d].pending).id] # NoDocument \/ d \in undercut'
  <2> DEFINE s == IF Stored(Head(call[c].pending).id) THEN "update" ELSE "create"
  <2>1. call' = [call EXCEPT ![c].step = s] /\ docs' = docs
    BY <1>3 DEF InsertCheck, Goto, stores
  <2> HIDE DEF s
  <2>2. call'[c].step = s /\ call'[c].pending = call[c].pending
    BY <2>1 DEF Base, TypeOK, Call
  <2>3. Stored(Head(call[c].pending).id)
    BY <1>3, <2>2 DEF s
  <2> QED BY <1>3, <2>1, <2>2, <2>3 DEF Stored
<1>4. ASSUME NEW c \in Caller, Own(c), ~RemoveStorage(c), ~FlushStorage(c), ~(InsertCheck(c) /\ d = c)
      PROVE  docs'[Head(call'[d].pending).id] # NoDocument \/ d \in undercut'
  <2>1. call'[d] = call[d]
    BY <1>4, UpdateStarts, OthersKeep
  <2> QED BY <1>1, <1>4, <2>1, StoredKept DEF UpdateFound, Stored
<1>5. ASSUME NEW c \in Caller, AnswerUpdate(c)
      PROVE  docs'[Head(call'[d].pending).id] # NoDocument \/ d \in undercut'
  <2>1. call'[d].pending = call[d].pending /\ call[d].step = "update"
    BY <1>5, AnswerKeeps
  <2> QED BY <1>1, <1>5, <2>1, StoredKept DEF UpdateFound, Stored
<1>6. CASE Still
  <2>1. call' = call
    BY <1>6, Zenon DEF Still, InsertPanics, TimeoutMessage, UnlockMessage, Tick
  <2> QED BY <1>1, <1>6, <2>1, StoredKept DEF UpdateFound, Stored
<1> QED BY <1>2, <1>3, <1>4, <1>5, <1>6, NextCases

\* The process dies only of a deletion that takes a document from under an Add,
\* which had found it: the nil pointer of Insert has no other source.
THEOREM CrashNeedsOverlap == Spec => []CrashesOnlyOnOverlap
<1> DEFINE Inv == Base /\ UpdateFound /\ CrashesOnlyOnOverlap
<1>1. Init => Inv
  BY InitBase, IdleFits DEF Init, UpdateFound, CrashesOnlyOnOverlap
<1>2. Inv /\ [Next]_vars => Inv'
  <2> SUFFICES ASSUME Inv, [Next]_vars PROVE Inv'
    OBVIOUS
  <2>1. Base'
    BY NextBase
  <2>2. CASE UNCHANGED vars
    BY <2>1, <2>2 DEF vars, stores, history, UpdateFound, Stored, CrashesOnlyOnOverlap
  <2>3. CASE Next
    <3>1. UpdateFound'
      BY <2>3, NextUpdateFound
    <3>2. ~crashed
      BY <2>3, ZenonT(40) DEF Next, Add, InsertCheck, InsertInvalid, InsertCreate, InsertUpdate, InsertPanics,
        AddMessagesToCache, AnswerFind, AnswerUpdate, AnswerCache, Pull, getFromStorage, PullClean,
        RemoveRequest, RemoveTTLMessages, RemoveStorage, RemoveCache, FlushCache, FlushStorage,
        RecoveryMessagesPool, TimeoutMessage, UnlockMessage, Tick, At
    <3>3. ASSUME NEW c \in Caller, InsertPanics(c) PROVE CrashesOnlyOnOverlap'
      BY <3>3 DEF InsertPanics, At, history, UpdateFound, CrashesOnlyOnOverlap
    <3>4. CASE ~\E c \in Caller : InsertPanics(c)
      <4>1. crashed' = crashed
        BY <2>3, <3>4, ZenonT(40) DEF Next, Add, InsertCheck, InsertInvalid, InsertCreate, InsertUpdate,
          AddMessagesToCache, AnswerFind, AnswerUpdate, AnswerCache, Pull, getFromStorage,
          PullClean, RemoveRequest, RemoveTTLMessages, RemoveStorage, RemoveCache, FlushCache,
          FlushStorage, RecoveryMessagesPool, TimeoutMessage, UnlockMessage, Tick
      <4>2. ~crashed'
        BY <3>2, <4>1, Zenon
      <4> QED BY <2>1, <3>1, <4>2 DEF CrashesOnlyOnOverlap
    <3> QED BY <2>1, <3>1, <3>3, <3>4
  <2> QED BY <2>2, <2>3
<1> QED BY <1>1, <1>2, PTL DEF Spec

-----------------------------------------------------------------------------
(* The scores *)

\* An answer's score is undefined only if its messages get locked, or if asked for.
AnswerFits(a) == Allowed(a.score) \/ (a.lockMs > 0 /\ a.score = Undefined)

\* The scores a call is about to hand on, those of added messages among S.
CallScored(r, S) ==
  /\ \A k \in DOMAIN r.pending : InBounds(r.pending[k].score)
  /\ \A i \in S : r.added[i] # NotAdded => InBounds(r.added[i].score)
  /\ r.step \in {"answer", "answerCache"} => AnswerFits(r.answer)

Safe == Id \ overlapped

PoolScored ==
  /\ BeyondBoundsOnlyAsAsked
  /\ \A i \in Id : pool[i].at \in {"ack", "nack"} =>
                     Allowed(pool[i].score) \/ pool[i].score = Undefined

Scored == PoolScored /\ \A c \in Caller : CallScored(call[c], Safe)

\* No message that calls overlapped on is forgotten.
LEMMA OverlapStays == Next => overlapped \subseteq overlapped'
<1> DEFINE Stays == overlapped \subseteq overlapped'
<1>1. ASSUME NEW c \in Caller,
             InsertInvalid(c) \/ InsertCreate(c) \/ InsertUpdate(c) \/ AnswerUpdate(c)
      PROVE  Stays
  BY <1>1, Zenon DEF InsertInvalid, InsertCreate, InsertUpdate, AnswerUpdate
<1>2. ASSUME NEW c \in Caller, RemoveStorage(c) \/ FlushStorage(c) PROVE Stays
  BY <1>2 DEF RemoveStorage, FlushStorage, Delete
<1>3. ASSUME NEW c \in Caller, NEW request \in Requests, Add(c, request) PROVE Stays
  BY <1>3 DEF Add, history
<1>4. ASSUME NEW c \in Caller,
             InsertCheck(c) \/ InsertPanics(c) \/ AddMessagesToCache(c) \/ AnswerCache(c)
      PROVE  Stays
  BY <1>4 DEF InsertCheck, InsertPanics, AddMessagesToCache, AnswerCache, history
<1>5. ASSUME NEW c \in Caller, NEW i \in Id, NEW a \in Answers, AnswerFind(c, i, a) PROVE Stays
  BY <1>5 DEF AnswerFind, history
<1>6. ASSUME NEW c \in Caller, NEW S \in SUBSET Id, NEW f \in Pulls, Pull(c, S, f) PROVE Stays
  BY <1>6 DEF Pull, history
<1>7. ASSUME NEW c \in Caller, NEW from, NEW to, getFromStorage(c, from, to) PROVE Stays
  BY <1>7 DEF getFromStorage, history
<1>8. ASSUME NEW c \in Caller, NEW S \in SUBSET Id,
             RemoveRequest(c, S) \/ RemoveTTLMessages(c, S)
      PROVE  Stays
  BY <1>8 DEF RemoveRequest, RemoveTTLMessages, history
<1>9. ASSUME NEW c \in Caller, PullClean(c) \/ RemoveCache(c) \/ FlushCache(c)
      PROVE  Stays
  BY <1>9 DEF PullClean, RemoveCache, FlushCache, history
<1>10. ASSUME NEW c \in Caller, NEW S \in SUBSET Id, NEW scores, RecoveryMessagesPool(c, S, scores)
       PROVE  Stays
  BY <1>10 DEF RecoveryMessagesPool, history
<1>11. ASSUME NEW i \in Id, TimeoutMessage(i) \/ UnlockMessage(i) PROVE Stays
  BY <1>11 DEF TimeoutMessage, UnlockMessage, history
<1>12. ASSUME Tick PROVE Stays
  BY <1>12 DEF Tick, history
<1> HIDE DEF Stays
<1>13. Next => Stays
  BY <1>1, <1>2, <1>3, <1>4, <1>5, <1>6, <1>7, <1>8, <1>9, <1>10, <1>11, <1>12 DEF Next
<1> QED BY <1>13 DEF Stays

\* A call that holds nothing holds no score.
LEMMA IdleScored == \A S \in SUBSET Id : CallScored(Idle, S)
<1>1. DOMAIN Idle.pending = {}
  BY DEF Idle
<1> QED BY <1>1, IdleFits DEF CallScored

\* A call that goes on without an answer keeps its scores.
LEMMA GotoScored ==
  ASSUME NEW r \in Call, NEW s, s \notin {"answer", "answerCache"}, NEW T,
         NEW S \in SUBSET Id, CallScored(r, S)
  PROVE  CallScored([r EXCEPT !.step = s, !.ids = T], S) /\ CallScored([r EXCEPT !.step = s], S)
  BY DEF CallScored, Call

\* An Add computes scores within the bounds.
LEMMA AddScored ==
  ASSUME Base, NEW c \in Caller, CallScored(call[c], Safe), NEW request \in Requests,
         Add(c, request)
  PROVE  CallScored(call'[c], Safe)
<1> DEFINE P == [k \in DOMAIN request |->
                   [id |-> request[k].id, expiry |-> Expiry(request[k]),
                    timeless |-> request[k].timeless, score |-> GetAddScore(request[k].score, now)]]
           r == [call[c] EXCEPT !.step = "check", !.pending = P]
<1>1. call'[c] = r
  BY DEF Add, Base, TypeOK
<1>2. \A k \in DOMAIN P : InBounds(P[k].score)
  <2>1. \A k \in DOMAIN request : request[k].score \in Int
    <3>1. request \in Seq(Message)
      BY InputAssumption
    <3>2. \A k \in DOMAIN request : request[k] \in Message
      BY <3>1
    <3> QED BY <3>2 DEF Message
  <2> QED BY <2>1, AddScoreInBounds DEF Base, TypeOK
<1> HIDE DEF P
<1>3. r.pending = P /\ r.step = "check" /\ r.added = call[c].added
  BY DEF Base, TypeOK, Call
<1> QED BY <1>1, <1>2, <1>3 DEF CallScored

\* The elements of a sequence, by its head and its tail.
LEMMA HeadAndTail ==
  ASSUME NEW T, NEW s \in Seq(T), s # << >>
  PROVE  /\ 1 \in DOMAIN s /\ Head(s) = s[1]
         /\ \A k \in DOMAIN Tail(s) : k + 1 \in DOMAIN s /\ Tail(s)[k] = s[k + 1]
  OBVIOUS

\* Insert hands on the score the Add computed.
LEMMA InsertedScored ==
  ASSUME Base, NEW c \in Caller, CallScored(call[c], Safe), call[c].step \in {"create", "update"},
         NEW n \in Int, Inserted(c, Head(call[c].pending).id,
                                 [internalId |-> n, score |-> Head(call[c].pending).score])
  PROVE  CallScored(call'[c], Safe)
<1> DEFINE m == Head(call[c].pending)
           rest == Tail(call[c].pending)
           entry == [internalId |-> n, score |-> m.score]
           s == IF rest = << >> THEN "addCache" ELSE "check"
           r == [call[c] EXCEPT !.pending = rest, !.added[m.id] = entry, !.step = s]
<1>1. call[c] \in Call /\ call[c].pending # << >> /\ m.id \in Id
  BY Zenon DEF Base, TypeOK, CallsFit, Inserting
<1>2. call'[c] = r
  BY DEF Inserted, Base, TypeOK
<1>3. call[c].pending \in Seq(Pending)
  BY <1>1, ZenonT(30) DEF Call, Pending
<1>4. InBounds(m.score) /\ \A k \in DOMAIN rest : InBounds(rest[k].score)
  <2>1. /\ m = call[c].pending[1] /\ 1 \in DOMAIN call[c].pending
        /\ \A k \in DOMAIN rest : k + 1 \in DOMAIN call[c].pending /\ rest[k] = call[c].pending[k + 1]
    BY <1>1, <1>3, HeadAndTail
  <2> QED BY <2>1, ZenonT(30) DEF CallScored
<1>5. entry.score = m.score
  OBVIOUS
<1> HIDE DEF m, rest, entry
<1>6. /\ r.pending = rest /\ r.step = s
      /\ r.added = [call[c].added EXCEPT ![m.id] = entry]
  BY <1>1 DEF Call
<1>7. \A i \in Safe : r.added[i] # NotAdded => InBounds(r.added[i].score)
  <2>1. call[c].added \in [Id -> [internalId : Int, score : Int]]
    BY <1>1 DEF Call
  <2> HIDE DEF r
  <2> QED BY <1>1, <1>4, <1>5, <1>6, <2>1 DEF CallScored, Safe
<1> HIDE DEF r
<1> QED BY <1>2, <1>4, <1>6, <1>7, ZenonT(40) DEF CallScored

\* An answer computes a score that fits what becomes of its message.
LEMMA AnswerFindScored ==
  ASSUME Base, NEW c \in Caller, CallScored(call[c], Safe), NEW i \in Id, NEW a \in Answers,
         AnswerFind(c, i, a)
  PROVE  CallScored(call'[c], Safe)
<1> DEFINE b == [a EXCEPT !.score = AnswerScore(a), !.scoreSubtract = 0]
           s == IF Stored(i) THEN "answer" ELSE "answerCache"
           r == [call[c] EXCEPT !.step = s, !.ids = {i}, !.answer = b, !.target = docs[i].internalId]
<1>1. call'[c] = r
  BY DEF AnswerFind, Base, TypeOK
<1>2. AnswerFits(b)
  <2>1. b.score = AnswerScore(a) /\ b.lockMs = a.lockMs
    BY InputAssumption DEF Answer
  <2> QED BY <2>1, AnswerScoreFits DEF Base, TypeOK, AnswerFits
<1> HIDE DEF b, s
<1>3. r.answer = b /\ r.pending = call[c].pending /\ r.added = call[c].added
  BY DEF Base, TypeOK, Call
<1> HIDE DEF r
<1> QED BY <1>1, <1>2, <1>3 DEF CallScored

\* No step of a call gives it a score out of bounds to hand on.
LEMMA OwnScored ==
  ASSUME Base, NEW c \in Caller, CallScored(call[c], Safe), Own(c)
  PROVE  CallScored(call'[c], Safe)
<1>1. call[c] \in Call /\ call \in [Caller -> Call] /\ Safe \in SUBSET Id
  BY DEF Base, TypeOK, Safe
<1>2. ASSUME Return(c) PROVE CallScored(call'[c], Safe)
  BY <1>1, <1>2, IdleScored DEF Return
<1>3. ASSUME NEW s, Goto(c, s), s \notin {"answer", "answerCache"} PROVE CallScored(call'[c], Safe)
  BY <1>1, <1>3, GotoScored, ZenonT(40) DEF Goto
<1>4. ASSUME NEW s, NEW S, GotoWith(c, s, S), s \notin {"answer", "answerCache"}
      PROVE  CallScored(call'[c], Safe)
  BY <1>1, <1>4, GotoScored, Zenon DEF GotoWith
<1>5. CASE \E request \in Requests : Add(c, request)
  BY <1>5, AddScored
<1>6. CASE InsertCreate(c)
  <2> DEFINE m == Head(call[c].pending)
             e == [internalId |-> internalCounter + 1, score |-> m.score]
  <2>1. call[c].step = "create" /\ Inserted(c, m.id, e)
    BY <1>6 DEF InsertCreate, At
  <2>2. internalCounter + 1 \in Int
    BY DEF Base, TypeOK
  <2> QED BY <2>1, <2>2, InsertedScored
<1>7. CASE InsertUpdate(c)
  BY <1>7, InsertedScored DEF InsertUpdate, At
<1>8. CASE \E i \in Id, a \in Answers : AnswerFind(c, i, a)
  BY <1>8, AnswerFindScored
<1>9. CASE AnswerCache(c)
  <2>1. CASE call[c].answer.remove
    <3>1. call'[c] = [Idle EXCEPT !.step = "removeStorage", !.ids = call[c].ids]
      BY <1>1, <1>9, <2>1 DEF AnswerCache
    <3>2. Idle \in Call /\ CallScored(Idle, Safe)
      BY <1>1, IdleFits, IdleScored
    <3>3. CallScored([Idle EXCEPT !.step = "removeStorage", !.ids = call[c].ids], Safe)
      BY <1>1, <3>2, GotoScored, Zenon
    <3> QED BY <3>1, <3>3
  <2>2. CASE ~call[c].answer.remove
    BY <1>2, <1>9, <2>2 DEF AnswerCache
  <2> QED BY <2>1, <2>2
<1>10. CASE InsertCheck(c) \/ RemoveStorage(c) \/ FlushCache(c)
  BY <1>3, <1>10, ZenonT(40) DEF InsertCheck, RemoveStorage, FlushCache
<1>11. CASE InsertInvalid(c) \/ AddMessagesToCache(c) \/ PullClean(c) \/ RemoveCache(c)
            \/ FlushStorage(c)
  BY <1>2, <1>11 DEF InsertInvalid, AddMessagesToCache, PullClean, RemoveCache, FlushStorage
<1>12. CASE \/ \E S \in SUBSET Id, f \in Pulls : Pull(c, S, f)
            \/ getFromStorage(c, "pullFind", "pullRetry")
            \/ getFromStorage(c, "pullRetry", "pullClean")
            \/ \E S \in SUBSET Id : RemoveRequest(c, S) \/ RemoveTTLMessages(c, S)
  BY <1>2, <1>4, <1>12 DEF Pull, getFromStorage, RemoveRequest, RemoveTTLMessages
<1>13. CASE Recover(c)
  BY <1>1, <1>13, RecoverEffect DEF CallScored, HasAdded
<1> QED BY <1>5, <1>6, <1>7, <1>8, <1>9, <1>10, <1>11, <1>12, <1>13, Zenon DEF Own

\* Neither its own steps nor those of others spoil the scores a call holds.
LEMMA NextCallScored ==
  ASSUME Base, Scored, Next, NEW d \in Caller
  PROVE  CallScored(call'[d], Id \ overlapped')
<1>1. CallScored(call[d], Safe) /\ Id \ overlapped' \subseteq Safe
  BY OverlapStays DEF Scored, Safe
<1>2. ASSUME NEW c \in Caller, Own(c) PROVE CallScored(call'[d], Id \ overlapped')
  <2>1. CallScored(call'[d], Safe)
    BY <1>1, <1>2, OwnScored, OthersKeep
  <2> QED BY <1>1, <2>1 DEF CallScored
<1>3. ASSUME NEW c \in Caller, AnswerUpdate(c) PROVE CallScored(call'[d], Id \ overlapped')
  <2>1. /\ call'[d].pending = call[d].pending /\ call'[d].answer = call[d].answer
        /\ \A j \in Id \ overlapped' : call'[d].added[j] = call[d].added[j]
        /\ d # c => call'[d].step = call[d].step
    BY <1>3, AnswerKeeps
  <2>2. d = c => call[d].step = "answer"
    BY <1>3 DEF AnswerUpdate, At
  <2> QED BY <1>1, <2>1, <2>2 DEF CallScored
<1>4. CASE Still
  <2>1. call' = call
    BY <1>4, ZenonT(40) DEF Still, InsertPanics, TimeoutMessage, UnlockMessage, Tick
  <2> QED BY <1>1, <2>1 DEF CallScored
<1> QED BY <1>2, <1>3, <1>4, NextCases

\* Messages move in the cache with a score that fits the list.
LEMMA PutScored ==
  ASSUME Base, PoolScored, overlapped \subseteq overlapped', NEW S, NEW q, NEW s, Put(S, q, s),
         q = "active" => Allowed(s), q \in {"ack", "nack"} => Allowed(s) \/ s = Undefined
  PROVE  PoolScored'
<1>1. \A i \in Id : /\ i \in S => pool'[i].at = q /\ pool'[i].score = s
                    /\ i \notin S => pool'[i] = pool[i]
  BY DEF Put
<1> QED BY <1>1 DEF PoolScored, BeyondBoundsOnlyAsAsked, Allowed

\* Every move in the cache brings a score that fits the list.
LEMMA NextPoolScored == Base /\ Scored /\ Next => PoolScored'
<1> SUFFICES ASSUME Base, Scored, Next PROVE PoolScored'
  OBVIOUS
<1>1. PoolScored /\ overlapped \subseteq overlapped' /\ now \in 1 .. MaxNow
  BY OverlapStays DEF Scored, Base, TypeOK
<1>2. UNCHANGED pool => PoolScored'
  BY <1>1 DEF PoolScored, BeyondBoundsOnlyAsAsked
<1>3. Allowed(MinScore)
  BY MaxScoreAssumption DEF Allowed, InBounds, MinScore
<1>4. ASSUME NEW c \in Caller, AddMessagesToCache(c) PROVE PoolScored'
  <2>1. \A i \in Id : \/ pool'[i] = pool[i]
                      \/ /\ HasAdded(c, i)
                         /\ pool'[i].at = "active" /\ pool'[i].score = call[c].added[i].score
    BY <1>4 DEF AddMessagesToCache, InsertAdded
  <2>2. \A i \in Safe : HasAdded(c, i) => InBounds(call[c].added[i].score)
    BY DEF Scored, CallScored, HasAdded
  <2> QED BY <1>1, <2>1, <2>2 DEF PoolScored, BeyondBoundsOnlyAsAsked, Safe
<1>5. ASSUME NEW c \in Caller, AnswerCache(c) PROVE PoolScored'
  <2> DEFINE a == call[c].answer
             q == IF a.lockMs > 0 THEN a.kind ELSE "active"
             S == {i \in call[c].ids : pool[i].at = "processing"}
  <2>1. Put(S, q, a.score)
    BY <1>5 DEF AnswerCache
  <2>2. AnswerFits(a) /\ a \in Answer
    BY <1>5 DEF AnswerCache, At, Scored, CallScored, Base, TypeOK, Call
  <2> HIDE DEF S, a
  <2>3. /\ q = "active" => Allowed(a.score)
        /\ q \in {"ack", "nack"} => Allowed(a.score) \/ a.score = Undefined
    BY <2>2 DEF AnswerFits, Answer
  <2> HIDE DEF q
  <2> QED BY <1>1, <2>1, <2>3, PutScored
<1>6. ASSUME NEW c \in Caller, NEW S \in SUBSET Id, NEW f \in Pulls, Pull(c, S, f) PROVE PoolScored'
  BY <1>1, <1>6, PutScored DEF Pull
<1>7. ASSUME NEW S, Drop(S) PROVE PoolScored'
  BY <1>1, <1>7, PutScored DEF Drop
<1>8. ASSUME NEW i \in Id, TimeoutMessage(i) PROVE PoolScored'
  BY <1>1, <1>3, <1>8, PutScored DEF TimeoutMessage
<1>9. ASSUME NEW i \in Id, UnlockMessage(i) PROVE PoolScored'
  <2> DEFINE s == UnlockScore(pool[i].score, pool[i].at, now)
  <2>1. Allowed(s)
    BY <1>1, <1>9, UnlockScoreAllowed DEF UnlockMessage, PoolScored, Base, TypeOK
  <2>2. Put({i}, "active", s)
    BY <1>9 DEF UnlockMessage
  <2> HIDE DEF s
  <2> QED BY <1>1, <2>1, <2>2, PutScored
<1> QED
  BY <1>2, <1>4, <1>5, <1>6, <1>7, <1>8, <1>9, ZenonT(40)
  DEF Next, Add, InsertCheck, InsertInvalid, InsertCreate, InsertUpdate, InsertPanics, AnswerFind,
    AnswerUpdate, getFromStorage, PullClean, RemoveRequest, RemoveTTLMessages, RemoveStorage,
    RemoveCache, FlushCache, FlushStorage, RecoveryMessagesPool, Tick, stores

\* No score gets out of bounds by itself: an available message has a score between
\* the minimum and the maximum, or one that an answer asked for, whatever mixture
\* of scores, locks, timeouts and unlocks it went through, but for one that is
\* answered while the Add that created it still runs.
THEOREM MemoryScores == Spec => []BeyondBoundsOnlyAsAsked
<1>1. Init => Scored
  BY IdleScored DEF Init, Scored, PoolScored, BeyondBoundsOnlyAsAsked, Safe
<1>2. Base /\ Scored /\ [Next]_vars => Scored'
  <2> SUFFICES ASSUME Base, Scored, [Next]_vars PROVE Scored'
    OBVIOUS
  <2>1. CASE UNCHANGED vars
    BY <2>1 DEF vars, stores, history, Scored, PoolScored, BeyondBoundsOnlyAsAsked, Safe
  <2>2. CASE Next
    BY <2>2, NextPoolScored, NextCallScored DEF Scored, Safe
  <2> QED BY <2>1, <2>2
<1>3. Scored => BeyondBoundsOnlyAsAsked
  BY DEF Scored, PoolScored
<1> QED BY <1>1, <1>2, <1>3, InitBase, NextBase, PTL DEF Spec
=============================================================================
