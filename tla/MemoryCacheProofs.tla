-------------------------- MODULE MemoryCacheProofs --------------------------
(***************************************************************************)
(* The memory cache, for any queues, messages and requests of any length:  *)
(* what the functions on lists do, that a message is in one list, once,    *)
(* and that every list stays in the order of its scores.                   *)
(***************************************************************************)
EXTENDS MemoryCache, WellFoundedInduction, TLAPS

Record == [id : Nat, score : Int, lockUntil : Int]
Elems(list) == {list[k] : k \in DOMAIN list}
Unique(list) == \A j, k \in DOMAIN list : list[j].id = list[k].id => j = k
Ordered(list) == \A j, k \in DOMAIN list : j < k => list[j].score <= list[k].score

\* A list as the cache keeps it.
Good(list) == list \in Lists /\ Unique(list) /\ Ordered(list)

-----------------------------------------------------------------------------
(* Numbers *)

\* A set of positions has a first one.
LEMMA HasFirst ==
  ASSUME NEW S \in SUBSET Nat, S # {}
  PROVE  \E m \in S : \A k \in S : m <= k
<1> DEFINE R == OpToRel(<, Nat)
<1>1. IsWellFoundedOn(R, Nat)
  BY NatLessThanWellFounded, Zenon
<1> HIDE DEF R
<1>2. PICK m \in S : \A k \in S : <<k, m>> \notin R
  BY <1>1, WFMin, Zenon
<1>3. \A k \in S : k < m => <<k, m>> \in R
  BY DEF R, OpToRel
<1>4. ASSUME NEW k \in S PROVE m <= k
  <2>1. k \in Nat /\ m \in Nat
    OBVIOUS
  <2>2. ~(k < m)
    BY <1>2, <1>3, Zenon
  <2> QED BY <2>1, <2>2
<1> QED BY <1>4

\* What holds of 0 and, with a number, of the next one holds of every number.
LEMMA Induction ==
  ASSUME NEW S \in SUBSET Nat, 0 \in S, \A n \in S : n + 1 \in S
  PROVE  S = Nat
<1> SUFFICES ASSUME Nat \ S # {} PROVE FALSE
  BY Zenon
<1>1. PICK m \in Nat \ S : \A k \in Nat \ S : m <= k
  BY HasFirst, Zenon
<1>2. m # 0 /\ m - 1 \in Nat
  BY <1>1
<1>3. m - 1 \in S
  BY <1>1, <1>2
<1>4. (m - 1) + 1 \in S
  BY <1>3
<1>5. (m - 1) + 1 = m
  BY <1>1
<1> QED BY <1>1, <1>4, <1>5

-----------------------------------------------------------------------------
(* Positions *)

\* The positions and the entries of a list.
LEMMA ListShape ==
  ASSUME NEW list \in Lists
  PROVE  /\ Len(list) \in Nat /\ DOMAIN list = 1 .. Len(list)
         /\ \A k \in 1 .. Len(list) : list[k] \in Record
<1>1. list \in Seq(Record)
  BY DEF Lists, Record
<1> QED BY <1>1

\* A function on the first n positions is a list.
LEMMA IsAList ==
  ASSUME NEW n \in Nat, NEW f \in [1 .. n -> Record]
  PROVE  f \in Lists /\ Len(f) = n
<1>1. f \in Seq(Record) /\ Len(f) = n
  OBVIOUS
<1> QED BY <1>1 DEF Lists, Record

\* A list without the entry at k.
LEMMA RemoveAtShape ==
  ASSUME NEW list \in Lists, NEW k \in 1 .. Len(list)
  PROVE  /\ RemoveAt(k, list) \in Lists
         /\ DOMAIN RemoveAt(k, list) = 1 .. Len(list) - 1
         /\ \A j \in 1 .. Len(list) - 1 :
              RemoveAt(k, list)[j] = IF j < k THEN list[j] ELSE list[j + 1]
<1>1. Len(list) \in Nat /\ \A j \in 1 .. Len(list) : list[j] \in Record
  BY ListShape
<1>2. Len(list) - 1 \in Nat
  BY <1>1
<1>3. \A j \in 1 .. Len(list) - 1 : list[j] \in Record /\ list[j + 1] \in Record
  BY <1>1
<1>4. RemoveAt(k, list) \in [1 .. Len(list) - 1 -> Record]
  BY <1>3 DEF RemoveAt
<1>5. RemoveAt(k, list) \in Lists
  BY <1>2, <1>4, IsAList
<1> QED BY <1>4, <1>5 DEF RemoveAt

\* A list with e before the position k, or at the end.
LEMMA InsertBeforeShape ==
  ASSUME NEW list \in Lists, NEW k \in 1 .. Len(list), NEW e \in Record
  PROVE  /\ InsertBefore(e, k, list) \in Lists
         /\ DOMAIN InsertBefore(e, k, list) = 1 .. Len(list) + 1
         /\ \A j \in 1 .. Len(list) + 1 :
              InsertBefore(e, k, list)[j] =
                IF j < k THEN list[j] ELSE IF j = k THEN e ELSE list[j - 1]
<1>1. Len(list) \in Nat /\ \A j \in 1 .. Len(list) : list[j] \in Record
  BY ListShape
<1>2. Len(list) + 1 \in Nat
  BY <1>1
<1>3. \A j \in 1 .. Len(list) + 1 :
        (j < k => list[j] \in Record) /\ (j # k /\ ~(j < k) => list[j - 1] \in Record)
  BY <1>1
<1>4. InsertBefore(e, k, list) \in [1 .. Len(list) + 1 -> Record]
  BY <1>3 DEF InsertBefore
<1>5. InsertBefore(e, k, list) \in Lists
  BY <1>2, <1>4, IsAList
<1> QED BY <1>4, <1>5 DEF InsertBefore

-----------------------------------------------------------------------------
(* Entries *)

\* removeEntry takes out the first entry with the id.
LEMMA RemoveEntryShape ==
  ASSUME NEW list \in Lists, NEW i
  PROVE  \/ ~Holds(list, i) /\ removeEntry(i, list) = list
         \/ \E k \in 1 .. Len(list) : list[k].id = i /\ removeEntry(i, list) = RemoveAt(k, list)
<1> DEFINE S == {k \in DOMAIN list : list[k].id = i}
           m == CHOOSE k \in S : \A j \in S : k <= j
<1>0. FirstMatch(list, LAMBDA e : e.id = i) = IF S = {} THEN 0 ELSE m
  BY Zenon DEF FirstMatch
<1>1. Len(list) \in Nat /\ DOMAIN list = 1 .. Len(list)
  BY ListShape
<1>2. CASE S = {}
  <2>1. removeEntry(i, list) = list
    BY <1>0, <1>2, Zenon DEF removeEntry
  <2> QED BY <1>2, <2>1 DEF Holds
<1>3. CASE S # {}
  <2>1. S \in SUBSET Nat
    BY <1>1
  <2>2. \E k \in S : \A j \in S : k <= j
    BY <1>3, <2>1, HasFirst, Zenon
  <2>3. m \in S
    BY <2>2
  <2>4. FirstMatch(list, LAMBDA e : e.id = i) = m
    BY <1>0, <1>3, Zenon
  <2> HIDE DEF m
  <2>5. m # 0
    BY <1>1, <2>3
  <2>6. removeEntry(i, list) = RemoveAt(m, list)
    BY <2>4, <2>5, Zenon DEF removeEntry
  <2> QED BY <1>1, <2>3, <2>6
<1> QED BY <1>2, <1>3

\* insertEntry puts the entry before the first one that is not smaller.
LEMMA InsertEntryShape ==
  ASSUME NEW list \in Lists, NEW e \in Record, removeEntry(e.id, list) \in Lists
  PROVE  LET rest == removeEntry(e.id, list)
         IN  \/ /\ \A k \in 1 .. Len(rest) : ~(e.score <= rest[k].score)
                /\ insertEntry(e, list) = Append(rest, e)
             \/ \E k \in 1 .. Len(rest) :
                  /\ e.score <= rest[k].score
                  /\ \A j \in 1 .. Len(rest) : j < k => ~(e.score <= rest[j].score)
                  /\ insertEntry(e, list) = InsertBefore(e, k, rest)
<1> DEFINE rest == removeEntry(e.id, list)
           S == {k \in DOMAIN rest : e.score <= rest[k].score}
           m == CHOOSE k \in S : \A j \in S : k <= j
           first == FirstMatch(rest, LAMBDA f : e.score <= f.score)
<1>0. first = IF S = {} THEN 0 ELSE m
  BY Zenon DEF FirstMatch
<1>1. Len(rest) \in Nat /\ DOMAIN rest = 1 .. Len(rest)
  BY ListShape
<1>2. insertEntry(e, list) =
        IF first = 0 THEN Append(rest, e) ELSE InsertBefore(e, first, rest)
  BY Zenon DEF insertEntry
<1> HIDE DEF rest, first
<1>3. CASE S = {}
  <2>1. first = 0
    BY <1>0, <1>3
  <2>2. insertEntry(e, list) = Append(rest, e)
    BY <1>2, <2>1
  <2>3. \A k \in 1 .. Len(rest) : ~(e.score <= rest[k].score)
    BY <1>1, <1>3
  <2> QED BY <2>2, <2>3 DEF rest
<1>4. CASE S # {}
  <2>1. S \in SUBSET Nat
    BY <1>1
  <2>2. \E k \in S : \A j \in S : k <= j
    BY <1>4, <2>1, HasFirst, Zenon
  <2>3. m \in S /\ \A j \in S : m <= j
    BY <2>2
  <2>4. first = m
    BY <1>0, <1>4
  <2> HIDE DEF m
  <2>5. m \in 1 .. Len(rest) /\ m # 0
    BY <1>1, <2>3
  <2>6. insertEntry(e, list) = InsertBefore(e, m, rest)
    BY <1>2, <2>4, <2>5
  <2>7. \A j \in 1 .. Len(rest) : j < m => ~(e.score <= rest[j].score)
    BY <1>1, <2>3
  <2>8. e.score <= rest[m].score
    BY <2>3
  <2> QED BY <2>5, <2>6, <2>7, <2>8 DEF rest
<1> QED BY <1>3, <1>4

\* The entries that remain keep their order; the one at k is gone.
LEMMA RemoveAtGood ==
  ASSUME NEW list, Good(list), NEW k \in DOMAIN list
  PROVE  Good(RemoveAt(k, list)) /\ Elems(RemoveAt(k, list)) = Elems(list) \ {list[k]}
<1> DEFINE r == RemoveAt(k, list)
           at(j) == IF j < k THEN j ELSE j + 1
<1>1. /\ list \in Lists /\ Len(list) \in Nat /\ DOMAIN list = 1 .. Len(list)
      /\ \A j \in 1 .. Len(list) : list[j] \in Record
  BY ListShape DEF Good
<1>2. /\ r \in Lists /\ DOMAIN r = 1 .. Len(list) - 1
      /\ \A j \in 1 .. Len(list) - 1 : r[j] = list[at(j)]
  BY <1>1, RemoveAtShape
<1>3. \A j \in 1 .. Len(list) - 1 : at(j) \in 1 .. Len(list) /\ at(j) # k
  BY <1>1
<1>4. \A i, j \in 1 .. Len(list) - 1 : (i < j => at(i) < at(j)) /\ (at(i) = at(j) => i = j)
  BY <1>1
<1>5. \A j \in 1 .. Len(list) : j # k => \E i \in 1 .. Len(list) - 1 : at(i) = j
  <2> SUFFICES ASSUME NEW j \in 1 .. Len(list), j # k
               PROVE  \E i \in 1 .. Len(list) - 1 : at(i) = j
    OBVIOUS
  <2>1. CASE j < k
    <3>1. j \in 1 .. Len(list) - 1 /\ at(j) = j
      BY <1>1, <2>1
    <3> QED BY <3>1
  <2>2. CASE j > k
    <3>1. j - 1 \in 1 .. Len(list) - 1 /\ at(j - 1) = j
      BY <1>1, <2>2
    <3> QED BY <3>1
  <2> QED BY <1>1, <2>1, <2>2
<1> HIDE DEF at, r
<1>6. Unique(r)
  BY <1>1, <1>2, <1>3, <1>4 DEF Good, Unique
<1>7. Ordered(r)
  BY <1>1, <1>2, <1>3, <1>4 DEF Good, Ordered
<1>8. Elems(r) = Elems(list) \ {list[k]}
  <2>1. \A j \in 1 .. Len(list) : list[j] = list[k] => j = k
    BY <1>1 DEF Good, Unique
  <2>2. ASSUME NEW x \in Elems(r) PROVE x \in Elems(list) /\ x # list[k]
    BY <1>1, <1>2, <1>3, <2>1 DEF Elems
  <2>3. ASSUME NEW x \in Elems(list), x # list[k] PROVE x \in Elems(r)
    <3>1. PICK j \in 1 .. Len(list) : x = list[j]
      BY <1>1 DEF Elems
    <3>2. j # k
      BY <2>3, <3>1
    <3>3. PICK i \in 1 .. Len(list) - 1 : at(i) = j
      BY <1>5, <3>2
    <3> QED BY <1>2, <3>1, <3>3 DEF Elems
  <2> QED BY <2>2, <2>3
<1> QED BY <1>2, <1>6, <1>7, <1>8 DEF Good, r

\* removeEntry takes out the entry with the id, and nothing else.
LEMMA RemoveEntryGood ==
  ASSUME NEW list, Good(list), NEW i
  PROVE  /\ Good(removeEntry(i, list))
         /\ Elems(removeEntry(i, list)) = {e \in Elems(list) : e.id # i}
<1>1. list \in Lists /\ DOMAIN list = 1 .. Len(list)
  BY ListShape DEF Good
<1>2. CASE ~Holds(list, i) /\ removeEntry(i, list) = list
  BY <1>2 DEF Holds, Elems
<1>3. ASSUME NEW k \in 1 .. Len(list), list[k].id = i, removeEntry(i, list) = RemoveAt(k, list)
      PROVE  /\ Good(removeEntry(i, list))
             /\ Elems(removeEntry(i, list)) = {e \in Elems(list) : e.id # i}
  <2>1. Good(RemoveAt(k, list)) /\ Elems(RemoveAt(k, list)) = Elems(list) \ {list[k]}
    BY <1>1, RemoveAtGood
  <2>2. \A e \in Elems(list) : e.id = i <=> e = list[k]
    BY <1>1, <1>3 DEF Good, Unique, Elems
  <2> QED BY <1>3, <2>1, <2>2
<1> QED BY <1>1, <1>2, <1>3, RemoveEntryShape

\* An entry put where it belongs keeps the order.
LEMMA InsertBeforeGood ==
  ASSUME NEW list, Good(list), NEW e \in Record, \A f \in Elems(list) : f.id # e.id,
         NEW k \in 1 .. Len(list), e.score <= list[k].score,
         \A j \in 1 .. Len(list) : j < k => ~(e.score <= list[j].score)
  PROVE  /\ Good(InsertBefore(e, k, list))
         /\ Elems(InsertBefore(e, k, list)) = Elems(list) \cup {e}
<1> DEFINE r == InsertBefore(e, k, list)
           from(j) == IF j < k THEN j ELSE j - 1
<1>1. /\ list \in Lists /\ Len(list) \in Nat /\ DOMAIN list = 1 .. Len(list)
      /\ \A j \in 1 .. Len(list) : list[j] \in Record
  BY ListShape DEF Good
<1>2. /\ r \in Lists /\ DOMAIN r = 1 .. Len(list) + 1
      /\ r[k] = e /\ \A j \in 1 .. Len(list) + 1 : j # k => r[j] = list[from(j)]
  BY <1>1, InsertBeforeShape
<1>3. \A j \in 1 .. Len(list) + 1 : j # k => from(j) \in 1 .. Len(list)
  BY <1>1
<1>4. \A i, j \in (1 .. Len(list) + 1) \ {k} :
        (i < j => from(i) < from(j)) /\ (from(i) = from(j) => i = j)
  BY <1>1
<1>5. \A j \in (1 .. Len(list) + 1) \ {k} :
        (j < k => from(j) < k) /\ (k < j => k <= from(j))
  BY <1>1
<1>6. \A j \in 1 .. Len(list) : \E i \in (1 .. Len(list) + 1) \ {k} : from(i) = j
  <2> TAKE j \in 1 .. Len(list)
  <2>1. CASE j < k
    <3>1. j \in (1 .. Len(list) + 1) \ {k} /\ from(j) = j
      BY <1>1, <2>1
    <3> QED BY <3>1
  <2>2. CASE ~(j < k)
    <3>1. j + 1 \in (1 .. Len(list) + 1) \ {k} /\ from(j + 1) = j
      BY <1>1, <2>2
    <3> QED BY <3>1
  <2> QED BY <2>1, <2>2
<1>7. e.score \in Int /\ \A j \in 1 .. Len(list) : list[j].score \in Int
  BY <1>1 DEF Record
<1>8. \A j \in 1 .. Len(list) : list[j].id # e.id
  BY <1>1 DEF Elems
<1>9. \A j \in 1 .. Len(list) : k <= j => e.score <= list[j].score
  <2> SUFFICES ASSUME NEW j \in 1 .. Len(list), k <= j PROVE e.score <= list[j].score
    OBVIOUS
  <2>1. CASE k = j
    BY <2>1
  <2>2. CASE k < j
    <3>1. list[k].score <= list[j].score
      BY <1>1, <2>2 DEF Good, Ordered
    <3> QED BY <1>7, <3>1
  <2> QED BY <2>1, <2>2
<1>10. k \in 1 .. Len(list) + 1
  BY <1>1
<1> HIDE DEF from, r
<1>11. Unique(r)
  <2> SUFFICES ASSUME NEW i \in 1 .. Len(list) + 1, NEW j \in 1 .. Len(list) + 1, r[i].id = r[j].id
               PROVE  i = j
    BY <1>2 DEF Unique
  <2>1. CASE i = k \/ j = k
    BY <1>2, <1>3, <1>8, <2>1
  <2>2. CASE i # k /\ j # k
    <3>1. list[from(i)].id = list[from(j)].id
      BY <1>2, <2>2
    <3>2. from(i) = from(j)
      BY <1>1, <1>3, <2>2, <3>1 DEF Good, Unique
    <3> QED BY <1>4, <2>2, <3>2
  <2> QED BY <2>1, <2>2
<1>12. Ordered(r)
  <2> SUFFICES ASSUME NEW i \in 1 .. Len(list) + 1, NEW j \in 1 .. Len(list) + 1, i < j
               PROVE  r[i].score <= r[j].score
    BY <1>2 DEF Ordered
  <2>1. CASE i = k
    <3>1. j # k /\ k <= from(j) /\ from(j) \in 1 .. Len(list)
      BY <1>3, <1>5, <2>1
    <3> QED BY <1>2, <1>9, <2>1, <3>1
  <2>2. CASE j = k
    <3>1. i # k /\ from(i) < k /\ from(i) \in 1 .. Len(list)
      BY <1>3, <1>5, <2>2
    <3>2. ~(e.score <= list[from(i)].score)
      BY <3>1
    <3> QED BY <1>2, <1>7, <2>2, <3>1, <3>2
  <2>3. CASE i # k /\ j # k
    <3>1. from(i) < from(j) /\ from(i) \in 1 .. Len(list) /\ from(j) \in 1 .. Len(list)
      BY <1>3, <1>4, <2>3
    <3>2. list[from(i)].score <= list[from(j)].score
      BY <1>1, <3>1 DEF Good, Ordered
    <3> QED BY <1>2, <2>3, <3>2
  <2> QED BY <2>1, <2>2, <2>3
<1>13. Elems(r) = Elems(list) \cup {e}
  <2>1. ASSUME NEW x \in Elems(r) PROVE x \in Elems(list) \cup {e}
    BY <1>1, <1>2, <1>3 DEF Elems
  <2>2. ASSUME NEW x \in Elems(list) PROVE x \in Elems(r)
    <3>1. PICK j \in 1 .. Len(list) : x = list[j]
      BY <1>1 DEF Elems
    <3>2. PICK i \in (1 .. Len(list) + 1) \ {k} : from(i) = j
      BY <1>6
    <3> QED BY <1>2, <3>1, <3>2 DEF Elems
  <2>3. e \in Elems(r)
    BY <1>2, <1>10 DEF Elems
  <2> QED BY <2>1, <2>2, <2>3
<1> QED BY <1>2, <1>11, <1>12, <1>13 DEF Good, r

\* So does an entry greater than all others, put at the end.
LEMMA AppendGood ==
  ASSUME NEW list, Good(list), NEW e \in Record, \A f \in Elems(list) : f.id # e.id,
         \A j \in 1 .. Len(list) : ~(e.score <= list[j].score)
  PROVE  Good(Append(list, e)) /\ Elems(Append(list, e)) = Elems(list) \cup {e}
<1> DEFINE r == Append(list, e)
           n == Len(list) + 1
<1>1. /\ list \in Lists /\ Len(list) \in Nat /\ DOMAIN list = 1 .. Len(list)
      /\ \A j \in 1 .. Len(list) : list[j] \in Record
  BY ListShape DEF Good
<1>2. /\ r \in Lists /\ DOMAIN r = 1 .. n
      /\ r[n] = e /\ \A j \in 1 .. Len(list) : r[j] = list[j]
  <2>1. list \in Seq(Record)
    BY <1>1 DEF Lists, Record
  <2>2. r \in Seq(Record) /\ Len(r) = n /\ r[n] = e /\ \A j \in 1 .. Len(list) : r[j] = list[j]
    BY <2>1
  <2>3. r \in Lists
    BY <2>2 DEF Lists, Record
  <2> QED BY <2>2, <2>3, ListShape
<1>3. \A j \in 1 .. n : j = n \/ j \in 1 .. Len(list)
  BY <1>1
<1>4. n \in 1 .. n /\ \A j \in 1 .. Len(list) : j \in 1 .. n /\ j < n
  BY <1>1
<1>5. e.score \in Int /\ \A j \in 1 .. Len(list) : list[j].score \in Int
  BY <1>1 DEF Record
<1>6. \A j \in 1 .. Len(list) : list[j].id # e.id
  BY <1>1 DEF Elems
<1>7. \A j \in 1 .. n : ~(n < j)
  BY <1>1
<1> HIDE DEF r, n
<1>8. Unique(r)
  BY <1>1, <1>2, <1>3, <1>6 DEF Good, Unique
<1>9. Ordered(r)
  <2> SUFFICES ASSUME NEW i \in 1 .. n, NEW j \in 1 .. n, i < j
               PROVE  r[i].score <= r[j].score
    BY <1>2 DEF Ordered
  <2>1. i \in 1 .. Len(list)
    BY <1>3, <1>7
  <2>2. CASE j = n
    BY <1>2, <1>5, <2>1, <2>2
  <2>3. CASE j \in 1 .. Len(list)
    BY <1>1, <1>2, <2>1, <2>3 DEF Good, Ordered
  <2> QED BY <1>3, <2>2, <2>3
<1>10. Elems(r) = Elems(list) \cup {e}
  BY <1>1, <1>2, <1>3, <1>4 DEF Elems
<1> QED BY <1>2, <1>8, <1>9, <1>10 DEF Good, r

\* insertEntry adds the entry in its place, instead of one with its id.
LEMMA InsertEntryGood ==
  ASSUME NEW list, Good(list), NEW e \in Record
  PROVE  /\ Good(insertEntry(e, list))
         /\ Elems(insertEntry(e, list)) = {f \in Elems(list) : f.id # e.id} \cup {e}
<1> DEFINE rest == removeEntry(e.id, list)
<1>1. Good(rest) /\ Elems(rest) = {f \in Elems(list) : f.id # e.id}
  BY RemoveEntryGood
<1>2. list \in Lists /\ rest \in Lists
  BY <1>1 DEF Good
<1>3. \/ /\ \A k \in 1 .. Len(rest) : ~(e.score <= rest[k].score)
         /\ insertEntry(e, list) = Append(rest, e)
      \/ \E k \in 1 .. Len(rest) :
           /\ e.score <= rest[k].score
           /\ \A j \in 1 .. Len(rest) : j < k => ~(e.score <= rest[j].score)
           /\ insertEntry(e, list) = InsertBefore(e, k, rest)
  BY <1>2, InsertEntryShape
<1> HIDE DEF rest
<1>4. \A f \in Elems(rest) : f.id # e.id
  BY <1>1
<1>5. CASE /\ \A k \in 1 .. Len(rest) : ~(e.score <= rest[k].score)
           /\ insertEntry(e, list) = Append(rest, e)
  BY <1>1, <1>4, <1>5, AppendGood
<1>6. ASSUME NEW k \in 1 .. Len(rest), e.score <= rest[k].score,
             \A j \in 1 .. Len(rest) : j < k => ~(e.score <= rest[j].score),
             insertEntry(e, list) = InsertBefore(e, k, rest)
      PROVE  /\ Good(insertEntry(e, list))
             /\ Elems(insertEntry(e, list)) = Elems(rest) \cup {e}
  BY <1>1, <1>4, <1>6, InsertBeforeGood
<1> QED BY <1>1, <1>3, <1>5, <1>6

-----------------------------------------------------------------------------
(* Requests of any length *)

\* The entries at the positions S.
Picked(entries, S) == {entries[k] : k \in S}

\* The lists of the loop over a request, one entry after the other.
InsertRun(r, entries, S, list) ==
  /\ r[0] = list
  /\ \A k \in 1 .. Len(entries) :
       r[k] = IF k \in S THEN insertEntry(entries[k], r[k - 1]) ELSE r[k - 1]

\* InsertEach is the last of them.
LEMMA InsertEachRun ==
  ASSUME NEW entries, NEW S, NEW list, Len(entries) \in Nat
  PROVE  \E r : InsertRun(r, entries, S, list) /\ InsertEach(entries, S, list) = r[Len(entries)]
<1> DEFINE step(k, l) == IF k \in S THEN insertEntry(entries[k], l) ELSE l
           run(r, n) == [k \in 0 .. n |-> IF k = 0 THEN list ELSE step(k, r[k - 1])]
           T == {n \in Nat : \E r : r = run(r, n)}
<1> HIDE DEF step
<1>1. 0 \in T
  <2> DEFINE r == [k \in 0 .. 0 |-> list]
  <2>1. r = run(r, 0)
    OBVIOUS
  <2> QED BY <2>1, Zenon
<1>2. ASSUME NEW n \in T PROVE n + 1 \in T
  <2>1. PICK r : r = run(r, n)
    OBVIOUS
  <2> DEFINE s == [k \in 0 .. n + 1 |-> IF k = n + 1 THEN step(n + 1, r[n]) ELSE r[k]]
  <2>2. n \in Nat
    OBVIOUS
  <2>3. ASSUME NEW k \in 0 .. n + 1
        PROVE  s[k] = IF k = 0 THEN list ELSE step(k, s[k - 1])
    <3>1. CASE k = 0
      BY <2>1, <2>2, <3>1
    <3>2. CASE k \in 1 .. n
      <4>1. s[k] = r[k] /\ s[k - 1] = r[k - 1]
        BY <2>2, <3>2
      <4>2. r[k] = step(k, r[k - 1])
        BY <2>1, <2>2, <3>2
      <4> QED BY <3>2, <4>1, <4>2
    <3>3. CASE k = n + 1
      BY <2>2, <3>3
    <3> QED BY <2>2, <3>1, <3>2, <3>3
  <2>4. s = run(s, n + 1)
    BY <2>3
  <2>5. n + 1 \in Nat
    BY <2>2
  <2> HIDE DEF run, s
  <2> QED BY <2>4, <2>5
<1> HIDE DEF run
<1>3. T = Nat
  <2>1. T \in SUBSET Nat
    OBVIOUS
  <2>2. 0 \in T /\ \A n \in T : n + 1 \in T
    BY <1>1, <1>2
  <2> HIDE DEF T
  <2> QED BY <2>1, <2>2, Induction
<1>4. \E r : r = run(r, Len(entries))
  BY <1>3
<1>5. PICK r : r = run(r, Len(entries)) /\ InsertEach(entries, S, list) = r[Len(entries)]
  BY <1>4, Zenon DEF InsertEach, run, step
<1>6. r[0] = list
  BY <1>5 DEF run
<1>7. \A k \in 1 .. Len(entries) : r[k] = step(k, r[k - 1])
  BY <1>5 DEF run
<1> QED BY <1>5, <1>6, <1>7 DEF step, InsertRun

\* removeFromSlice goes through the ids one after the other.
LEMMA RemoveFromSliceRun ==
  ASSUME NEW ids, NEW list, Len(ids) \in Nat
  PROVE  \E r : /\ r[0] = list
                /\ \A k \in 1 .. Len(ids) :
                     r[k] = removeEntry(ids[k], r[k - 1])
                /\ removeFromSlice(ids, list) = r[Len(ids)]
<1> DEFINE step(k, l) == removeEntry(ids[k], l)
           run(r, n) == [k \in 0 .. n |-> IF k = 0 THEN list ELSE step(k, r[k - 1])]
           T == {n \in Nat : \E r : r = run(r, n)}
<1> HIDE DEF step
<1>1. 0 \in T
  <2> DEFINE r == [k \in 0 .. 0 |-> list]
  <2>1. r = run(r, 0)
    OBVIOUS
  <2> QED BY <2>1, Zenon
<1>2. ASSUME NEW n \in T PROVE n + 1 \in T
  <2>1. PICK r : r = run(r, n)
    OBVIOUS
  <2> DEFINE s == [k \in 0 .. n + 1 |-> IF k = n + 1 THEN step(n + 1, r[n]) ELSE r[k]]
  <2>2. n \in Nat
    OBVIOUS
  <2>3. ASSUME NEW k \in 0 .. n + 1
        PROVE  s[k] = IF k = 0 THEN list ELSE step(k, s[k - 1])
    <3>1. CASE k = 0
      BY <2>1, <2>2, <3>1
    <3>2. CASE k \in 1 .. n
      <4>1. s[k] = r[k] /\ s[k - 1] = r[k - 1]
        BY <2>2, <3>2
      <4>2. r[k] = step(k, r[k - 1])
        BY <2>1, <2>2, <3>2
      <4> QED BY <3>2, <4>1, <4>2
    <3>3. CASE k = n + 1
      BY <2>2, <3>3
    <3> QED BY <2>2, <3>1, <3>2, <3>3
  <2>4. s = run(s, n + 1)
    BY <2>3
  <2>5. n + 1 \in Nat
    BY <2>2
  <2> HIDE DEF run, s
  <2> QED BY <2>4, <2>5
<1> HIDE DEF run
<1>3. T = Nat
  <2>1. T \in SUBSET Nat
    OBVIOUS
  <2>2. 0 \in T /\ \A n \in T : n + 1 \in T
    BY <1>1, <1>2
  <2> HIDE DEF T
  <2> QED BY <2>1, <2>2, Induction
<1>4. \E r : r = run(r, Len(ids))
  BY <1>3
<1>5. PICK r : r = run(r, Len(ids)) /\ removeFromSlice(ids, list) = r[Len(ids)]
  BY <1>4, Zenon DEF removeFromSlice, run, step
<1>6. r[0] = list
  BY <1>5 DEF run
<1>7. \A k \in 1 .. Len(ids) : r[k] = step(k, r[k - 1])
  BY <1>5 DEF run
<1> QED BY <1>5, <1>6, <1>7 DEF step

\* The entries of a list are among A, and none of the ids of A is missing.
Covers(list, A) ==
  /\ Good(list) /\ Elems(list) \subseteq A
  /\ \A e \in A : \E f \in Elems(list) : f.id = e.id

\* One entry of a request more.
LEMMA InsertEntryCovers ==
  ASSUME NEW list, NEW A, Covers(list, A), NEW e \in Record
  PROVE  Covers(insertEntry(e, list), A \cup {e})
<1>1. /\ Good(insertEntry(e, list))
      /\ Elems(insertEntry(e, list)) = {f \in Elems(list) : f.id # e.id} \cup {e}
  BY InsertEntryGood DEF Covers
<1>2. ASSUME NEW f \in A \cup {e}
      PROVE  \E g \in Elems(insertEntry(e, list)) : g.id = f.id
  <2>1. CASE f.id = e.id
    BY <1>1, <2>1
  <2>2. CASE f.id # e.id
    <3>1. PICK g \in Elems(list) : g.id = f.id
      BY <2>2 DEF Covers
    <3> QED BY <1>1, <2>2, <3>1
  <2> QED BY <2>1, <2>2
<1> QED BY <1>1, <1>2 DEF Covers

\* A request of any length: the list stays good, its entries are old ones or
\* entries of the request, and no id that was there or was given is missing.
LEMMA InsertEachCovers ==
  ASSUME NEW list, Good(list), NEW entries \in Lists, NEW S \in SUBSET DOMAIN entries
  PROVE  Covers(InsertEach(entries, S, list), Elems(list) \cup Picked(entries, S))
<1> DEFINE N == Len(entries)
           given(n) == Elems(list) \cup Picked(entries, {k \in S : k <= n})
<1>1. N \in Nat /\ S \in SUBSET (1 .. N) /\ \A k \in 1 .. N : entries[k] \in Record
  BY ListShape
<1>2. PICK r : InsertRun(r, entries, S, list) /\ InsertEach(entries, S, list) = r[N]
  BY <1>1, InsertEachRun
<1> DEFINE T == {n \in Nat : n <= N => Covers(r[n], given(n))}
<1>3. given(0) = Elems(list) /\ given(N) = Elems(list) \cup Picked(entries, S)
  <2>1. {k \in S : k <= 0} = {} /\ {k \in S : k <= N} = S
    BY <1>1
  <2> QED BY <2>1 DEF Picked
<1>4. \A n \in Nat : n + 1 <= N =>
        given(n + 1) = IF n + 1 \in S THEN given(n) \cup {entries[n + 1]} ELSE given(n)
  <2> SUFFICES ASSUME NEW n \in Nat, n + 1 <= N
               PROVE  given(n + 1) = IF n + 1 \in S THEN given(n) \cup {entries[n + 1]} ELSE given(n)
    OBVIOUS
  <2>1. {k \in S : k <= n + 1} = {k \in S : k <= n} \cup (S \cap {n + 1})
    BY <1>1
  <2> QED BY <2>1 DEF Picked
<1>5. r[0] = list /\ \A k \in 1 .. N :
        r[k] = IF k \in S THEN insertEntry(entries[k], r[k - 1]) ELSE r[k - 1]
  BY <1>2 DEF InsertRun
<1> HIDE DEF given, N
<1>6. 0 \in T
  BY <1>3, <1>5 DEF Covers
<1>7. ASSUME NEW n \in T PROVE n + 1 \in T
  <2> SUFFICES ASSUME n + 1 <= N PROVE Covers(r[n + 1], given(n + 1))
    OBVIOUS
  <2>1. n \in Nat /\ n <= N /\ n + 1 \in 1 .. N /\ (n + 1) - 1 = n
    BY <1>1
  <2>2. Covers(r[n], given(n))
    BY <2>1
  <2> HIDE DEF T
  <2>3. CASE n + 1 \in S
    <3>1. r[n + 1] = insertEntry(entries[n + 1], r[n])
      BY <1>5, <2>1, <2>3
    <3>2. given(n + 1) = given(n) \cup {entries[n + 1]}
      BY <1>4, <2>1, <2>3, Zenon
    <3>3. entries[n + 1] \in Record
      BY <1>1, <2>1
    <3> QED BY <2>2, <3>1, <3>2, <3>3, InsertEntryCovers
  <2>4. CASE n + 1 \notin S
    <3>1. r[n + 1] = r[n]
      BY <1>5, <2>1, <2>4
    <3>2. given(n + 1) = given(n)
      BY <1>4, <2>1, <2>4, Zenon
    <3> QED BY <2>2, <3>1, <3>2
  <2> QED BY <2>3, <2>4
<1>8. Covers(r[N], given(N))
  <2>1. T \in SUBSET Nat
    OBVIOUS
  <2>2. T = Nat
    <3> HIDE DEF T
    <3> QED BY <1>6, <1>7, <2>1, Induction
  <2>3. N \in T /\ N <= N
    BY <1>1, <2>2
  <2> QED BY <2>3
<1> QED BY <1>2, <1>3, <1>8

\* removeFromSlice takes out the entries with the ids given, and no others.
LEMMA RemoveFromSliceGood ==
  ASSUME NEW list, Good(list), NEW ids, Len(ids) \in Nat
  PROVE  /\ Good(removeFromSlice(ids, list))
         /\ Elems(removeFromSlice(ids, list)) =
              {e \in Elems(list) : \A k \in 1 .. Len(ids) : e.id # ids[k]}
<1> DEFINE N == Len(ids)
           left(n) == {e \in Elems(list) : \A k \in 1 .. n : e.id # ids[k]}
<1>1. PICK r : /\ r[0] = list
               /\ \A k \in 1 .. N : r[k] = removeEntry(ids[k], r[k - 1])
               /\ removeFromSlice(ids, list) = r[N]
  BY RemoveFromSliceRun
<1> DEFINE T == {n \in Nat : n <= N => Good(r[n]) /\ Elems(r[n]) = left(n)}
<1>2. left(0) = Elems(list)
  OBVIOUS
<1>3. \A n \in Nat : left(n + 1) = {e \in left(n) : e.id # ids[n + 1]}
  <2> TAKE n \in Nat
  <2>1. 1 .. n + 1 = (1 .. n) \cup {n + 1}
    OBVIOUS
  <2> QED BY <2>1
<1> HIDE DEF left, N
<1>4. 0 \in T
  BY <1>1, <1>2
<1>5. ASSUME NEW n \in T PROVE n + 1 \in T
  <2> SUFFICES ASSUME n + 1 <= N PROVE Good(r[n + 1]) /\ Elems(r[n + 1]) = left(n + 1)
    OBVIOUS
  <2>1. n \in Nat /\ n <= N /\ n + 1 \in 1 .. N /\ (n + 1) - 1 = n
    BY DEF N
  <2>2. Good(r[n]) /\ Elems(r[n]) = left(n)
    BY <2>1
  <2>3. r[n + 1] = removeEntry(ids[n + 1], r[n])
    BY <1>1, <2>1
  <2>4. /\ Good(r[n + 1])
        /\ Elems(r[n + 1]) = {e \in Elems(r[n]) : e.id # ids[n + 1]}
    BY <2>2, <2>3, RemoveEntryGood
  <2> QED BY <1>3, <2>1, <2>2, <2>4
<1>6. Good(r[N]) /\ Elems(r[N]) = left(N)
  <2>1. T \in SUBSET Nat
    OBVIOUS
  <2>2. T = Nat
    <3> HIDE DEF T
    <3> QED BY <1>4, <1>5, <2>1, Induction
  <2>3. N \in T /\ N <= N
    BY <2>2 DEF N
  <2> QED BY <2>3
<1> QED BY <1>1, <1>6 DEF left, N

-----------------------------------------------------------------------------
(* The lists of a queue *)

\* The four lists of a queue.
Row(q) == [l \in Places |-> ListAt(q, l)]

\* The lists R of queue q, as the cache keeps them.
Kept(q, R) ==
  /\ \A l \in Places : Good(R[l])
  /\ \A l, m \in Places : \A e \in Elems(R[l]), f \in Elems(R[m]) : e.id = f.id => l = m
  /\ \A l \in Places : \A e \in Elems(R[l]) :
       /\ e.id \in Ids[q]
       /\ l = "active" => e.score \in Priorities
       /\ l \in LockTypes => e.score \in LockScores

Typed ==
  /\ queues \in [Queue -> Lists] /\ processingQueues \in [Queue -> Lists]
  /\ lockQueues \in [LockTypes -> [Queue -> Lists]]
  /\ now \in 0 .. MaxNow

Inv == Typed /\ \A q \in Queue : Kept(q, Row(q))

\* The lists of a row by name.
LEMMA RowShape ==
  ASSUME NEW q \in Queue
  PROVE  /\ Row(q) = [l \in Places |-> ListAt(q, l)]
         /\ Row(q)["active"] = queues[q]
         /\ Row(q)["processing"] = processingQueues[q]
         /\ \A t \in LockTypes : Row(q)[t] = lockQueues[t][q]
         /\ \A l \in Places : Row(q)[l] = ListAt(q, l)
BY DEF Row, Places, ListAt, LockTypes

\* After a step, likewise.
LEMMA NextRowShape ==
  ASSUME NEW q \in Queue
  PROVE  /\ Row(q)' = [l \in Places |-> ListAt(q, l)']
         /\ Row(q)'["active"] = queues'[q]
         /\ Row(q)'["processing"] = processingQueues'[q]
         /\ \A t \in LockTypes : Row(q)'[t] = lockQueues'[t][q]
BY DEF Row, Places, ListAt, LockTypes

\* A row whose lists stay the same.
LEMMA RowSame ==
  ASSUME NEW q \in Queue, queues'[q] = queues[q], processingQueues'[q] = processingQueues[q],
         \A t \in LockTypes : lockQueues'[t][q] = lockQueues[t][q]
  PROVE  Row(q)' = Row(q)
BY DEF Row, Places, ListAt, LockTypes

\* The places of a row.
LEMMA PlacesShape ==
  /\ "active" \in Places /\ "processing" \in Places /\ "active" # "processing"
  /\ "active" \notin LockTypes /\ "processing" \notin LockTypes /\ LockTypes \subseteq Places
  /\ \A l \in Places : l = "active" \/ l = "processing" \/ l \in LockTypes
BY DEF Places, LockTypes

\* The invariant is what the run checks: the types, each message once, sorted.
LEMMA InvIsChecked == Inv <=> TypeOK /\ EachMessageOnce /\ Sorted
<1>1. Typed => \A q \in Queue : \A l \in Places :
        /\ ListAt(q, l) \in Lists /\ ListAt(q, l) = Row(q)[l]
        /\ Elems(Row(q)[l]) = {ListAt(q, l)[k] : k \in DOMAIN ListAt(q, l)}
  BY RowShape DEF Typed, Places, ListAt, LockTypes, Elems
<1>2. ASSUME Inv PROVE TypeOK /\ EachMessageOnce /\ Sorted
  <2>1. TypeOK
    <3>1. Typed
      BY <1>2 DEF Inv
    <3>2. ASSUME NEW q \in Queue, NEW l \in Places, NEW k \in DOMAIN ListAt(q, l)
          PROVE  LET e == ListAt(q, l)[k]
                 IN  /\ e.id \in Ids[q]
                     /\ l = "active" => e.score \in Priorities
                     /\ l \in LockTypes => e.score \in LockScores
      <4>1. ListAt(q, l)[k] \in Elems(Row(q)[l])
        BY <1>1, <3>1
      <4> QED BY <1>2, <4>1 DEF Inv, Kept
    <3> QED BY <3>1, <3>2 DEF Typed, TypeOK
  <2>2. EachMessageOnce
    <3> SUFFICES ASSUME NEW q \in Queue, NEW l \in Places, NEW m \in Places,
                        NEW j \in DOMAIN ListAt(q, l), NEW k \in DOMAIN ListAt(q, m),
                        ListAt(q, l)[j].id = ListAt(q, m)[k].id
                 PROVE  l = m /\ j = k
      BY DEF EachMessageOnce
    <3>1. l = m
      BY <1>1, <1>2 DEF Inv, Kept
    <3> QED BY <1>1, <1>2, <3>1 DEF Inv, Kept, Good, Unique
  <2>3. Sorted
    BY <1>1, <1>2 DEF Inv, Kept, Good, Ordered, Sorted
  <2> QED BY <2>1, <2>2, <2>3
<1>3. ASSUME TypeOK, EachMessageOnce, Sorted PROVE Inv
  <2>1. Typed
    BY <1>3 DEF TypeOK, Typed
  <2>2. ASSUME NEW q \in Queue, NEW l \in Places, NEW e \in Elems(Row(q)[l])
        PROVE  \E j \in DOMAIN ListAt(q, l) : e = ListAt(q, l)[j]
    BY <1>1, <2>1
  <2>3. ASSUME NEW q \in Queue, NEW l \in Places PROVE Good(Row(q)[l])
    <3>1. Unique(ListAt(q, l))
      BY <1>3 DEF EachMessageOnce, Unique
    <3>2. Ordered(ListAt(q, l))
      BY <1>3 DEF Sorted, Ordered
    <3> QED BY <1>1, <2>1, <3>1, <3>2 DEF Good
  <2>4. ASSUME NEW q \in Queue, NEW l \in Places, NEW m \in Places,
               NEW e \in Elems(Row(q)[l]), NEW f \in Elems(Row(q)[m]), e.id = f.id
        PROVE  l = m
    <3>1. PICK j \in DOMAIN ListAt(q, l) : e = ListAt(q, l)[j]
      BY <2>2
    <3>2. PICK k \in DOMAIN ListAt(q, m) : f = ListAt(q, m)[k]
      BY <2>2
    <3> QED BY <1>3, <2>4, <3>1, <3>2 DEF EachMessageOnce
  <2>5. ASSUME NEW q \in Queue, NEW l \in Places, NEW e \in Elems(Row(q)[l])
        PROVE  /\ e.id \in Ids[q]
               /\ l = "active" => e.score \in Priorities
               /\ l \in LockTypes => e.score \in LockScores
    <3>1. PICK j \in DOMAIN ListAt(q, l) : e = ListAt(q, l)[j]
      BY <2>2
    <3> QED BY <1>3, <3>1 DEF TypeOK
  <2> QED BY <2>1, <2>3, <2>4, <2>5 DEF Inv, Kept
<1> QED BY <1>2, <1>3

-----------------------------------------------------------------------------
(* Moves: from the lists R to the lists U, the messages D leave their lists *)
(* and the entries N come into the list d.                                  *)

Moved(R, U, D, d, N) ==
  \A l \in Places :
    /\ Good(U[l])
    /\ Elems(U[l]) = {e \in Elems(R[l]) : e.id \notin D} \cup (IF l = d THEN N ELSE {})

\* What comes in has left another list or was nowhere.
Fresh(q, R, D, d, N) ==
  \A e \in N :
    /\ e.id \in D \/ \A l \in Places : \A f \in Elems(R[l]) : f.id # e.id
    /\ e.id \in Ids[q]
    /\ d = "active" => e.score \in Priorities
    /\ d \in LockTypes => e.score \in LockScores

\* A move keeps every message in one list, once, and the lists sorted.
LEMMA MovesKeep ==
  ASSUME NEW q, NEW R, Kept(q, R), NEW U, NEW d \in Places, NEW D, NEW N,
         Moved(R, U, D, d, N), Fresh(q, R, D, d, N)
  PROVE  Kept(q, U)
<1>1. ASSUME NEW l \in Places, NEW e \in Elems(U[l])
      PROVE  (e \in Elems(R[l]) /\ e.id \notin D) \/ (l = d /\ e \in N)
  <2>1. Elems(U[l]) = {f \in Elems(R[l]) : f.id \notin D} \cup (IF l = d THEN N ELSE {})
    BY DEF Moved
  <2> QED BY <2>1
<1>2. \A e \in N : \A l \in Places : \A f \in Elems(R[l]) : f.id = e.id => f.id \in D
  BY DEF Fresh
<1>3. ASSUME NEW l \in Places, NEW m \in Places,
             NEW e \in Elems(U[l]), NEW f \in Elems(U[m]), e.id = f.id
      PROVE  l = m
  <2>1. CASE e \in Elems(R[l]) /\ f \in Elems(R[m])
    BY <1>3, <2>1 DEF Kept
  <2>2. CASE l = d /\ e \in N
    BY <1>1, <1>2, <1>3, <2>2
  <2>3. CASE m = d /\ f \in N
    BY <1>1, <1>2, <1>3, <2>3
  <2> QED BY <1>1, <2>1, <2>2, <2>3
<1>4. ASSUME NEW l \in Places, NEW e \in Elems(U[l])
      PROVE  /\ e.id \in Ids[q]
             /\ l = "active" => e.score \in Priorities
             /\ l \in LockTypes => e.score \in LockScores
  BY <1>1 DEF Kept, Fresh
<1>5. \A l \in Places : Good(U[l])
  BY DEF Moved
<1> QED BY <1>3, <1>4, <1>5 DEF Kept

\* A list from which a move takes nothing stays as it is.
LEMMA NothingLeaves ==
  ASSUME NEW q, NEW R, Kept(q, R), NEW l \in Places, NEW m \in Places, l # m,
         NEW D, \A i \in D : \E e \in Elems(R[l]) : e.id = i
  PROVE  {e \in Elems(R[m]) : e.id \notin D} = Elems(R[m])
BY DEF Kept

\* A message that leaves the list l for the list d.
LEMMA OneMoves ==
  ASSUME NEW q, NEW R, Kept(q, R), NEW U, NEW l \in Places, NEW d \in Places, l # d,
         NEW e \in Record, \E f \in Elems(R[l]) : f.id = e.id,
         Good(U[l]), Elems(U[l]) = {f \in Elems(R[l]) : f.id # e.id},
         U[d] = insertEntry(e, R[d]),
         \A m \in Places \ {l, d} : U[m] = R[m]
  PROVE  Moved(R, U, {e.id}, d, {e})
<1> SUFFICES ASSUME NEW m \in Places
             PROVE  /\ Good(U[m])
                    /\ Elems(U[m]) = {f \in Elems(R[m]) : f.id \notin {e.id}}
                                       \cup (IF m = d THEN {e} ELSE {})
  BY DEF Moved
<1>1. \A i \in {e.id} : \E f \in Elems(R[l]) : f.id = i
  OBVIOUS
<1>2. CASE m = l
  BY <1>2
<1>3. CASE m = d
  <2>1. Good(R[d])
    BY DEF Kept
  <2>2. /\ Good(insertEntry(e, R[d]))
        /\ Elems(insertEntry(e, R[d])) = {f \in Elems(R[d]) : f.id # e.id} \cup {e}
    BY <2>1, InsertEntryGood
  <2> QED BY <1>3, <2>2
<1>4. CASE m \notin {l, d}
  <2>1. Good(R[m]) /\ U[m] = R[m]
    BY <1>4 DEF Kept
  <2>2. {f \in Elems(R[m]) : f.id \notin {e.id}} = Elems(R[m])
    <3> DEFINE D == {e.id}
    <3>1. \A i \in D : \E f \in Elems(R[l]) : f.id = i
      BY <1>1
    <3> HIDE DEF D
    <3>2. {f \in Elems(R[m]) : f.id \notin D} = Elems(R[m])
      BY <1>4, <3>1, NothingLeaves
    <3> QED BY <3>2 DEF D
  <2> QED BY <1>4, <2>1, <2>2
<1> QED BY <1>2, <1>3, <1>4

-----------------------------------------------------------------------------
(* The calls *)

\* A step in which the messages D of queue q leave their lists, and the entries
\* N come into the list d.
Moves(q, D, d, N) ==
  /\ Typed'
  /\ \A p \in Queue \ {q} : Row(p)' = Row(p)
  /\ d \in Places
  /\ Moved(Row(q), Row(q)', D, d, N)
  /\ Fresh(q, Row(q), D, d, N)

\* Such a step preserves the invariant.
LEMMA MovesInv ==
  ASSUME Inv, NEW q \in Queue, NEW D, NEW d, NEW N, Moves(q, D, d, N)
  PROVE  Inv'
<1>1. Kept(q, Row(q)')
  BY MovesKeep DEF Inv, Moves
<1>2. \A p \in Queue : Kept(p, Row(p)')
  BY <1>1 DEF Inv, Moves
<1> QED BY <1>2 DEF Inv, Moves, Kept

\* The lists are good ones.
LEMMA ListsAreGood ==
  ASSUME Inv, NEW q \in Queue
  PROVE  /\ Kept(q, Row(q)) /\ now \in Nat /\ now \in Int
         /\ Good(queues[q]) /\ Good(processingQueues[q])
         /\ \A t \in LockTypes : Good(lockQueues[t][q])
<1>1. Kept(q, Row(q)) /\ now \in 0 .. MaxNow
  BY DEF Inv, Typed
<1>2. now \in Nat /\ now \in Int
  BY <1>1
<1> QED BY <1>1, <1>2, RowShape, PlacesShape DEF Kept

\* An entry of a request is a record.
LEMMA EntryShape ==
  ASSUME NEW q \in Queue, NEW i \in Ids[q], NEW s \in Int
  PROVE  Entry(i, s) \in Record /\ Entry(i, s).id = i /\ Entry(i, s).score = s
BY InputAssumption DEF Entry, Record

\* MakeAvailable moves one message from processing to its new score.
LEMMA MakeAvailableMoves ==
  ASSUME Inv, NEW q \in Queue, NEW i \in Ids[q], NEW s \in Scores, MakeAvailable(q, i, s)
  PROVE  Moves(q, {i}, "active", {Entry(i, s)})
<1> DEFINE R == Row(q)
           U == Row(q)'
           e == Entry(i, s)
<1>1. Kept(q, R) /\ Good(queues[q]) /\ Good(processingQueues[q])
  BY ListsAreGood
<1>2. e \in Record /\ e.id = i /\ e.score = s
  BY EntryShape, InputAssumption
<1> HIDE DEF e
<1>3. /\ Good(removeEntry(i, processingQueues[q]))
      /\ Elems(removeEntry(i, processingQueues[q])) = {f \in Elems(processingQueues[q]) : f.id # i}
  BY <1>1, RemoveEntryGood
<1>4. Good(insertEntry(e, queues[q]))
  BY <1>1, <1>2, InsertEntryGood
<1>5. Typed'
  BY <1>3, <1>4 DEF Inv, Typed, MakeAvailable, Good, e
<1>6. /\ U["active"] = insertEntry(e, R["active"])
      /\ U["processing"] = removeEntry(i, R["processing"])
      /\ \A t \in LockTypes : U[t] = R[t]
  BY RowShape, NextRowShape DEF Inv, Typed, MakeAvailable, e
<1>7. \A p \in Queue \ {q} : Row(p)' = Row(p)
  BY RowSame DEF Inv, Typed, MakeAvailable
<1>8. \E f \in Elems(R["processing"]) : f.id = e.id
  BY <1>2, RowShape DEF MakeAvailable, Holds, Elems
<1>9. Moved(R, U, {i}, "active", {e})
  <2>1. R["processing"] = processingQueues[q]
    BY RowShape
  <2>2. \A m \in Places \ {"processing", "active"} : U[m] = R[m]
    BY <1>6, PlacesShape
  <2> QED BY <1>1, <1>2, <1>3, <1>6, <1>8, <2>1, <2>2, PlacesShape, OneMoves
<1>10. Fresh(q, R, {i}, "active", {e})
  BY <1>2, PlacesShape DEF Fresh, Priorities
<1> QED BY <1>5, <1>7, <1>9, <1>10, PlacesShape DEF Moves, e

\* LockMessage moves one message from processing to a lock.
LEMMA LockMessageMoves ==
  ASSUME Inv, NEW q \in Queue, NEW i \in Ids[q], NEW t \in LockTypes, NEW ms \in LockTimes,
         NEW s \in LockScores, LockMessage(q, i, t, ms, s)
  PROVE  Moves(q, {i}, t, {[Entry(i, s) EXCEPT !.lockUntil = now + ms]})
<1> DEFINE R == Row(q)
           U == Row(q)'
           e == [Entry(i, s) EXCEPT !.lockUntil = now + ms]
<1>1. Kept(q, R) /\ now \in Int /\ Good(processingQueues[q]) /\ Good(lockQueues[t][q])
  BY ListsAreGood
<1>2. e \in Record /\ e.id = i /\ e.score = s
  <2>1. Entry(i, s) \in Record /\ now + ms \in Int
    BY <1>1, EntryShape, InputAssumption
  <2> QED BY <2>1 DEF Record, Entry
<1> HIDE DEF e
<1>3. /\ Good(removeEntry(i, processingQueues[q]))
      /\ Elems(removeEntry(i, processingQueues[q])) = {f \in Elems(processingQueues[q]) : f.id # i}
  BY <1>1, RemoveEntryGood
<1>4. Good(insertEntry(e, lockQueues[t][q]))
  BY <1>1, <1>2, InsertEntryGood
<1>5. Typed'
  BY <1>3, <1>4 DEF Inv, Typed, LockMessage, Good, e
<1>6. /\ U[t] = insertEntry(e, R[t])
      /\ U["processing"] = removeEntry(i, R["processing"])
      /\ U["active"] = R["active"] /\ \A u \in LockTypes : u # t => U[u] = R[u]
  <2>1. /\ lockQueues'[t][q] = insertEntry(e, lockQueues[t][q])
        /\ \A u \in LockTypes : u # t => lockQueues'[u][q] = lockQueues[u][q]
    BY DEF Inv, Typed, LockMessage, e
  <2>2. processingQueues'[q] = removeEntry(i, processingQueues[q]) /\ queues'[q] = queues[q]
    BY DEF Inv, Typed, LockMessage
  <2> QED BY <2>1, <2>2, RowShape, NextRowShape
<1>7. \A p \in Queue \ {q} : Row(p)' = Row(p)
  BY RowSame DEF Inv, Typed, LockMessage
<1>8. \E f \in Elems(R["processing"]) : f.id = e.id
  BY <1>2, RowShape DEF LockMessage, Holds, Elems
<1>9. t \in Places /\ t # "processing" /\ t # "active"
  BY PlacesShape
<1>10. Moved(R, U, {i}, t, {e})
  <2>1. R["processing"] = processingQueues[q]
    BY RowShape
  <2>2. \A m \in Places \ {"processing", t} : U[m] = R[m]
    BY <1>6, PlacesShape
  <2> QED BY <1>1, <1>2, <1>3, <1>6, <1>8, <1>9, <2>1, <2>2, PlacesShape, OneMoves
<1>11. Fresh(q, R, {i}, t, {e})
  BY <1>2, <1>9 DEF Fresh
<1> QED BY <1>5, <1>7, <1>9, <1>10, <1>11 DEF Moves, e

\* The timeout loop ends at an entry past its deadline.
LEMMA FirstTimedOut ==
  ASSUME NEW list \in Lists, FirstMatch(list, TimedOut) # 0
  PROVE  /\ FirstMatch(list, TimedOut) \in DOMAIN list
         /\ TimedOut(list[FirstMatch(list, TimedOut)])
<1> DEFINE S == {k \in DOMAIN list : TimedOut(list[k])}
           m == CHOOSE k \in S : \A j \in S : k <= j
<1>1. FirstMatch(list, TimedOut) = IF S = {} THEN 0 ELSE m
  BY Zenon DEF FirstMatch
<1>2. S # {}
  BY <1>1
<1>3. S \in SUBSET Nat
  BY ListShape
<1>4. \E k \in S : \A j \in S : k <= j
  BY <1>2, <1>3, HasFirst, Zenon
<1>5. m \in S
  BY <1>4
<1>6. FirstMatch(list, TimedOut) = m
  BY <1>1, <1>2
<1> HIDE DEF m
<1> QED BY <1>5, <1>6

\* TimeoutMessages moves one message past its deadline to the first score.
LEMMA TimeoutMessagesMoves ==
  ASSUME Inv, NEW q \in Queue, TimeoutMessages(q)
  PROVE  \E e \in Elems(processingQueues[q]) :
           TimedOut(e) /\ Moves(q, {e.id}, "active", {Returned(e)})
<1> DEFINE R == Row(q)
           U == Row(q)'
           first == FirstMatch(processingQueues[q], TimedOut)
           old == processingQueues[q][first]
           e == Returned(old)
<1>1. Kept(q, R) /\ Good(queues[q]) /\ Good(processingQueues[q])
  BY ListsAreGood
<1>2. first \in DOMAIN processingQueues[q] /\ TimedOut(old)
  BY <1>1, FirstTimedOut, Zenon DEF TimeoutMessages, Good
<1>3. /\ processingQueues' = [processingQueues EXCEPT ![q] = removeEntry(old.id, @)]
      /\ queues' = [queues EXCEPT ![q] = insertEntry(e, @)]
      /\ UNCHANGED <<lockQueues, now>>
  BY DEF TimeoutMessages
<1> HIDE DEF first
<1>4. old \in Elems(processingQueues[q]) /\ old \in Record
  BY <1>1, <1>2, ListShape DEF Elems, Good
<1>5. e \in Record /\ e.id = old.id /\ e.score = Min
  BY <1>4 DEF Returned, Record, Min
<1> HIDE DEF e, old
<1>6. /\ Good(removeEntry(old.id, processingQueues[q]))
      /\ Elems(removeEntry(old.id, processingQueues[q])) =
           {f \in Elems(processingQueues[q]) : f.id # old.id}
  BY <1>1, RemoveEntryGood
<1>7. Good(insertEntry(e, queues[q]))
  BY <1>1, <1>5, InsertEntryGood
<1>8. Typed'
  BY <1>3, <1>6, <1>7 DEF Inv, Typed, Good
<1>9. /\ U["active"] = insertEntry(e, R["active"])
      /\ U["processing"] = removeEntry(old.id, R["processing"])
      /\ \A t \in LockTypes : U[t] = R[t]
  BY <1>3, RowShape, NextRowShape DEF Inv, Typed
<1>10. \A p \in Queue \ {q} : Row(p)' = Row(p)
  BY <1>3, RowSame DEF Inv, Typed
<1>11. Moved(R, U, {old.id}, "active", {e})
  <2>1. R["processing"] = processingQueues[q]
    BY RowShape
  <2>2. \A m \in Places \ {"processing", "active"} : U[m] = R[m]
    BY <1>9, PlacesShape
  <2>3. \E f \in Elems(R["processing"]) : f.id = e.id
    BY <1>4, <1>5, <2>1
  <2> QED BY <1>1, <1>5, <1>6, <1>9, <2>1, <2>2, <2>3, PlacesShape, OneMoves
<1>12. Fresh(q, R, {old.id}, "active", {e})
  <2>1. old.id \in Ids[q]
    BY <1>1, <1>4, RowShape, PlacesShape DEF Kept
  <2>2. Min \in Priorities
    BY InputAssumption DEF Min, Priorities
  <2> QED BY <1>5, <2>1, <2>2, PlacesShape DEF Fresh
<1>13. Moves(q, {old.id}, "active", {Returned(old)})
  BY <1>8, <1>10, <1>11, <1>12, PlacesShape DEF Moves, e
<1> QED BY <1>2, <1>4, <1>13, Zenon

\* The unlock loop ends at an entry whose lock is over.
LEMMA FirstUnlocked ==
  ASSUME NEW list \in Lists, FirstMatch(list, LAMBDA e : now >= e.lockUntil) # 0
  PROVE  /\ FirstMatch(list, LAMBDA e : now >= e.lockUntil) \in DOMAIN list
         /\ now >= list[FirstMatch(list, LAMBDA e : now >= e.lockUntil)].lockUntil
<1> DEFINE S == {k \in DOMAIN list : now >= list[k].lockUntil}
           m == CHOOSE k \in S : \A j \in S : k <= j
           first == FirstMatch(list, LAMBDA e : now >= e.lockUntil)
<1>1. first = IF S = {} THEN 0 ELSE m
  BY Zenon DEF FirstMatch
<1>2. first # 0
  OBVIOUS
<1> HIDE DEF first
<1>3. S # {}
  BY <1>1, <1>2
<1>4. S \in SUBSET Nat
  BY ListShape
<1>5. \E k \in S : \A j \in S : k <= j
  BY <1>3, <1>4, HasFirst, Zenon
<1>6. m \in S
  BY <1>5
<1>7. first = m
  BY <1>1, <1>3
<1> HIDE DEF m
<1>8. first \in DOMAIN list /\ now >= list[first].lockUntil
  BY <1>6, <1>7
<1> QED BY <1>8, Zenon DEF first

\* The entry of a message whose lock of type t ends, and where it goes.
Unlocks(q, t, e) ==
  /\ e \in Elems(lockQueues[t][q]) /\ now >= e.lockUntil
  /\ Moved(Row(q), Row(q)', {e.id}, "active", {Unlocked(e, t)})
  /\ Fresh(q, Row(q), {e.id}, "active", {Unlocked(e, t)})

\* UnlockMessages moves at most one message of every queue, and only one whose
\* lock is over, with the score of the lock or the default of its type.
LEMMA UnlockMessagesMoves ==
  ASSUME Inv, NEW t \in LockTypes, UnlockMessages(t)
  PROVE  /\ Typed' /\ UNCHANGED now
         /\ \A q \in Queue : Row(q)' = Row(q) \/ \E e : Unlocks(q, t, e)
<1> DEFINE at(q) == FirstMatch(lockQueues[t][q], LAMBDA e : now >= e.lockUntil)
<1>0. /\ \A q \in Queue : queues'[q] =
           IF at(q) = 0 THEN queues[q]
           ELSE insertEntry(Unlocked(lockQueues[t][q][at(q)], t), queues[q])
      /\ \A q \in Queue : lockQueues'[t][q] =
           IF at(q) = 0 THEN lockQueues[t][q] ELSE RemoveAt(at(q), lockQueues[t][q])
      /\ \A u \in LockTypes : u # t => lockQueues'[u] = lockQueues[u]
      /\ queues' = [q \in Queue |-> queues'[q]]
      /\ lockQueues' = [u \in LockTypes |-> [q \in Queue |-> lockQueues'[u][q]]]
      /\ UNCHANGED <<processingQueues, now>>
  BY Zenon DEF UnlockMessages, Inv, Typed
<1>1. ASSUME NEW q \in Queue, at(q) # 0
      PROVE  at(q) \in DOMAIN lockQueues[t][q] /\ now >= lockQueues[t][q][at(q)].lockUntil
  <2>1. lockQueues[t][q] \in Lists
    BY ListsAreGood DEF Good
  <2> QED BY <1>1, <2>1, FirstUnlocked, Zenon
<1> HIDE DEF at
<1>2. ASSUME NEW q \in Queue, at(q) = 0
      PROVE  Row(q)' = Row(q)
  BY <1>0, <1>2, RowSame
<1>3. ASSUME NEW q \in Queue, at(q) # 0
      PROVE  /\ Good(queues'[q]) /\ Good(lockQueues'[t][q])
             /\ Unlocks(q, t, lockQueues[t][q][at(q)])
  <2> DEFINE R == Row(q)
             U == Row(q)'
             k == at(q)
             old == lockQueues[t][q][k]
             e == Unlocked(old, t)
  <2>1. /\ Kept(q, R) /\ now \in Int
        /\ Good(queues[q]) /\ Good(lockQueues[t][q])
    BY ListsAreGood
  <2>2. /\ k \in DOMAIN lockQueues[t][q] /\ now >= old.lockUntil
        /\ old \in Elems(lockQueues[t][q]) /\ old \in Record
    BY <1>1, <1>3, <2>1, ListShape DEF Elems, Good
  <2>3. /\ queues'[q] = insertEntry(e, queues[q])
        /\ lockQueues'[t][q] = RemoveAt(k, lockQueues[t][q])
        /\ \A u \in LockTypes : u # t => lockQueues'[u][q] = lockQueues[u][q]
        /\ processingQueues'[q] = processingQueues[q]
    BY <1>0, <1>3
  <2> HIDE DEF k
  <2>4. /\ Good(RemoveAt(k, lockQueues[t][q]))
        /\ Elems(RemoveAt(k, lockQueues[t][q])) = {f \in Elems(lockQueues[t][q]) : f.id # old.id}
    <3>1. /\ Good(RemoveAt(k, lockQueues[t][q]))
          /\ Elems(RemoveAt(k, lockQueues[t][q])) = Elems(lockQueues[t][q]) \ {old}
      BY <2>1, <2>2, RemoveAtGood
    <3>2. \A f \in Elems(lockQueues[t][q]) : f.id = old.id <=> f = old
      BY <2>1, <2>2 DEF Good, Unique, Elems
    <3> QED BY <3>1, <3>2
  <2> HIDE DEF old
  <2>5. e.id = old.id /\ e \in Record
    BY <2>1, <2>2 DEF Unlocked, Entry, Record, Min
  <2>6. /\ old.id \in Ids[q] /\ old.score \in LockScores
    BY <2>1, <2>2, RowShape, PlacesShape DEF Kept
  <2>7. e.score \in Priorities
    <3>1. now \in 0 .. MaxNow /\ Min \in 0 .. MaxNow
      BY InputAssumption DEF Inv, Typed, Min
    <3> QED BY <2>6, <3>1 DEF Unlocked, Entry, Priorities
  <2> HIDE DEF e
  <2>8. Good(insertEntry(e, queues[q]))
    BY <2>1, <2>5, InsertEntryGood
  <2>9. t \in Places /\ t # "active" /\ t # "processing"
    BY PlacesShape
  <2>10. Moved(R, U, {e.id}, "active", {e})
    <3>1. R[t] = lockQueues[t][q] /\ U[t] = RemoveAt(k, lockQueues[t][q])
      BY <2>3, RowShape, NextRowShape
    <3>2. U["active"] = insertEntry(e, R["active"])
      BY <2>3, RowShape, NextRowShape
    <3>3. \A m \in Places \ {t, "active"} : U[m] = R[m]
      BY <2>3, RowShape, NextRowShape, PlacesShape
    <3>4. Good(U[t]) /\ Elems(U[t]) = {f \in Elems(R[t]) : f.id # e.id}
      BY <2>4, <2>5, <3>1
    <3>5. \E f \in Elems(R[t]) : f.id = e.id
      BY <2>2, <2>5, <3>1
    <3> QED BY <2>1, <2>5, <2>9, <3>2, <3>3, <3>4, <3>5, PlacesShape, OneMoves
  <2>11. Fresh(q, R, {e.id}, "active", {e})
    BY <2>5, <2>6, <2>7, PlacesShape DEF Fresh
  <2>12. Unlocks(q, t, old)
    BY <2>2, <2>5, <2>10, <2>11 DEF Unlocks, e
  <2> QED BY <2>3, <2>4, <2>8, <2>12 DEF k, old
<1>4. ASSUME NEW q \in Queue
      PROVE  queues'[q] \in Lists /\ \A u \in LockTypes : lockQueues'[u][q] \in Lists
  <2>1. CASE at(q) = 0
    BY <1>0, <2>1 DEF Inv, Typed
  <2>2. CASE at(q) # 0
    BY <1>0, <1>3, <2>2 DEF Inv, Typed, Good
  <2> QED BY <2>1, <2>2
<1>5. Typed'
  BY <1>0, <1>4 DEF Inv, Typed
<1> QED BY <1>0, <1>2, <1>3, <1>5

\* Remove takes the messages of the request out of all lists.
LEMMA RemoveMoves ==
  ASSUME Inv, NEW q \in Queue, NEW ids \in Requests(Ids[q]), Remove(q, ids)
  PROVE  Moves(q, {ids[k] : k \in DOMAIN ids}, "active", {})
<1> DEFINE R == Row(q)
           U == Row(q)'
           D == {ids[k] : k \in DOMAIN ids}
<1>1. Len(ids) \in Nat /\ DOMAIN ids = 1 .. Len(ids)
  <2>1. PICK n \in Nat : ids \in [1 .. n -> Ids[q]]
    BY InputAssumption DEF Requests
  <2> QED BY <2>1
<1>2. \A list : Good(list) => /\ Good(removeFromSlice(ids, list))
                              /\ Elems(removeFromSlice(ids, list)) = {e \in Elems(list) : e.id \notin D}
  <2> SUFFICES ASSUME NEW list, Good(list)
               PROVE  /\ Good(removeFromSlice(ids, list))
                      /\ Elems(removeFromSlice(ids, list)) = {e \in Elems(list) : e.id \notin D}
    OBVIOUS
  <2>1. /\ Good(removeFromSlice(ids, list))
        /\ Elems(removeFromSlice(ids, list)) =
             {e \in Elems(list) : \A k \in 1 .. Len(ids) : e.id # ids[k]}
    BY <1>1, RemoveFromSliceGood
  <2> QED BY <1>1, <2>1
<1>3. Kept(q, R) /\ \A l \in Places : Good(R[l])
  BY ListsAreGood DEF Kept
<1>4. \A l \in Places : U[l] = removeFromSlice(ids, R[l])
  <2>1. /\ queues'[q] = removeFromSlice(ids, queues[q])
        /\ processingQueues'[q] = removeFromSlice(ids, processingQueues[q])
        /\ \A t \in LockTypes : lockQueues'[t][q] = removeFromSlice(ids, lockQueues[t][q])
    BY DEF Remove, Inv, Typed
  <2> QED BY <2>1, RowShape, NextRowShape, PlacesShape
<1>5. \A p \in Queue \ {q} : Row(p)' = Row(p)
  BY RowSame DEF Remove, Inv, Typed
<1>6. Typed'
  <2>1. /\ removeFromSlice(ids, queues[q]) \in Lists
        /\ removeFromSlice(ids, processingQueues[q]) \in Lists
        /\ \A t \in LockTypes : removeFromSlice(ids, lockQueues[t][q]) \in Lists
    BY <1>2, ListsAreGood DEF Good
  <2> QED BY <2>1 DEF Remove, Inv, Typed
<1> HIDE DEF D
<1>7. Moved(R, U, D, "active", {})
  BY <1>2, <1>3, <1>4 DEF Moved
<1>8. Fresh(q, R, D, "active", {})
  BY DEF Fresh
<1> QED BY <1>5, <1>6, <1>7, <1>8, PlacesShape DEF Moves, D

\* An empty list is a good one.
LEMMA EmptyGood == Good(<< >>) /\ Elems(<< >>) = {}
<1>1. << >> \in Lists /\ DOMAIN << >> = {}
  BY DEF Lists
<1> QED BY <1>1 DEF Good, Unique, Ordered, Elems

\* Flush takes all messages out of all lists.
LEMMA FlushMoves ==
  ASSUME Inv, Flush
  PROVE  /\ Typed'
         /\ \A q \in Queue : Moved(Row(q), Row(q)', Ids[q], "active", {})
<1>1. Typed'
  BY EmptyGood DEF Flush, Inv, Typed, Good
<1>2. ASSUME NEW q \in Queue PROVE Moved(Row(q), Row(q)', Ids[q], "active", {})
  <2>1. queues'[q] = << >> /\ processingQueues'[q] = << >> /\ \A t \in LockTypes : lockQueues'[t][q] = << >>
    BY DEF Flush
  <2>2. \A l \in Places : Row(q)'[l] = << >>
    BY <2>1, NextRowShape, PlacesShape
  <2>3. \A l \in Places : {e \in Elems(Row(q)[l]) : e.id \notin Ids[q]} = {}
    BY DEF Inv, Kept
  <2> QED BY <2>2, <2>3, EmptyGood DEF Moved
<1> QED BY <1>1, <1>2

\* A list with an entry for each of A, none of which share an id, holds just A.
LEMMA CoversAll ==
  ASSUME NEW list, NEW A, Covers(list, A), \A e, f \in A : e.id = f.id => e = f
  PROVE  Elems(list) = A
BY DEF Covers

\* Insert brings in messages that are nowhere, with scores of the request.
LEMMA InsertMoves ==
  ASSUME Inv, NEW q \in Queue, NEW messages \in Requests(Messages(q)), Insert(q, messages)
  PROVE  \E N : Moves(q, {}, "active", N) /\ \A e \in N : e.score \in Scores
<1> DEFINE R == Row(q)
           U == Row(q)'
           S == {k \in DOMAIN messages : ~isPresentOnAnyPool(q, messages[k].id)}
           a == InsertEach(messages, S, queues[q])
           N == Elems(a) \ Elems(queues[q])
<1>1. Kept(q, R) /\ Good(queues[q])
  BY ListsAreGood
<1>2. PICK n \in Nat : messages \in [1 .. n -> Messages(q)]
  BY InputAssumption DEF Requests
<1>3. \A k \in DOMAIN messages : /\ messages[k] \in Record
                                 /\ messages[k].id \in Ids[q] /\ messages[k].score \in Scores
  <2> TAKE k \in DOMAIN messages
  <2>1. PICK i \in Ids[q], s \in Scores : messages[k] = Entry(i, s)
    BY <1>2 DEF Messages
  <2>2. s \in Int
    BY InputAssumption
  <2> QED BY <2>1, <2>2, EntryShape
<1>4. messages \in Lists
  <2>1. messages \in [1 .. n -> Record]
    BY <1>2, <1>3
  <2> QED BY <2>1, IsAList
<1>5. S \in SUBSET DOMAIN messages
  OBVIOUS
<1>6. \A e \in Picked(messages, S) :
        /\ e.id \in Ids[q] /\ e.score \in Scores
        /\ \A l \in Places : \A f \in Elems(R[l]) : f.id # e.id
  <2>1. ASSUME NEW k \in S, NEW l \in Places, NEW f \in Elems(R[l])
        PROVE  f.id # messages[k].id
    <3>1. ~isPresentOnAnyPool(q, messages[k].id)
      OBVIOUS
    <3>2. /\ \A j \in DOMAIN queues[q] : queues[q][j].id # messages[k].id
          /\ \A j \in DOMAIN processingQueues[q] : processingQueues[q][j].id # messages[k].id
          /\ \A t \in LockTypes :
               \A j \in DOMAIN lockQueues[t][q] : lockQueues[t][q][j].id # messages[k].id
      BY <3>1 DEF isPresentOnAnyPool, Holds
    <3> QED BY <3>2, RowShape, PlacesShape DEF Elems
  <2> QED BY <1>3, <1>5, <2>1 DEF Picked
<1>7. Covers(a, Elems(queues[q]) \cup Picked(messages, S))
  BY <1>1, <1>4, <1>5, InsertEachCovers
<1>8. UNCHANGED <<processingQueues, lockQueues, now>> /\ queues' = [queues EXCEPT ![q] = a]
  BY DEF Insert
<1> HIDE DEF S, a
<1>9. Good(a) /\ Elems(a) = Elems(queues[q]) \cup N /\ N \subseteq Picked(messages, S)
  <2>1. ASSUME NEW e \in Elems(queues[q]) PROVE e \in Elems(a)
    <3>1. PICK f \in Elems(a) : f.id = e.id
      BY <1>7 DEF Covers
    <3>2. f \in Elems(queues[q])
      BY <1>6, <1>7, <3>1, RowShape, PlacesShape DEF Covers
    <3>3. f = e
      BY <1>1, <3>1, <3>2 DEF Good, Unique, Elems
    <3> QED BY <3>1, <3>3
  <2> QED BY <1>7, <2>1 DEF Covers
<1> HIDE DEF N
<1>10. Typed'
  BY <1>8, <1>9 DEF Inv, Typed, Good
<1>11. \A p \in Queue \ {q} : Row(p)' = Row(p)
  BY <1>8, RowSame DEF Inv, Typed
<1>12. U["active"] = a /\ R["active"] = queues[q] /\ \A l \in Places : l # "active" => U[l] = R[l]
  <2>1. queues'[q] = a
    BY <1>8 DEF Inv, Typed
  <2> QED BY <1>8, <2>1, RowShape, NextRowShape, PlacesShape
<1>13. Moved(R, U, {}, "active", N)
  <2>1. \A l \in Places : Good(R[l]) /\ {e \in Elems(R[l]) : e.id \notin {}} = Elems(R[l])
    BY <1>1 DEF Kept
  <2> QED BY <1>9, <1>12, <2>1 DEF Moved
<1>14. Fresh(q, R, {}, "active", N)
  BY <1>6, <1>9, PlacesShape DEF Fresh, Priorities
<1>15. Moves(q, {}, "active", N)
  BY <1>10, <1>11, <1>13, <1>14, PlacesShape DEF Moves
<1> QED BY <1>6, <1>9, <1>15

\* The front of a list and the rest of it.
LEMMA SplitList ==
  ASSUME NEW list, Good(list), NEW m \in 0 .. Len(list)
  PROVE  LET front == SubSeq(list, 1, m)
             rest == SubSeq(list, m + 1, Len(list))
         IN  /\ front \in Lists /\ DOMAIN front = 1 .. m
             /\ \A k \in 1 .. m : front[k] = list[k]
             /\ Good(rest) /\ Elems(rest) = {list[k] : k \in m + 1 .. Len(list)}
<1> DEFINE L == Len(list)
           front == SubSeq(list, 1, m)
           rest == SubSeq(list, m + 1, L)
<1>1. /\ list \in Lists /\ L \in Nat /\ DOMAIN list = 1 .. L
      /\ \A k \in 1 .. L : list[k] \in Record
  BY ListShape DEF Good
<1>2. m \in Nat /\ m <= L
  BY <1>1
<1>3. front \in Lists /\ DOMAIN front = 1 .. m /\ \A k \in 1 .. m : front[k] = list[k]
  <2>1. \A k \in 1 .. m : list[k] \in Record
    BY <1>1, <1>2
  <2>2. /\ front \in Seq(Record) /\ Len(front) = IF 1 <= m THEN m - 1 + 1 ELSE 0
        /\ \A k \in 1 .. m - 1 + 1 : front[k] = list[1 + k - 1]
    BY <1>1, <1>2, <2>1 DEF Lists, Record
  <2> HIDE DEF front
  <2>3. Len(front) = m /\ \A k \in 1 .. m : front[k] = list[k]
    BY <1>2, <2>2
  <2>4. front \in Lists
    BY <2>2 DEF Lists, Record
  <2> QED BY <2>3, <2>4, ListShape
<1>4. rest \in Lists /\ DOMAIN rest = 1 .. L - m /\ \A k \in 1 .. L - m : rest[k] = list[m + k]
  <2>1. \A k \in m + 1 .. L : list[k] \in Record
    BY <1>1, <1>2
  <2>2. /\ rest \in Seq(Record) /\ Len(rest) = IF m + 1 <= L THEN L - (m + 1) + 1 ELSE 0
        /\ \A k \in 1 .. L - (m + 1) + 1 : rest[k] = list[(m + 1) + k - 1]
    BY <1>1, <1>2, <2>1 DEF Lists, Record
  <2> HIDE DEF rest, L
  <2>3. Len(rest) = L - m
    <3>1. L \in Nat /\ Len(rest) = IF m + 1 <= L THEN L - (m + 1) + 1 ELSE 0
      BY <1>1, <2>2
    <3> QED BY <1>2, <3>1
  <2>4. ASSUME NEW k \in 1 .. L - m PROVE rest[k] = list[m + k]
    <3>1. k \in 1 .. L - (m + 1) + 1 /\ (m + 1) + k - 1 = m + k
      BY <1>1, <1>2
    <3> QED BY <2>2, <3>1
  <2>5. rest \in Lists
    BY <2>2 DEF Lists, Record
  <2> QED BY <2>3, <2>4, <2>5, ListShape
<1>5. \A k \in 1 .. L - m : m + k \in 1 .. L /\ m + k \in m + 1 .. L
  BY <1>1, <1>2
<1>6. \A k \in m + 1 .. L : k - m \in 1 .. L - m /\ m + (k - m) = k
  BY <1>1, <1>2
<1>7. \A j, k \in 1 .. L - m : (j < k <=> m + j < m + k) /\ (m + j = m + k => j = k)
  BY <1>1, <1>2
<1> HIDE DEF front, rest, L
<1>8. Unique(rest)
  <2> SUFFICES ASSUME NEW j \in 1 .. L - m, NEW k \in 1 .. L - m, rest[j].id = rest[k].id
               PROVE  j = k
    BY <1>4 DEF Unique
  <2>1. list[m + j].id = list[m + k].id
    BY <1>4
  <2>2. m + j = m + k
    BY <1>1, <1>5, <2>1 DEF Good, Unique
  <2> QED BY <1>7, <2>2
<1>9. Ordered(rest)
  BY <1>1, <1>4, <1>5, <1>7, ZenonT(30) DEF Good, Ordered
<1>10. Elems(rest) = {list[k] : k \in m + 1 .. L}
  <2>1. ASSUME NEW x \in Elems(rest) PROVE x \in {list[k] : k \in m + 1 .. L}
    BY <1>4, <1>5 DEF Elems
  <2>2. ASSUME NEW k \in m + 1 .. L PROVE list[k] \in Elems(rest)
    <3>1. k - m \in DOMAIN rest /\ rest[k - m] = list[k]
      BY <1>4, <1>6
    <3> QED BY <3>1 DEF Elems
  <2> QED BY <2>1, <2>2
<1> QED BY <1>3, <1>4, <1>8, <1>9, <1>10 DEF Good, front, rest, L

\* The entries a pull looks at, and those it hands out.
PullCount(q, n) == IF n < Len(queues[q]) THEN n ELSE Len(queues[q])
Taken(q, n, lo, hi) == {k \in 1 .. PullCount(q, n) : InRange(queues[q][k].score, lo, hi)}

\* PullMessages moves what it hands out to processing, and nothing else.
LEMMA PullMessagesMoves ==
  ASSUME Inv, NEW q \in Queue, NEW n \in PullSizes, NEW lo, NEW hi, NEW d \in AckDeadlines,
         PullMessages(q, n, lo, hi, d)
  PROVE  Moves(q, {queues[q][k].id : k \in Taken(q, n, lo, hi)}, "processing",
               {Entry(queues[q][k].id, Deadline(d)) : k \in Taken(q, n, lo, hi)})
<1> DEFINE R == Row(q)
           U == Row(q)'
           list == queues[q]
           m == PullCount(q, n)
           taken == Taken(q, n, lo, hi)
           front == SubSeq(list, 1, m)
           rest == SubSeq(list, m + 1, Len(list))
           pulled == [k \in 1 .. m |-> Entry(list[k].id, Deadline(d))]
           a == InsertEach(front, (1 .. m) \ taken, rest)
           p == InsertEach(pulled, taken, processingQueues[q])
           D == {list[k].id : k \in taken}
           N == {Entry(list[k].id, Deadline(d)) : k \in taken}
<1>1. /\ Kept(q, R) /\ now \in Int /\ Good(list) /\ Good(processingQueues[q])
  BY ListsAreGood
<1>2. Len(list) \in Nat /\ DOMAIN list = 1 .. Len(list) /\ \A k \in 1 .. Len(list) : list[k] \in Record
  BY <1>1, ListShape DEF Good
<1>3. m \in 0 .. Len(list) /\ m \in Nat /\ \A k \in 1 .. m : k \in 1 .. Len(list)
  BY <1>2, InputAssumption DEF PullCount
<1>4. /\ front \in Lists /\ DOMAIN front = 1 .. m /\ \A k \in 1 .. m : front[k] = list[k]
      /\ Good(rest) /\ Elems(rest) = {list[k] : k \in m + 1 .. Len(list)}
  BY <1>1, <1>3, SplitList, Zenon
<1>5. taken \in SUBSET (1 .. m)
  BY DEF Taken
<1>6. /\ queues' = [queues EXCEPT ![q] = a]
      /\ processingQueues' = [processingQueues EXCEPT ![q] = p]
      /\ UNCHANGED <<lockQueues, now>>
  <2>1. taken = {k \in 1 .. m : InRange(front[k].score, lo, hi)}
    BY <1>4, Zenon DEF Taken
  <2>2. pulled = [k \in 1 .. m |-> Entry(front[k].id, Deadline(d))]
    BY <1>4, Zenon
  <2> QED BY <2>1, <2>2, Zenon DEF PullMessages, PullCount
<1>7. \A k \in 1 .. m : Entry(list[k].id, Deadline(d)) \in Record
  <2>1. Deadline(d) \in Int
    BY <1>1, InputAssumption DEF Deadline, Unix
  <2>2. \A k \in 1 .. m : list[k].id \in Nat
    BY <1>2, <1>3 DEF Record
  <2> QED BY <2>1, <2>2 DEF Entry, Record
<1>8. pulled \in Lists /\ DOMAIN pulled = 1 .. m /\ Picked(pulled, taken) = N
  <2>1. pulled \in [1 .. m -> Record]
    BY <1>7
  <2>2. Picked(pulled, taken) = N
    BY <1>5, Zenon DEF Picked
  <2> HIDE DEF pulled
  <2> QED BY <1>3, <2>1, <2>2, IsAList
<1>9. Covers(a, Elems(rest) \cup Picked(front, (1 .. m) \ taken))
  BY <1>4, InsertEachCovers, Zenon
<1>10. Covers(p, Elems(processingQueues[q]) \cup N)
  <2>1. taken \in SUBSET DOMAIN pulled
    BY <1>5, <1>8
  <2>2. Covers(p, Elems(processingQueues[q]) \cup Picked(pulled, taken))
    BY <1>1, <1>8, <2>1, InsertEachCovers, Zenon
  <2> QED BY <1>8, <2>2, Zenon
<1>11. R["active"] = list /\ R["processing"] = processingQueues[q]
  BY RowShape
<1> HIDE DEF list, m, taken, front, rest, pulled, a, p
<1>12. \A j, k \in 1 .. Len(list) : list[j].id = list[k].id => j = k
  BY <1>1, <1>2 DEF Good, Unique
<1>13. \A k \in 1 .. Len(list) : list[k].id \in D <=> k \in taken
  BY <1>3, <1>5, <1>12
<1>14. Elems(list) = {list[k] : k \in 1 .. Len(list)}
  BY <1>2 DEF Elems
<1>15. Elems(rest) \cup Picked(front, (1 .. m) \ taken) = {e \in Elems(list) : e.id \notin D}
  <2>1. Picked(front, (1 .. m) \ taken) = {list[k] : k \in (1 .. m) \ taken}
    BY <1>4 DEF Picked
  <2>2. (m + 1 .. Len(list)) \cup ((1 .. m) \ taken) = (1 .. Len(list)) \ taken
    BY <1>2, <1>3, <1>5
  <2>3. {e \in Elems(list) : e.id \notin D} = {list[k] : k \in (1 .. Len(list)) \ taken}
    BY <1>13, <1>14
  <2>4. Elems(rest) \cup Picked(front, (1 .. m) \ taken) =
          {list[k] : k \in (m + 1 .. Len(list)) \cup ((1 .. m) \ taken)}
    BY <1>4, <2>1, Zenon
  <2> QED BY <2>2, <2>3, <2>4, Zenon
<1>16. Good(a) /\ Elems(a) = {e \in Elems(list) : e.id \notin D}
  <2>1. \A e, f \in Elems(list) : e.id = f.id => e = f
    BY <1>12, <1>14
  <2>2. Covers(a, {e \in Elems(list) : e.id \notin D})
    BY <1>9, <1>15, Zenon
  <2> HIDE DEF D
  <2> QED BY <2>1, <2>2, CoversAll DEF Covers
<1>17. \A i \in D : \E e \in Elems(R["active"]) : e.id = i
  BY <1>3, <1>5, <1>11, <1>14
<1>18. \A e \in N : e.id \in D
  BY DEF Entry
<1>19. \A e, f \in N : e.id = f.id => e = f
  BY DEF Entry
<1> HIDE DEF D, N
<1>20. Good(p) /\ Elems(p) = Elems(processingQueues[q]) \cup N
  <2>1. \A e \in Elems(processingQueues[q]), f \in N : e.id # f.id
    BY <1>1, <1>11, <1>17, <1>18, PlacesShape DEF Kept
  <2>2. \A e, f \in Elems(processingQueues[q]) : e.id = f.id => e = f
    BY <1>1 DEF Good, Unique, Elems
  <2>3. \A e, f \in Elems(processingQueues[q]) \cup N : e.id = f.id => e = f
    BY <1>19, <2>1, <2>2
  <2> QED BY <1>10, <2>3, CoversAll DEF Covers
<1>21. /\ U["active"] = a /\ U["processing"] = p
       /\ \A t \in LockTypes : U[t] = R[t]
  <2>1. queues'[q] = a /\ processingQueues'[q] = p /\ lockQueues' = lockQueues
    BY <1>6 DEF Inv, Typed
  <2> QED BY <2>1, RowShape, NextRowShape
<1>22. Moved(R, U, D, "processing", N)
  <2> SUFFICES ASSUME NEW l \in Places
               PROVE  /\ Good(U[l])
                      /\ Elems(U[l]) = {e \in Elems(R[l]) : e.id \notin D}
                                         \cup (IF l = "processing" THEN N ELSE {})
    BY DEF Moved
  <2>1. l # "active" => {e \in Elems(R[l]) : e.id \notin D} = Elems(R[l])
    BY <1>1, <1>17, NothingLeaves, PlacesShape
  <2>2. CASE l = "active"
    BY <1>11, <1>16, <1>21, <2>2
  <2>3. CASE l = "processing"
    BY <1>11, <1>20, <1>21, <2>1, <2>3
  <2>4. CASE l \in LockTypes
    <3>1. Good(R[l]) /\ U[l] = R[l] /\ l # "processing" /\ l # "active"
      BY <1>1, <1>21, <2>4, PlacesShape DEF Kept
    <3> QED BY <2>1, <3>1
  <2> QED BY <2>2, <2>3, <2>4, PlacesShape
<1>23. Fresh(q, R, D, "processing", N)
  <2>1. \A e \in N : e.id \in Ids[q]
    BY <1>1, <1>17, <1>18, PlacesShape DEF Kept
  <2> QED BY <1>18, <2>1, PlacesShape DEF Fresh
<1>24. Typed'
  BY <1>6, <1>16, <1>20 DEF Inv, Typed, Good
<1>25. \A r \in Queue \ {q} : Row(r)' = Row(r)
  BY <1>6, RowSame DEF Inv, Typed
<1> QED BY <1>22, <1>23, <1>24, <1>25, PlacesShape DEF Moves, D, N, list, taken

-----------------------------------------------------------------------------
(* The invariants *)

\* NewMemoryCache has empty lists.
LEMMA InitInv == Init => Inv
<1> SUFFICES ASSUME Init PROVE Inv
  OBVIOUS
<1>1. Typed
  BY EmptyGood, InputAssumption DEF Init, Typed, Good
<1>2. ASSUME NEW q \in Queue PROVE Kept(q, Row(q))
  <2>1. \A l \in Places : Row(q)[l] = << >>
    BY RowShape, PlacesShape DEF Init
  <2> QED BY <2>1, EmptyGood DEF Kept
<1> QED BY <1>1, <1>2 DEF Inv

\* Every call of the cache preserves the invariant.
LEMMA NextInv == Inv /\ [Next]_vars => Inv'
<1> SUFFICES ASSUME Inv, [Next]_vars PROVE Inv'
  OBVIOUS
<1>1. ASSUME NEW q \in Queue, NEW messages \in Requests(Messages(q)), Insert(q, messages)
      PROVE  Inv'
  BY <1>1, InsertMoves, MovesInv
<1>2. ASSUME NEW q \in Queue, NEW n \in PullSizes, NEW lo \in Limits, NEW hi \in Limits,
             NEW d \in AckDeadlines, PullMessages(q, n, lo, hi, d)
      PROVE  Inv'
  BY <1>2, PullMessagesMoves, MovesInv, Zenon
<1>3. ASSUME NEW q \in Queue, NEW i \in Ids[q], NEW s \in Scores, MakeAvailable(q, i, s)
      PROVE  Inv'
  BY <1>3, MakeAvailableMoves, MovesInv, Zenon
<1>4. ASSUME NEW q \in Queue, NEW i \in Ids[q], NEW t \in LockTypes, NEW ms \in LockTimes,
             NEW s \in LockScores, LockMessage(q, i, t, ms, s)
      PROVE  Inv'
  BY <1>4, LockMessageMoves, MovesInv, ZenonT(30)
<1>5. ASSUME NEW q \in Queue, TimeoutMessages(q) PROVE Inv'
  BY <1>5, TimeoutMessagesMoves, MovesInv, Zenon
<1>6. ASSUME NEW q \in Queue, NEW ids \in Requests(Ids[q]), Remove(q, ids) PROVE Inv'
  BY <1>6, RemoveMoves, MovesInv, Zenon
<1>7. ASSUME NEW t \in LockTypes, UnlockMessages(t) PROVE Inv'
  <2>1. /\ Typed'
        /\ \A q \in Queue : Row(q)' = Row(q) \/ \E e : Unlocks(q, t, e)
    BY <1>7, UnlockMessagesMoves
  <2>2. ASSUME NEW q \in Queue PROVE Kept(q, Row(q)')
    BY <2>1, MovesKeep, PlacesShape, Zenon DEF Unlocks, Inv
  <2> QED BY <2>1, <2>2 DEF Inv, Kept
<1>8. ASSUME Flush PROVE Inv'
  <2>1. Typed' /\ \A q \in Queue : Moved(Row(q), Row(q)', Ids[q], "active", {})
    BY <1>8, FlushMoves
  <2>2. ASSUME NEW q \in Queue PROVE Kept(q, Row(q)')
    BY <2>1, MovesKeep, PlacesShape DEF Fresh, Inv
  <2> QED BY <2>1, <2>2 DEF Inv, Kept
<1>9. ASSUME UNCHANGED lists, now' \in 0 .. MaxNow PROVE Inv'
  <2>1. Typed'
    BY <1>9 DEF Inv, Typed, lists
  <2>2. \A q \in Queue : Row(q)' = Row(q)
    BY <1>9, RowSame DEF lists
  <2> QED BY <2>1, <2>2 DEF Inv, Kept
<1>10. CASE Tick
  BY <1>9, <1>10, InputAssumption DEF Tick, Inv, Typed
<1>11. CASE UNCHANGED vars
  BY <1>9, <1>11 DEF vars, lists, Inv, Typed
<1>12. CASE Next
  <2>1. CASE \E q \in Queue : \E messages \in Requests(Messages(q)) : Insert(q, messages)
    BY <1>1, <2>1
  <2>2. CASE \E q \in Queue, n \in PullSizes, lo, hi \in Limits, d \in AckDeadlines :
               PullMessages(q, n, lo, hi, d)
    BY <1>2, <2>2
  <2>3. CASE \E q \in Queue : \E i \in Ids[q], s \in Scores : MakeAvailable(q, i, s)
    BY <1>3, <2>3
  <2>4. CASE \E q \in Queue : \E i \in Ids[q], t \in LockTypes, ms \in LockTimes,
                                 s \in LockScores : LockMessage(q, i, t, ms, s)
    BY <1>4, <2>4
  <2>5. CASE \E q \in Queue : TimeoutMessages(q)
    BY <1>5, <2>5
  <2>6. CASE \E q \in Queue : \E ids \in Requests(Ids[q]) : Remove(q, ids)
    BY <1>6, <2>6
  <2> QED BY <1>7, <1>8, <1>10, <1>12, <2>1, <2>2, <2>3, <2>4, <2>5, <2>6, Zenon DEF Next
<1> QED BY <1>11, <1>12

\* The invariant holds throughout.
LEMMA SpecInv == Spec => []Inv
BY InitInv, NextInv, PTL DEF Spec

\* Whatever the calls, the lists hold entries of their queue, and no message
\* becomes available with the Undefined score of a lock that asked for none.
THEOREM MemoryCacheTypes == Spec => []TypeOK
BY SpecInv, InvIsChecked, PTL

\* A message is at most once in the lists of its queue, for requests of any
\* length that may name it twice.
THEOREM MessageOnce == Spec => []EachMessageOnce
BY SpecInv, InvIsChecked, PTL

\* Insertions, pulls that put filtered entries back, returns, locks and unlocks
\* keep every list in the order of its scores.
THEOREM ListsSorted == Spec => []Sorted
BY SpecInv, InvIsChecked, PTL
=============================================================================
