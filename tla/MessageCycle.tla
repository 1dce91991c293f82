---------------------------- MODULE MessageCycle ----------------------------
(***************************************************************************)
(* What the cache promises for one queue: every message occupies exactly   *)
(* one place of a cycle,                                                   *)
(*                                                                         *)
(*     none -> active -> processing -> active | lock_ack | lock_nack       *)
(*                                     lock_ack | lock_nack -> active      *)
(*                                                                         *)
(* and carries the key by which that place orders it.  The key is the      *)
(* priority score in the active place, the acknowledgement deadline in the *)
(* processing place and the end of the lock in a locked place.  A locked   *)
(* message also carries the score it returns with.                         *)
(*                                                                         *)
(* The two implementations of the Cache interface, RedisCache and          *)
(* MemoryCache, are shown to keep this promise, the first with deadlines   *)
(* that are exact and the second with deadlines that may be late.  In one  *)
(* point the promise is not what a comment of the interface (cache.go:50)  *)
(* says: "Elements already in cache should have its score updated."        *)
(* Neither updates it, and the test                                        *)
(* TestInsertSameObjectTwiceShouldNotUpdateScore wants it so.              *)
(***************************************************************************)
EXTENDS Integers

CONSTANTS
  Id,          \* message ids; the order of numbers stands for the order of strings
  Scores,      \* scores a request may carry
  LockScores,  \* scores a lock request may carry, Undefined among them
  AckDeadlines,\* acknowledgement deadlines a pull may ask for
  Punctual,    \* whether the deadline is the one asked for, or may be a later one
  LockTimes,   \* lock durations an ack or a nack may ask for
  Limits,      \* score filters of a pull: << >> for none, <<s>> for the bound s
  MaxNow       \* bound on the clock

VARIABLES cell, now

Min == 0
Undefined == -1

LockTypes == {"lock_ack", "lock_nack"}

Cell == [at : {"none", "active", "processing"} \cup LockTypes, key : Int, ret : Int]

None == [at |-> "none", key |-> 0, ret |-> Undefined]
Active(s) == [at |-> "active", key |-> s, ret |-> Undefined]
Processing(d) == [at |-> "processing", key |-> d, ret |-> Undefined]
Locked(t, u, s) == [at |-> t, key |-> u, ret |-> s]

At(place) == {i \in Id : cell[i].at = place}

vars == <<cell, now>>

Init == cell = [i \in Id |-> None] /\ now = 0

\* The messages of S move to the cells that to gives them.
Move(S, to) == cell' = [i \in Id |-> IF i \in S THEN to[i] ELSE cell[i]]

\* A message that is nowhere becomes active; one that is somewhere stays as it is.
Insert(req) ==
  /\ Move(DOMAIN req \cap At("none"), [i \in DOMAIN req |-> Active(req[i])])
  /\ UNCHANGED now

InRange(s, lo, hi) == (lo # << >> => lo[1] <= s) /\ (hi # << >> => s <= hi[1])

\* Messages are handed out in the order of their scores within the filter, for
\* the time d that was asked for, or at least for no less if d is a time at all.
Pull(S, lo, hi, d) ==
  /\ S \subseteq {i \in At("active") : InRange(cell[i].key, lo, hi)}
  /\ \A i \in S : \A j \in At("active") \ S :
       InRange(cell[j].key, lo, hi) => cell[i].key <= cell[j].key
  /\ cell' = [i \in Id |-> IF i \in S THEN cell'[i] ELSE cell[i]]
  /\ \A i \in S : /\ cell'[i] = Processing(cell'[i].key)
                  /\ IF Punctual THEN cell'[i].key = now + d
                                 ELSE d > 0 => now + d <= cell'[i].key
  /\ UNCHANGED now

\* A message in processing is acknowledged, or given back, with a new score.
Return(i, s) ==
  /\ i \in At("processing")
  /\ Move({i}, [j \in {i} |-> Active(s)])
  /\ UNCHANGED now

Lock(i, t, ms, s) ==
  /\ i \in At("processing")
  /\ Move({i}, [j \in {i} |-> Locked(t, now + ms, s)])
  /\ UNCHANGED now

\* A lock ends only when its time has come, and the message returns with the
\* score it was locked with, or with the default of the lock type.
DefaultScore(t) == IF t = "lock_ack" THEN now ELSE Min
Unlock(S, t) ==
  /\ S \subseteq {i \in At(t) : cell[i].key <= now}
  /\ Move(S, [i \in S |->
        Active(IF cell[i].ret = Undefined THEN DefaultScore(t) ELSE cell[i].ret)])
  /\ UNCHANGED now

\* An unacknowledged message returns first in line, never before its deadline.
Timeout(S) ==
  /\ S \subseteq {i \in At("processing") : cell[i].key <= now}
  /\ Move(S, [i \in S |-> Active(Min)])
  /\ UNCHANGED now

Remove(S) == Move(S, [i \in S |-> None]) /\ UNCHANGED now

Tick == now < MaxNow /\ now' = now + 1 /\ UNCHANGED cell

Next ==
  \/ \E S \in SUBSET Id : \E req \in [S -> Scores] : Insert(req)
  \/ \E i \in Id, s \in Scores : Return(i, s)
  \/ \E i \in Id, t \in LockTypes, ms \in LockTimes, s \in LockScores : Lock(i, t, ms, s)
  \/ \E S \in SUBSET Id, t \in LockTypes : Unlock(S, t)
  \/ \E S \in SUBSET Id : Timeout(S)
  \/ \E S \in SUBSET Id : Remove(S)
  \/ Tick
  \/ \E S \in SUBSET Id, lo, hi \in Limits, d \in AckDeadlines : Pull(S, lo, hi, d)

Spec == Init /\ [][Next]_vars
=============================================================================
