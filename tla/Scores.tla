-------------------------------- MODULE Scores --------------------------------
(***************************************************************************)
(* The scores the service computes for the requests it gets.  A score is a *)
(* float64 in the code; no more than the order of scores and the two       *)
(* bounds matter here, so that integers do.  In a request 0 means that the *)
(* score is not set.                                                       *)
(***************************************************************************)
EXTENDS Integers

CONSTANT MaxScore \* score.Max, 2^53 in the code

ASSUME MaxScoreAssumption == MaxScore \in Nat \ {0}

MinScore == 0
Undefined == -1

InBounds(s) == MinScore <= s /\ s <= MaxScore

\* Mistake: the lower bound is forgotten.
SlipCapped(s) == IF s > MaxScore THEN MaxScore ELSE s

Capped(s) == IF s < MinScore THEN MinScore ELSE IF s > MaxScore THEN MaxScore ELSE s

\* The filters of a pull, << >> for the nil pointer.
GetPullMaxScore(s) == IF s = 0 THEN << >> ELSE <<Capped(s)>>

GetPullMinScore(s) == IF s = 0 THEN << >> ELSE <<Capped(s)>>

\* The deprecated ScoreFilter, in milliseconds before now, stands in for a
\* MaxScore that is not set.
PullMaxScore(maxScore, scoreFilter, now) ==
  GetPullMaxScore(IF maxScore = 0 /\ scoreFilter > 0 THEN now - scoreFilter ELSE maxScore)

GetAddScore(s, now) == IF s = 0 THEN now ELSE Capped(s)

\* What an Ack or a Nack stores, and returns the message with.  A score that is
\* set is used as it is; without one, the score of a message to be locked is
\* left to the unlock.
AckScore(s, scoreSubtract, lockMs, now) ==
  IF s # 0 THEN s ELSE IF lockMs = 0 THEN Capped(now - scoreSubtract) ELSE Undefined

NackScore(s, lockMs) ==
  IF s # 0 THEN s ELSE IF lockMs = 0 THEN MinScore ELSE Undefined

\* What an unlocked message returns with.
UnlockScore(s, kind, now) ==
  IF s # Undefined THEN s ELSE IF kind = "ack" THEN now ELSE MinScore
=============================================================================
