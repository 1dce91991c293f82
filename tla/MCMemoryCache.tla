---------------------------- MODULE MCMemoryCache ----------------------------
(* The memory cache with a queue of two messages beside one of one message. *)
EXTENDS MemoryCache

MCQueue == {"orders", "mails"}
MCIds == [q \in MCQueue |-> IF q = "orders" THEN {1, 2} ELSE {1}]
MCLockScores == {-1, 5}
MCAckDeadlines == {-1, 0, 2}
\* Scores that are no deadline, so that an entry cannot keep its deadline as score
\* unnoticed; no filter, and a filter that splits the scores in use.
MCLimits == {<<>>, <<5>>}
=============================================================================
