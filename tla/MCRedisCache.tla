---------------------------- MODULE MCRedisCache ----------------------------
(***************************************************************************)
(* RedisCache for TLC: the inputs that are not plain sets of numbers.      *)
(***************************************************************************)
EXTENDS RedisCache

\* The score Undefined (-1) makes the lock script keep no score.
MCLockScores == {-1, 1}
\* The default, a deadline that passes, and one that may be before 0.
MCAckDeadlines == {-1, 0, 1}
\* No filter, and a filter that splits the scores in use.
MCLimits == {<<>>, <<1>>}
=============================================================================
