--------------------------- MODULE MCMemoryInstance ---------------------------
(* The memory instance with a few requests of each kind. *)
EXTENDS MemoryInstance, TLC

Msg(i, ttl, timeless, s) == [id |-> i, ttl |-> ttl, timeless |-> timeless, score |-> s]
Ans(kind, s, subtract, lockMs, remove) ==
  [kind |-> kind, score |-> s, scoreSubtract |-> subtract, lockMs |-> lockMs,
   remove |-> remove]

(* A message that expires, a timeless one with a high score, one with a low *)
(* score followed by an invalid message, and one named twice, expired before *)
(* it is added and then given a long life.                                   *)
MCRequests ==
  {<<Msg(i, 0, FALSE, 0)>> : i \in Id} \cup {<<Msg(i, 0, TRUE, 5)>> : i \in Id}
    \cup {<<Msg(i, 0, FALSE, -5), Msg(NoId, 0, FALSE, 0)>> : i \in Id}
    \cup {<<Msg(i, -1, FALSE, 1), Msg(i, 0, TRUE, 5)>> : i \in Id}

(* Without filters, and with both. *)
MCPulls == {[minScore |-> 0, maxScore |-> 0, scoreFilter |-> 0],
            [minScore |-> 1, maxScore |-> 0, scoreFilter |-> 1]}

(* Without a lock, with one, and with one before a removal; and one that has *)
(* a score beyond the maximum.                                              *)
MCAnswers == {Ans("ack", 0, 9, 0, FALSE), Ans("ack", 0, 0, 1, FALSE),
              Ans("nack", 0, 0, 1, TRUE)}
MCAnswersBeyond == {Ans("nack", 7, 0, 0, FALSE)}

Symmetry == Permutations(Caller)
=============================================================================
