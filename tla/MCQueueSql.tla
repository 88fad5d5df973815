----------------------------- MODULE MCQueueSql -----------------------------
(* A worker without a filter and one that polls for topic t1 of tenant b.  *)
EXTENDS QueueSql, TLC

CONSTANTS w1, w2, t1, t2, a, b

MCPoll == (w1 :> [topic |-> None, tenant |-> None])
       @@ (w2 :> [topic |-> t1, tenant |-> b])
=============================================================================
