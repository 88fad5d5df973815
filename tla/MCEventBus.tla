----------------------------- MODULE MCEventBus -----------------------------
(* Two dispatching threads and one worker that polls for everything.       *)
EXTENDS EventBus

CONSTANTS w, d1, d2, h1, h2, t, a

MCPoll == [x \in {w} |-> [topic |-> None, tenant |-> None]]
=============================================================================
