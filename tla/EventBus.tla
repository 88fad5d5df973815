------------------------------ MODULE EventBus ------------------------------
(***************************************************************************)
(* deye.backend.events.EventBus on top of the job queue: dispatch()        *)
(* enqueues a job, runs the topic's subscribers one after the other in the *)
(* caller's thread, and completes the job.  Until then the job is pending, *)
(* so a worker that polls the same queue (JobQueue's Claim and Complete)   *)
(* may take it meanwhile.  The queue operations are atomic here: QueueSql  *)
(* shows that they are.                                                    *)
(***************************************************************************)
EXTENDS JobQueue, Sequences, SequencesExt

CONSTANTS
    Dispatchers,    \* threads that call dispatch()
    Handlers,       \* subscriber callables
    Raising,        \* the handlers that may raise
    Nameless        \* callables without __name__ (functools.partial, objects)

ASSUME BusAssumption == Raising \cup Nameless \subseteq Handlers

VARIABLES
    subscribers,    \* subscribers[topic]: its handlers, in subscription order
    call,           \* call[d]: the dispatch thread d is in
    audience,       \* history: the handlers snapshotted for each job
    log             \* history: the calls made for each job, in order

busVars == <<jobs, nextId, held, orphans, subscribers, call, audience, log>>
queueVars == <<jobs, nextId, held, orphans>>

Outcome == [handler : Handlers, ok : BOOLEAN]
NoCall == [pc |-> "idle", job |-> 0, topic |-> None, todo |-> <<>>, errors |-> 0]
Call == [pc : {"enqueued", "running"}, job : Ids, topic : Topics,
         todo : Seq(Handlers), errors : Nat]

BusTypeOK ==
    /\ TypeOK
    /\ subscribers \in [Topics -> Seq(Handlers)]
    /\ call \in [Dispatchers -> Call \cup {NoCall}]
    /\ audience \in [Ids -> Seq(Handlers)]
    /\ log \in [Ids -> Seq(Outcome)]

BusInit ==
    /\ Init
    /\ subscribers = [tp \in Topics |-> <<>>]
    /\ call = [d \in Dispatchers |-> NoCall]
    /\ audience = [i \in Ids |-> <<>>]
    /\ log = [i \in Ids |-> <<>>]

(* Faulty variant: a handler that subscribes again is appended again.      *)
SubscribeAgain(tp, h) ==
    /\ Len(subscribers[tp]) < Cardinality(Handlers)
    /\ subscribers' = [subscribers EXCEPT ![tp] = Append(@, h)]
    /\ UNCHANGED <<queueVars, call, audience, log>>

(* Subscribing a handler that is there changes nothing.                    *)
Subscribe(tp, h) ==
    /\ ~ Contains(subscribers[tp], h)
    /\ subscribers' = [subscribers EXCEPT ![tp] = Append(@, h)]
    /\ UNCHANGED <<queueVars, call, audience, log>>

Unsubscribe(tp, h) ==
    /\ \E k \in DOMAIN subscribers[tp] :
        /\ subscribers[tp][k] = h
        /\ subscribers' = [subscribers EXCEPT ![tp] = RemoveAt(@, k)]
    /\ UNCHANGED <<queueVars, call, audience, log>>

(* Faulty variant: the job is stored in flight, so that no worker takes it *)
(* while the handlers run.                                                 *)
DispatchInFlight(d, tp, tn) ==
    /\ call[d] = NoCall
    /\ nextId \in Ids
    /\ jobs' = [jobs EXCEPT ![nextId] = [Inserted(tp, tn) EXCEPT !.status = "in_flight"]]
    /\ nextId' = nextId + 1
    /\ call' = [call EXCEPT ![d] = [NoCall EXCEPT !.pc = "enqueued", !.job = nextId, !.topic = tp]]
    /\ UNCHANGED <<held, orphans, subscribers, audience, log>>

(* dispatch() starts: queue.enqueue(...)                                   *)
Dispatch(d, tp, tn) ==
    /\ call[d] = NoCall
    /\ Enqueue(tp, tn)
    /\ call' = [call EXCEPT ![d] = [pc |-> "enqueued", job |-> nextId, topic |-> tp,
                                    todo |-> <<>>, errors |-> 0]]
    /\ UNCHANGED <<subscribers, audience, log>>

(* The loop runs over a copy of the subscriber list, taken here.           *)
Snapshot(d) ==
    /\ call[d].pc = "enqueued"
    /\ call' = [call EXCEPT ![d].pc = "running", ![d].todo = subscribers[call[d].topic]]
    /\ audience' = [audience EXCEPT ![call[d].job] = subscribers[call[d].topic]]
    /\ UNCHANGED <<queueVars, subscribers, log>>

Logged(d, ok) ==
    [log EXCEPT ![call[d].job] = Append(@, [handler |-> Head(call[d].todo), ok |-> ok])]

HandlerReturns(d) ==
    /\ call[d].pc = "running" /\ call[d].todo # <<>>
    /\ call' = [call EXCEPT ![d].todo = Tail(@)]
    /\ log' = Logged(d, TRUE)
    /\ UNCHANGED <<queueVars, subscribers, audience>>

(* Faulty variant: the next handler's run starts with a clean error list.  *)
HandlerRaisesForgotten(d) ==
    /\ call[d].pc = "running" /\ call[d].todo # <<>>
    /\ Head(call[d].todo) \in Raising \ Nameless
    /\ call' = [call EXCEPT ![d].todo = Tail(@),
                            ![d].errors = IF Len(call[d].todo) > 1 THEN 0 ELSE 1]
    /\ log' = Logged(d, FALSE)
    /\ UNCHANGED <<queueVars, subscribers, audience>>

(* The exception is recorded and the loop goes on ...                      *)
HandlerRaises(d) ==
    /\ call[d].pc = "running" /\ call[d].todo # <<>>
    /\ Head(call[d].todo) \in Raising \ Nameless
    /\ call' = [call EXCEPT ![d].todo = Tail(@), ![d].errors = @ + 1]
    /\ log' = Logged(d, FALSE)
    /\ UNCHANGED <<queueVars, subscribers, audience>>

(* ... unless formatting the record fails: handler.__name__ raises         *)
(* AttributeError inside the except clause, which leaves dispatch().       *)
RecordingFails(d) ==
    /\ call[d].pc = "running" /\ call[d].todo # <<>>
    /\ Head(call[d].todo) \in Raising \cap Nameless
    /\ call' = [call EXCEPT ![d] = NoCall]
    /\ log' = Logged(d, FALSE)
    /\ UNCHANGED <<queueVars, subscribers, audience>>

(* queue.complete(job_id, error=...): the job's status is not looked at.   *)
Finish(d) ==
    /\ call[d].pc = "running" /\ call[d].todo = <<>>
    /\ jobs' = [jobs EXCEPT ![call[d].job] =
                    Settled(@, IF call[d].errors > 0 THEN "failed" ELSE "done")]
    /\ call' = [call EXCEPT ![d] = NoCall]
    /\ UNCHANGED <<nextId, held, orphans, subscribers, audience, log>>

(* The dispatching process dies in the middle of it.                       *)
DispatcherCrash(d) ==
    /\ call[d] # NoCall
    /\ call' = [call EXCEPT ![d] = NoCall]
    /\ UNCHANGED <<queueVars, subscribers, audience, log>>

DispatchStep(d) ==
    Snapshot(d) \/ HandlerReturns(d) \/ HandlerRaises(d) \/ RecordingFails(d) \/ Finish(d)

WorkerStep(w) ==
    /\ Claim(w) \/ (\E st \in {"done", "failed"} : Complete(w, st))
    /\ UNCHANGED <<subscribers, call, audience, log>>

WorkerCrash(w) ==
    /\ Crash(w)
    /\ UNCHANGED <<subscribers, call, audience, log>>

TenantDeleted(tn) ==
    /\ DeleteTenant(tn)
    /\ UNCHANGED <<subscribers, call, audience, log>>

BusNext ==
    \/ \E tp \in Topics, h \in Handlers : Subscribe(tp, h) \/ Unsubscribe(tp, h)
    \/ \E d \in Dispatchers, tp \in Topics, tn \in Tenants : Dispatch(d, tp, tn)
    \/ \E d \in Dispatchers : DispatchStep(d) \/ DispatcherCrash(d)
    \/ \E w \in Workers : WorkerStep(w) \/ WorkerCrash(w)
    \/ \E tn \in Tenants : TenantDeleted(tn)

BusSpec == BusInit /\ [][BusNext]_busVars

(* A live thread goes on with its dispatch, a live worker keeps polling.   *)
FairBusSpec ==
    /\ BusSpec
    /\ \A d \in Dispatchers : WF_busVars(DispatchStep(d))
    /\ \A w \in Workers : WF_busVars(WorkerStep(w))

(* The same bus in processes that do not die.                              *)
NoCrashNext ==
    \/ \E tp \in Topics, h \in Handlers : Subscribe(tp, h) \/ Unsubscribe(tp, h)
    \/ \E d \in Dispatchers, tp \in Topics, tn \in Tenants : Dispatch(d, tp, tn)
    \/ \E d \in Dispatchers : DispatchStep(d)
    \/ \E w \in Workers : WorkerStep(w)

NoCrashSpec == BusInit /\ [][NoCrashNext]_busVars
-----------------------------------------------------------------------------
(* A job no worker ever claimed is done only if every subscriber of its    *)
(* snapshot ran and returned, and failed only if all ran and one raised    *)
(* (dispatch, events.py: complete() comes after the loop).                 *)
VerdictEarned ==
    \A i \in Ids :
        (jobs[i].status \in {"done", "failed"} /\ jobs[i].attempts = 0) =>
            /\ Len(log[i]) = Len(audience[i])
            /\ \A k \in DOMAIN log[i] : log[i][k].handler = audience[i][k]
            /\ jobs[i].status = "failed" <=> \E k \in DOMAIN log[i] : ~ log[i][k].ok

(* A dispatch calls no handler twice, even when handlers subscribe and     *)
(* unsubscribe while it runs ("idempotent by identity").                   *)
CalledOnce ==
    \A i \in Ids : \A k, m \in DOMAIN log[i] :
        log[i][k].handler = log[i][m].handler => k = m

(* An event is not lost when its dispatch dies or is aborted: the job is   *)
(* still in the queue and a worker settles it in the end, unless that      *)
(* worker dies with it or the tenant is deleted.                           *)
EventSettles ==
    \A i \in Ids :
        jobs[i].status \in {"pending", "in_flight"} ~>
            (jobs[i].status \in {"absent", "done", "failed"} \/ i \in orphans)

(* "record + continue" (events.py:50): an exception of one handler does    *)
(* not keep the others from running, so a dispatch ends with none left.    *)
RecordAndContinue ==
    [][\A d \in Dispatchers :
          call[d].pc = "running" /\ call'[d].pc = "idle" => call[d].todo = <<>>]_busVars

(* "Every dispatch also persists a queue job so a downstream async worker  *)
(* can re-play" (events.py:25): when a dispatch returns, a worker has had  *)
(* the job or can still claim it.                                          *)
WorkerCanReplay ==
    [][\A d \in Dispatchers :
          (call[d].pc = "running" /\ call'[d].pc = "idle") =>
              LET r == jobs'[call[d].job] IN r.status = "pending" \/ r.attempts > 0]_busVars
=============================================================================
