------------------------------ MODULE BrokerQueue ------------------------------
(***************************************************************************)
(* RabbitMQMessageQueue (autocrud/message_queue/rabbitmq.py, basic.py):    *)
(* the job is a resource and the broker holds messages that name it.  In   *)
(* each instance an I/O thread receives a message (prefetch 1), marks the  *)
(* job PROCESSING and starts a worker thread.  The worker cannot use the   *)
(* channel: it leaves callbacks (ack, nack, publish and ack) for the I/O   *)
(* thread, and may go on working after it has left one.                    *)
(*                                                                         *)
(* A get() followed at once by create_or_update() on the same job is one   *)
(* step (JobQueue opens these, with the heartbeats); job.retries, which    *)
(* this queue writes and never reads, is left out.  The broker delivers in *)
(* any order.                                                              *)
(***************************************************************************)
EXTENDS Naturals, Sequences, FiniteSets, Bags

CONSTANTS
    Job,         \* job resources
    Instance,    \* running copies of the program
    Periodic,    \* jobs with a periodic_interval_seconds
    Delayed,     \* jobs with a periodic_initial_delay_seconds
    MaxRuns,     \* periodic_max_runs
    MaxRetries,  \* the queue's max_retries
    JobRetries,  \* JobRetries[j]: the effective max_retries of the job
    Outcome,     \* what handlers do: subset of {"ok","stop","delay","error","noretry","abort"}
    MaxThreads,  \* bound: worker threads alive at a time
    MaxFaults,   \* bound: crashes, lost connections, failing publishes, stops
    MaxRequests, \* bound: reruns and soft deletes
    None

ASSUME BrokerQueueAssumption ==
    /\ Periodic \subseteq Job /\ Delayed \subseteq Job
    /\ MaxRuns \in Nat \ {0} /\ MaxRetries \in Nat /\ JobRetries \in [Job -> Nat]
    /\ Outcome \subseteq {"ok", "stop", "delay", "error", "noretry", "abort"}
    /\ MaxThreads \in Nat /\ MaxFaults \in Nat /\ MaxRequests \in Nat
    /\ None \notin Job \cup Instance

Thread == 1..MaxThreads

VARIABLES
    job,        \* job[j]: status and periodic_runs of the resource, or None
    deleted,    \* the soft-deleted jobs
    request,    \* jobs that an HTTP request has saved and is about to put()
    queue,      \* the broker: a bag of messages
    consumer,   \* consumer[i]: start_consume
    unacked,    \* unacked[i]: the worker of the delivery that is not acknowledged
    callbacks,  \* callbacks[i]: what add_callback_threadsafe left for the I/O thread
    worker,     \* worker[t]: a worker thread
    failures,   \* failures[j]: of the handler, since the job was enqueued (history)
    torn,       \* jobs saved without the message that belongs to them (history)
    again,      \* jobs that were enqueued a second time (history)
    faults, requests

store == <<job, deleted>>
client == <<request, requests>>
history == <<failures, torn, again>>
vars == <<store, client, queue, consumer, unacked, callbacks, worker, history, faults>>

Data == [status: {"pending", "processing", "completed", "failed"}, runs: Nat]

\* a delivery that is not acknowledged, and the thread that works on it
Delivery == [job: Job, count: Nat, by: Thread]

\* what a worker thread leaves: an ack, a nack, or a message to be sent on before
\* the ack
Settlement == [kind: {"ack", "nack", "settle"}, by: Thread, job: Job, count: Nat, final: BOOLEAN]

ASSUME NoneAssumption == None \notin Data \cup Delivery

\* at: the main queue, the two kinds of queues with a time to live, or the
\* dead letter queue
Message == [job: Job, count: Nat, at: {"main", "retry", "periodic", "dead"}]

\* a worker thread: the step it is at, its delivery, the periodic_runs that
\* complete() returned, how the handler ended, and whether the channel of the
\* delivery still exists
Idle == [at |-> "idle", inst |-> None, job |-> None, count |-> 0, runs |-> 0,
         out |-> None, open |-> FALSE]

Working == [at: {"run", "complete", "periodic", "schedule", "delay", "delaying", "failing", "nack"},
            inst: Instance, job: Job, count: Nat, runs: Nat, out: Outcome \cup {"error", None},
            open: BOOLEAN]

TypeOK ==
    /\ job \in [Job -> Data \cup {None}]
    /\ deleted \subseteq Job /\ request \subseteq Job
    /\ IsABag(queue) /\ BagToSet(queue) \subseteq Message
    /\ consumer \in [Instance -> {"down", "on", "stopping"}]
    /\ unacked \in [Instance -> Delivery \cup {None}]
    /\ callbacks \in [Instance -> Seq(Settlement)]
    /\ \A i \in Instance : consumer[i] = "down" => unacked[i] = None /\ callbacks[i] = <<>>
    /\ worker \in [Thread -> Working \cup {Idle}]
    /\ failures \in [Job -> Nat] /\ torn \subseteq Job /\ again \subseteq Job
    /\ faults \in 0..MaxFaults /\ requests \in 0..MaxRequests

-----------------------------------------------------------------------------
(* The resources and the broker *)

\* rm.get and rm.create_or_update succeed; on a soft-deleted job they raise
Readable(j) == job[j] # None /\ j \notin deleted

Save(j, status, runs) ==
    job' = [job EXCEPT ![j] = [status |-> status, runs |-> runs]]

Msg(j, count, at) == SetToBag({[job |-> j, count |-> count, at |-> at]})

Publish(m) == queue' = queue (+) m

\* messages of the job that will be delivered
Waiting(j) == {m \in BagToSet(queue) : m.job = j /\ m.at # "dead"}

\* _send_to_retry_or_dead
Resend_Again(j, count, final, limit) ==
    IF ~final /\ count < limit THEN Msg(j, count, "retry") ELSE Msg(j, count, "dead")

Resend(j, count, final, limit) ==
    IF ~final /\ count < limit THEN Msg(j, count + 1, "retry") ELSE Msg(j, count, "dead")

\* the time to live ends: the broker moves the message to the main queue
Expire(m) ==
    /\ m.at \in {"retry", "periodic"}
    /\ queue' = (queue (-) SetToBag({m})) (+) Msg(m.job, m.count, "main")
    /\ UNCHANGED <<store, client, consumer, unacked, callbacks, worker, history, faults>>

-----------------------------------------------------------------------------
(* Requests *)

\* rm.create; put() follows
Create(j) ==
    /\ job[j] = None
    /\ Save(j, "pending", 0)
    /\ request' = request \cup {j}
    /\ UNCHANGED <<deleted, requests, queue, consumer, unacked, callbacks, worker,
                   history, faults>>

\* put()
Put(j) ==
    /\ j \in request
    /\ request' = request \ {j}
    /\ IF Readable(j)
       THEN /\ Publish(Msg(j, 0, IF j \in Delayed /\ job[j].runs = 0
                                 THEN "periodic" ELSE "main"))
            /\ failures' = [failures EXCEPT ![j] = 0]
            /\ UNCHANGED torn
       ELSE UNCHANGED <<queue, failures>> /\ torn' = torn \cup {j}
    /\ UNCHANGED <<store, requests, consumer, unacked, callbacks, worker, again, faults>>

\* the process dies before put(), or put() finds no broker
PutFails(j) ==
    /\ j \in request /\ faults < MaxFaults
    /\ faults' = faults + 1
    /\ request' = request \ {j}
    /\ torn' = torn \cup {j}
    /\ UNCHANGED <<store, requests, queue, consumer, unacked, callbacks, worker,
                   failures, again>>

\* the job is waiting, with a worker, not acknowledged, or about to be sent on
Carried(j) ==
    \/ Waiting(j) # {}
    \/ \E t \in Thread : worker[t].job = j
    \/ \E i \in Instance :
        \/ unacked[i] # None /\ unacked[i].job = j
        \/ \E n \in 1..Len(callbacks[i]) :
              callbacks[i][n].kind = "settle" /\ callbacks[i][n].job = j

\* the rerun route, which looks at the status only: a job that failed may have
\* a message in the retry queue, a periodic one in its delay queue
Rerun(j) ==
    /\ Readable(j) /\ job[j].status \in {"completed", "failed"}
    /\ j \notin request
    /\ requests < MaxRequests
    /\ requests' = requests + 1
    /\ Save(j, "pending", job[j].runs)
    /\ request' = request \cup {j}
    /\ again' = IF Carried(j) THEN again \cup {j} ELSE again
    /\ UNCHANGED <<deleted, queue, consumer, unacked, callbacks, worker,
                   failures, torn, faults>>

Delete(j) ==
    /\ Readable(j) /\ requests < MaxRequests
    /\ deleted' = deleted \cup {j}
    /\ requests' = requests + 1
    /\ UNCHANGED <<job, request, queue, consumer, unacked, callbacks, worker,
                   history, faults>>

Restore(j) ==
    /\ j \in deleted
    /\ deleted' = deleted \ {j}
    /\ UNCHANGED <<job, client, queue, consumer, unacked, callbacks, worker, history, faults>>

\* recover_stale_jobs, of any instance: a dead worker does not beat, and a
\* live one has not beaten in its first interval
Recover(j) ==
    /\ Readable(j) /\ job[j].status = "processing"
    /\ \E i \in Instance : consumer[i] = "on"
    /\ Save(j, "failed", job[j].runs)
    /\ UNCHANGED <<deleted, client, queue, consumer, unacked, callbacks, worker, history, faults>>

-----------------------------------------------------------------------------
(* The I/O thread: start_consume *)

Start(i) ==
    /\ consumer[i] = "down"
    /\ consumer' = [consumer EXCEPT ![i] = "on"]
    /\ UNCHANGED <<store, client, queue, unacked, callbacks, worker, history, faults>>

\* worker threads that can be started: a callback names the thread that left it
FreeThreads ==
    {t \in Thread : worker[t].at = "idle"
        /\ \A i \in Instance :
              /\ unacked[i] # None => unacked[i].by # t
              /\ \A n \in 1..Len(callbacks[i]) : callbacks[i][n].by # t}

\* callback(): the job is marked PROCESSING and a worker thread started
Deliver(i, m) ==
    LET t == CHOOSE u \in FreeThreads : \A v \in FreeThreads : u <= v IN
    /\ consumer[i] = "on" /\ unacked[i] = None
    /\ m.at = "main" /\ Readable(m.job) /\ FreeThreads # {}
    /\ queue' = queue (-) SetToBag({m})
    /\ Save(m.job, "processing", job[m.job].runs)
    /\ unacked' = [unacked EXCEPT ![i] = [job |-> m.job, count |-> m.count, by |-> t]]
    /\ worker' = [worker EXCEPT ![t] =
          [Idle EXCEPT !.at = "run", !.inst = i, !.job = m.job, !.count = m.count, !.open = TRUE]]
    /\ UNCHANGED <<deleted, client, consumer, callbacks, history, faults>>

\* callback(), when get() raises: the message is sent on and acknowledged at once
Refuse(i, m) ==
    /\ consumer[i] = "on" /\ unacked[i] = None
    /\ m.at = "main" /\ ~Readable(m.job)
    /\ queue' = (queue (-) SetToBag({m})) (+) Resend(m.job, m.count, FALSE, MaxRetries)
    /\ torn' = IF m.count < MaxRetries THEN torn ELSE torn \cup {m.job}
    /\ UNCHANGED <<store, client, consumer, unacked, callbacks, worker, failures, again, faults>>

Close_KeepsCallbacks(i, q, survivors) ==
    /\ consumer' = [consumer EXCEPT ![i] = "down"]
    /\ queue' = IF unacked[i] = None THEN q
                ELSE q (+) Msg(unacked[i].job, unacked[i].count, "main")
    /\ again' = IF unacked[i] = None THEN again ELSE again \cup {unacked[i].job}
    /\ unacked' = [unacked EXCEPT ![i] = None]
    /\ UNCHANGED callbacks
    /\ worker' = [t \in Thread |->
          IF worker[t].inst # i THEN worker[t]
          ELSE IF t \in survivors THEN [worker[t] EXCEPT !.open = FALSE] ELSE Idle]

\* The channel ends: the broker takes back the unacknowledged delivery, and
\* start_consume returns.  survivors are the worker threads that go on.
Close(i, q, survivors) ==
    /\ consumer' = [consumer EXCEPT ![i] = "down"]
    /\ queue' = IF unacked[i] = None THEN q
                ELSE q (+) Msg(unacked[i].job, unacked[i].count, "main")
    /\ again' = IF unacked[i] = None THEN again ELSE again \cup {unacked[i].job}
    /\ unacked' = [unacked EXCEPT ![i] = None]
    /\ callbacks' = [callbacks EXCEPT ![i] = <<>>]
    /\ worker' = [t \in Thread |->
          IF worker[t].inst # i THEN worker[t]
          ELSE IF t \in survivors THEN [worker[t] EXCEPT !.open = FALSE] ELSE Idle]

\* the publish of a settling callback
Published(c) ==
    IF c.kind = "settle" THEN queue (+) Resend(c.job, c.count, c.final, JobRetries[c.job])
    ELSE queue

Requeued_Failed(c) ==
    IF c.kind # "ack" THEN Msg(c.job, c.count, "main") ELSE EmptyBag

Requeued_Never(c) == EmptyBag

Requeued(c) ==
    IF c.kind = "nack" THEN Msg(c.job, c.count, "main") ELSE EmptyBag

\* A callback runs; after stop_consuming(), once the workers have been joined.
\* A delivery can be settled once: the broker closes the channel of a consumer
\* that acknowledges it again.
Callback(i) ==
    LET c == Head(callbacks[i])
        first == unacked[i] # None /\ unacked[i].by = c.by
    IN
    /\ consumer[i] # "down" /\ callbacks[i] # <<>>
    /\ consumer[i] = "stopping" => \A t \in Thread : worker[t].inst # i
    /\ \/ /\ first
          /\ queue' = Published(c) (+) Requeued(c)
          /\ unacked' = [unacked EXCEPT ![i] = None]
          /\ callbacks' = [callbacks EXCEPT ![i] = Tail(@)]
          /\ UNCHANGED <<consumer, worker, again>>
       \/ ~first /\ Close(i, Published(c), Thread)
    /\ UNCHANGED <<store, client, failures, torn, faults>>

-----------------------------------------------------------------------------
(* A worker thread *)

Goto(t, at) == worker' = [worker EXCEPT ![t].at = at]

Ends(t) == worker' = [worker EXCEPT ![t] = Idle]

\* to the branch of _worker that handles any exception
Raises(t) == worker' = [worker EXCEPT ![t].at = "failing", ![t].out = "error"]

\* add_callback_threadsafe: lost when the channel is gone
Leave(t, kind) ==
    LET i == worker[t].inst
        c == [kind |-> kind, by |-> t, job |-> worker[t].job, count |-> worker[t].count,
              final |-> worker[t].out = "noretry"]
    IN callbacks' = IF worker[t].open THEN [callbacks EXCEPT ![i] = Append(@, c)]
                    ELSE callbacks

\* the handler returns (False is "stop") or raises; "abort" is no Exception
Run(t, out) ==
    /\ worker[t].at = "run"
    /\ worker' = [worker EXCEPT ![t].out = out,
          ![t].at = CASE out \in {"ok", "stop"} -> "complete"
                      [] out = "delay" -> "delay"
                      [] out \in {"error", "noretry"} -> "failing"
                      [] out = "abort" -> "nack"]
    /\ failures' = [failures EXCEPT ![worker[t].job] =
          IF out \in {"error", "noretry"} THEN @ + 1 ELSE @]
    /\ UNCHANGED <<store, client, queue, consumer, unacked, callbacks, torn, again, faults>>

Complete_NoAck(t) ==
    LET j == worker[t].job IN
    /\ worker[t].at = "complete" /\ Readable(j)
    /\ Save(j, "completed", job[j].runs)
    /\ worker' = [worker EXCEPT ![t] =
          IF j \in Periodic THEN [@ EXCEPT !.at = "periodic", !.runs = job[j].runs] ELSE Idle]
    /\ UNCHANGED <<deleted, client, queue, consumer, unacked, callbacks, history, faults>>

\* complete(), then the ack is left.  On a dead connection that raises, unless
\* nobody has noticed yet.
Complete(t) ==
    LET j == worker[t].job IN
    /\ worker[t].at = "complete" /\ Readable(j)
    /\ Save(j, "completed", job[j].runs)
    /\ \/ /\ Leave(t, "ack")
          /\ worker' = [worker EXCEPT ![t] =
                IF j \in Periodic THEN [@ EXCEPT !.at = "periodic", !.runs = job[j].runs]
                ELSE Idle]
       \/ ~worker[t].open /\ Raises(t) /\ UNCHANGED callbacks
    /\ UNCHANGED <<deleted, client, queue, consumer, unacked, history, faults>>

\* complete() or the write of _handle_periodic_job raises
SaveFails(t) ==
    /\ worker[t].at \in {"complete", "periodic"} /\ ~Readable(worker[t].job)
    /\ Raises(t)
    /\ UNCHANGED <<store, client, queue, consumer, unacked, callbacks, history, faults>>

\* _handle_periodic_job, on the copy complete() returned
CountRun(t) ==
    LET runs == worker[t].runs + 1 IN
    /\ worker[t].at = "periodic" /\ Readable(worker[t].job)
    /\ Save(worker[t].job, "completed", runs)
    /\ IF worker[t].out = "ok" /\ runs < MaxRuns THEN Goto(t, "schedule") ELSE Ends(t)
    /\ UNCHANGED <<deleted, client, queue, consumer, unacked, callbacks, history, faults>>

\* DelayRetry: the ack is left before anything is saved
DelayAck(t) ==
    /\ worker[t].at = "delay"
    /\ Leave(t, "ack")
    /\ \/ Goto(t, "delaying")
       \/ ~worker[t].open /\ Ends(t)
    /\ UNCHANGED <<store, client, queue, consumer, unacked, history, faults>>

\* _handle_delay_retry; an exception in an except clause ends the thread
DelaySave(t) ==
    LET j == worker[t].job IN
    /\ worker[t].at = "delaying"
    /\ \/ /\ Readable(j)
          /\ Save(j, "completed", job[j].runs)
          /\ Goto(t, "schedule")
          /\ UNCHANGED torn
       \/ ~Readable(j) /\ Ends(t) /\ torn' = torn \cup {j} /\ UNCHANGED job
    /\ UNCHANGED <<deleted, client, queue, consumer, unacked, callbacks, failures, again, faults>>

\* _schedule_delayed_job, on a connection of its own
Schedule(t) ==
    /\ worker[t].at = "schedule"
    /\ Publish(Msg(worker[t].job, 0, "periodic"))
    /\ failures' = [failures EXCEPT ![worker[t].job] = 0]
    /\ Ends(t)
    /\ UNCHANGED <<store, client, consumer, unacked, callbacks, torn, again, faults>>

\* it raises, with or without having published
ScheduleFails(t) ==
    /\ worker[t].at = "schedule" /\ faults < MaxFaults
    /\ faults' = faults + 1
    /\ \/ UNCHANGED <<queue, again>>
       \/ Publish(Msg(worker[t].job, 0, "periodic")) /\ again' = again \cup {worker[t].job}
    /\ IF worker[t].out = "delay" THEN Ends(t) ELSE Raises(t)
    /\ UNCHANGED <<store, client, consumer, unacked, callbacks, failures, torn>>

\* the job is FAILED, if it can be saved, and its message is to be sent on
Fail(t) ==
    LET j == worker[t].job IN
    /\ worker[t].at = "failing"
    /\ IF Readable(j)
       THEN Save(j, "failed", job[j].runs) /\ UNCHANGED torn
       ELSE UNCHANGED job /\ torn' = torn \cup {j}
    /\ Leave(t, "settle")
    /\ Ends(t)
    /\ UNCHANGED <<deleted, client, queue, consumer, unacked, failures, again, faults>>

Abort(t) ==
    /\ worker[t].at = "nack"
    /\ Leave(t, "nack")
    /\ Ends(t)
    /\ UNCHANGED <<store, client, queue, consumer, unacked, history, faults>>

-----------------------------------------------------------------------------
(* Faults *)

\* between two callbacks, or between the publish and the ack of one
LoseConnection(i) ==
    /\ consumer[i] # "down" /\ faults < MaxFaults
    /\ faults' = faults + 1
    /\ \/ Close(i, queue, Thread)
       \/ /\ callbacks[i] # <<>> /\ Head(callbacks[i]).kind = "settle"
          /\ Close(i, Published(Head(callbacks[i])), Thread)
    /\ UNCHANGED <<store, client, failures, torn>>

\* the process dies, its worker threads included
Crash(i) ==
    /\ consumer[i] # "down" /\ faults < MaxFaults
    /\ faults' = faults + 1
    /\ Close(i, queue, {})
    /\ torn' = torn \cup {worker[t].job : t \in
                  {u \in Thread : worker[u].inst = i /\ worker[u].at = "delaying"}}
    /\ UNCHANGED <<store, client, failures>>

\* stop_consuming()
Stop(i) ==
    /\ consumer[i] = "on" /\ faults < MaxFaults
    /\ faults' = faults + 1
    /\ consumer' = [consumer EXCEPT ![i] = "stopping"]
    /\ UNCHANGED <<store, client, queue, unacked, callbacks, worker, history>>

\* start_consume() returns when the workers are joined and no callback is left
Stopped(i) ==
    /\ consumer[i] = "stopping" /\ callbacks[i] = <<>>
    /\ \A t \in Thread : worker[t].inst # i
    /\ Close(i, queue, Thread)
    /\ UNCHANGED <<store, client, failures, torn, faults>>

-----------------------------------------------------------------------------
Init ==
    /\ job = [j \in Job |-> None]
    /\ deleted = {}
    /\ request = {}
    /\ queue = EmptyBag
    /\ consumer = [i \in Instance |-> "down"]
    /\ unacked = [i \in Instance |-> None]
    /\ callbacks = [i \in Instance |-> <<>>]
    /\ worker = [t \in Thread |-> Idle]
    /\ failures = [j \in Job |-> 0]
    /\ torn = {} /\ again = {}
    /\ faults = 0 /\ requests = 0

\* one step of the code of a worker thread
Work(t) ==
    \/ \E out \in Outcome : Run(t, out)
    \/ Complete(t) \/ SaveFails(t) \/ CountRun(t) \/ DelayAck(t) \/ DelaySave(t)
    \/ Schedule(t) \/ Fail(t) \/ Abort(t)

Receive(j) ==
    \E i \in Instance : \E m \in Waiting(j) : Deliver(i, m) \/ Refuse(i, m)

Next ==
    \/ \E j \in Job :
        \/ Create(j) \/ Put(j) \/ PutFails(j) \/ Rerun(j)
        \/ Delete(j) \/ Restore(j) \/ Recover(j)
        \/ Receive(j)
        \/ \E m \in Waiting(j) : Expire(m)
    \/ \E i \in Instance :
        Start(i) \/ Callback(i) \/ LoseConnection(i) \/ Crash(i) \/ Stop(i) \/ Stopped(i)
    \/ \E t \in Thread : Work(t) \/ ScheduleFails(t)

Spec == Init /\ [][Next]_vars

\* Threads keep running and handlers return; messages come due; the main queue
\* is first in, first out, so that a message is delivered when deliveries go on
\* for ever; a consumer that is down is started again (start_consume does not
\* do this itself).
Fairness ==
    /\ \A i \in Instance : WF_vars(Start(i)) /\ WF_vars(Callback(i)) /\ WF_vars(Stopped(i))
    /\ \A t \in Thread : WF_vars(Work(t))
    /\ \A j \in Job :
        /\ WF_vars(Put(j)) /\ SF_vars(Receive(j))
        /\ WF_vars(\E m \in Waiting(j) : Expire(m))

FairSpec == Spec /\ Fairness

-----------------------------------------------------------------------------
(* Properties *)

\* A job that is PENDING or PROCESSING has a message that will be delivered, a
\* delivery that is not acknowledged, a request about to put() it, or a worker
\* about to save it: no order of acks, saves and publishes loses one, other
\* than those that fail or die between a save and its message.
NotForgotten ==
    \A j \in Job \ torn :
        Readable(j) /\ job[j].status \in {"pending", "processing"}
            => j \in request \/ Carried(j)

Running(j) == {t \in Thread : worker[t].at = "run" /\ worker[t].job = j}

\* A job that was enqueued once is waiting once or handled by one worker:
\* retries, delays and periodic runs never multiply it.
OnceAtATime ==
    \A j \in Job \ again :
        /\ \A m, n \in Waiting(j) : m = n /\ queue[m] = 1
        /\ Cardinality(Running(j)) <= (IF Waiting(j) = {} THEN 1 ELSE 0)

\* A handler that keeps failing is executed max_retries + 1 times.
RetriesBounded ==
    \A j \in Job \ again : failures[j] <= JobRetries[j] + 1

\* A message is not left waiting: its job is executed, unless it is deleted.
Executed ==
    \A j \in Job :
        Waiting(j) # {} ~> (j \in deleted \/ \E t \in Thread :
                                worker[t].at = "run" /\ worker[t].job = j)

=============================================================================
