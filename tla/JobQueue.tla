------------------------------- MODULE JobQueue -------------------------------
(***************************************************************************)
(* SimpleMessageQueue (autocrud/message_queue/simple.py, basic.py,         *)
(* heartbeat.py): jobs are resources, and several threads read a job,      *)
(* change the copy and write it back.  In each instance of the program:    *)
(*   - the consumer: wakes jobs that are due, claims the next pending job, *)
(*     runs the handler, and records the outcome;                          *)
(*   - the heartbeat of the job the consumer executes;                     *)
(*   - the recovery of jobs whose worker looks dead (once before the       *)
(*     consumer starts, then periodically);                                *)
(*   - the HTTP thread, which creates and reruns jobs one request at a     *)
(*     time, and deletes and restores them.                                *)
(* A ResourceManager call is one step here (RevisionLifecycle opens it),   *)
(* but for the heartbeat's modify(): it checks that HEAD is a draft, and   *)
(* writes later.  What a thread does between two calls is not atomic.      *)
(***************************************************************************)
EXTENDS Naturals, Sequences, SequencesExt, FiniteSets

CONSTANTS
    Job,         \* job resources
    Instance,    \* running copies of the program
    Periodic,    \* jobs with a periodic_interval_seconds
    Delayed,     \* jobs with a periodic_initial_delay_seconds
    MaxRetries,  \* effective max_retries
    MaxRuns,     \* periodic_max_runs
    Outcome,     \* what handlers do: subset of {"ok","stop","delay","error","noretry"}
    MaxCrashes,  \* bound: crashes of an instance
    MaxReruns,   \* bound: rerun requests
    MaxDeletes,  \* bound: soft deletes
    None

ASSUME JobQueueAssumption ==
    /\ Periodic \subseteq Job /\ Delayed \subseteq Job
    /\ MaxRetries \in Nat /\ MaxRuns \in Nat \ {0}
    /\ Outcome \subseteq {"ok", "stop", "delay", "error", "noretry"}
    /\ MaxCrashes \in Nat /\ MaxReruns \in Nat /\ MaxDeletes \in Nat

TaskStatus == {"pending", "processing", "completed", "failed"}

\* A job's data.  hb is the age of last_heartbeat_at: missing, recent, or
\* older than three heartbeat intervals.
Data == [status: TaskStatus, retries: Nat, runs: Nat, hb: {"none", "recent", "old"}]

ASSUME NoneAssumption == None \notin Data

VARIABLES
    job,       \* job[j]: the data of HEAD, or None when not created
    draft,     \* draft[j]: whether HEAD is a draft, which modify() needs
    deleted,   \* the soft-deleted jobs
    created,   \* jobs in the order of their creation
    worker,    \* worker[i]: the consumer thread
    beat,      \* beat[i]: the copy a heartbeat tick holds
    passed,    \* instances whose tick has passed the check of modify()
    scan,      \* scan[i]: the recovery in progress
    request,   \* request[i]: the HTTP request in progress
    sched,     \* sched[i]: _periodic_schedule, in memory
    attempts,  \* failed executions since the job was enqueued, while its counts are
               \* its own (history)
    owed,      \* jobs promised an execution, until it begins or another thread
               \* writes over the promise (history)
    stale,     \* jobs whose counts a late write-back changed (history)
    crashes, reruns, deletes

store == <<job, draft, deleted, created>>
history == <<attempts, owed, stale>>
bounds == <<crashes, reruns, deletes>>
vars == <<store, worker, beat, passed, scan, request, sched, history, bounds>>

Down == [at |-> "down", job |-> None, copy |-> None, out |-> None]
Loop == [Down EXCEPT !.at = "loop"]

\* where the consumer is while its heartbeat thread runs
Executing == {"run", "finish", "complete", "periodic", "delay", "save", "fail", "failing"}

TypeOK ==
    /\ job \in [Job -> Data \cup {None}]
    /\ draft \in [Job -> BOOLEAN]
    /\ deleted \subseteq Job
    /\ ToSet(created) \subseteq Job
    /\ \A i \in Instance :
        /\ worker[i].at \in Executing \cup {"down", "start", "loop", "wake", "claim", "join"}
        /\ worker[i].at \in Executing => worker[i].job \in Job
        /\ beat[i] \in Data \cup {None}
        /\ sched[i] \subseteq Job
        /\ scan[i] # None => scan[i].todo \subseteq Job
    /\ attempts \in [Job -> Nat]
    /\ passed \subseteq Instance
    /\ owed \subseteq Job /\ stale \subseteq Job

-----------------------------------------------------------------------------
(* Calls of the ResourceManager *)

\* rm.get and rm.create_or_update succeed; on a soft-deleted job they raise
Readable(j) == job[j] # None /\ j \notin deleted

\* create_or_update: nothing is written when the data is what HEAD holds
Write(j, d, isDraft) ==
    /\ job' = [job EXCEPT ![j] = d]
    /\ draft' = [draft EXCEPT ![j] = IF d = job[j] THEN @ ELSE isDraft]
    /\ UNCHANGED <<deleted, created>>

\* the write of a thread that does not care whether it raises
TryWrite(j, d) ==
    IF Readable(j) THEN Write(j, d, FALSE) ELSE UNCHANGED store

\* the jobs whose retries or runs the write-back of d to j changes
Recounted(j, d) ==
    IF Readable(j) /\ (d.retries # job[j].retries \/ d.runs # job[j].runs) THEN {j} ELSE {}

With(status) == {j \in Job : job[j] # None /\ job[j].status = status}

Step(i, at, j, copy, out) ==
    worker' = [worker EXCEPT ![i] = [at |-> at, job |-> j, copy |-> copy, out |-> out]]

Goto(i, at) == worker' = [worker EXCEPT ![i].at = at]

-----------------------------------------------------------------------------
(* The consumer: start_consume *)

NewScan == [todo |-> With("processing"), job |-> None, copy |-> None]

\* jobs left in PROCESSING are recovered before the loop starts
StartConsume(i) ==
    /\ worker[i].at = "down"
    /\ Goto(i, "start")
    /\ scan' = [scan EXCEPT ![i] = NewScan]
    /\ UNCHANGED <<store, beat, passed, request, sched, history, bounds>>

EnterLoop(i) ==
    /\ worker[i].at = "start" /\ scan[i] = None
    /\ Goto(i, "loop")
    /\ UNCHANGED <<store, beat, passed, scan, request, sched, history, bounds>>

\* _check_periodic_jobs: a due job leaves the schedule, then becomes PENDING
WakeRead(i, j) ==
    /\ worker[i].at = "loop" /\ j \in sched[i]
    /\ sched' = [sched EXCEPT ![i] = @ \ {j}]
    /\ IF Readable(j)
       THEN Step(i, "wake", j, [job[j] EXCEPT !.status = "pending"], None)
       ELSE UNCHANGED worker
    /\ UNCHANGED <<store, beat, passed, scan, request, history, bounds>>

WakeWrite(i) ==
    /\ worker[i].at = "wake"
    /\ TryWrite(worker[i].job, worker[i].copy)
    /\ worker' = [worker EXCEPT ![i] = Loop]
    /\ attempts' = [attempts EXCEPT ![worker[i].job] = 0]
    /\ UNCHANGED <<beat, passed, scan, request, sched, owed, stale, bounds>>

Place(j) == CHOOSE n \in 1..Len(created) : created[n] = j

IsNext_SkipsRetried(j) ==
    /\ j \in With("pending") /\ job[j].retries = 0
    /\ \A k \in With("pending") \ {j} : job[k].retries = 0 => Place(j) < Place(k)

\* pop's order: fewer retries first, then the oldest.  Soft-deleted jobs are
\* found too: the query does not filter them.
IsNext(j) ==
    /\ j \in With("pending")
    /\ \A k \in With("pending") \ {j} :
        \/ job[j].retries < job[k].retries
        \/ job[j].retries = job[k].retries /\ Place(j) < Place(k)

\* pop: search with limit=1 and get; when get raises, nothing is popped (and
\* nothing changes).  The check of the status after get() makes the two look
\* like one step.
Pop(i) ==
    /\ worker[i].at = "loop"
    /\ \E j \in Job :
        /\ IsNext(j) /\ Readable(j)
        /\ Step(i, "claim", j, [job[j] EXCEPT !.status = "processing"], None)
    /\ UNCHANGED <<store, beat, passed, scan, request, sched, history, bounds>>

Claim_Stable(i) ==
    /\ worker[i].at = "claim"
    /\ IF Readable(worker[i].job)
       THEN Write(worker[i].job, worker[i].copy, FALSE) /\ Goto(i, "run")
            /\ owed' = owed \ {worker[i].job}
       ELSE UNCHANGED <<store, owed>> /\ worker' = [worker EXCEPT ![i] = Loop]
    /\ UNCHANGED <<beat, passed, scan, request, sched, attempts, stale, bounds>>

\* the claim is written as a draft, so that the heartbeat can modify() it
Claim(i) ==
    /\ worker[i].at = "claim"
    /\ IF Readable(worker[i].job)
       THEN Write(worker[i].job, worker[i].copy, TRUE) /\ Goto(i, "run")
            /\ owed' = owed \ {worker[i].job}
       ELSE UNCHANGED <<store, owed>> /\ worker' = [worker EXCEPT ![i] = Loop]
    /\ UNCHANGED <<beat, passed, scan, request, sched, attempts, stale, bounds>>

\* the handler returns (False is "stop") or raises
Run(i, out) ==
    /\ worker[i].at = "run"
    /\ worker' = [worker EXCEPT ![i].at = "finish", ![i].out = out]
    /\ attempts' = [attempts EXCEPT ![worker[i].job] =
          IF out \in {"error", "noretry"} /\ worker[i].job \notin stale THEN @ + 1 ELSE @]
    /\ UNCHANGED <<store, beat, passed, scan, request, sched, owed, stale, bounds>>

-----------------------------------------------------------------------------
(* The consumer: recording the outcome *)

\* An exception while recording: after a handler that returned, it is treated
\* like a failure of the handler; after DelayRetry it escapes to start_consume.
Raise(i) ==
    IF worker[i].out = "delay"
    THEN worker' = [worker EXCEPT ![i].at = "join", ![i].out = "escaped"]
    ELSE worker' = [worker EXCEPT ![i].at = "finish", ![i].out = "error"]

CompleteRead(i) ==
    LET j == worker[i].job IN
    /\ worker[i].at = "finish" /\ worker[i].out \in {"ok", "stop", "delay"}
    /\ IF Readable(j)
       THEN Step(i, "complete", j, [job[j] EXCEPT !.status = "completed"], worker[i].out)
       ELSE Raise(i)
    /\ UNCHANGED <<store, beat, passed, scan, request, sched, history, bounds>>

CompleteWrite(i) ==
    LET j == worker[i].job IN
    /\ worker[i].at = "complete"
    /\ IF Readable(j)
       THEN /\ Write(j, worker[i].copy, FALSE)
            /\ attempts' = [attempts EXCEPT ![j] = 0]
            /\ Goto(i, CASE worker[i].out = "delay" -> "delay"
                         [] worker[i].out # "delay" /\ j \in Periodic -> "periodic"
                         [] OTHER -> "join")
       ELSE Raise(i) /\ UNCHANGED <<store, attempts>>
    /\ UNCHANGED <<beat, passed, scan, request, sched, owed, stale, bounds>>

Continues(i) == worker[i].out = "ok" /\ worker[i].copy.runs + 1 < MaxRuns

\* Another execution of j is written to the store and to the schedule.
Reschedule(i, d) ==
    /\ Write(worker[i].job, d, FALSE)
    /\ sched' = [sched EXCEPT ![i] = @ \cup {worker[i].job}]
    /\ owed' = owed \cup {worker[i].job}
    /\ Goto(i, "join")

\* _handle_periodic_job, on the copy complete() returned
PeriodicWrite(i) ==
    LET d == [worker[i].copy EXCEPT !.runs = @ + 1] IN
    /\ worker[i].at = "periodic"
    /\ \/ Readable(worker[i].job) /\ Continues(i) /\ Reschedule(i, [d EXCEPT !.retries = 0])
       \/ /\ Readable(worker[i].job) /\ ~Continues(i)
          /\ Write(worker[i].job, d, FALSE) /\ Goto(i, "join")
          /\ UNCHANGED <<sched, owed>>
       \/ ~Readable(worker[i].job) /\ Raise(i) /\ UNCHANGED <<store, sched, owed>>
    /\ UNCHANGED <<beat, passed, scan, request, attempts, stale, bounds>>

\* _handle_delay_retry, after complete()
DelayWrite(i) ==
    /\ worker[i].at = "delay"
    /\ IF Readable(worker[i].job)
       THEN Reschedule(i, [worker[i].copy EXCEPT !.retries = 0])
       ELSE Raise(i) /\ UNCHANGED <<store, sched, owed>>
    /\ UNCHANGED <<beat, passed, scan, request, attempts, stale, bounds>>

Failure_NoLimit(d, out) ==
    [d EXCEPT !.retries = @ + 1,
              !.status = IF out # "noretry" /\ d.retries <= MaxRetries
                         THEN "pending" ELSE "failed"]

\* A failure: re-fetch the job (or use the copy in memory) and count the retry.
Failure(d, out) ==
    [d EXCEPT !.retries = @ + 1,
              !.status = IF out # "noretry" /\ d.retries + 1 <= MaxRetries
                         THEN "pending" ELSE "failed"]

ErrorRead(i) ==
    LET j == worker[i].job
        d == IF Readable(j) THEN job[j] ELSE worker[i].copy
    IN
    /\ worker[i].at = "finish" /\ worker[i].out \in {"error", "noretry"}
    /\ Step(i, "save", j, Failure(d, worker[i].out), worker[i].out)
    /\ UNCHANGED <<store, beat, passed, scan, request, sched, history, bounds>>

\* fail() follows when the job failed for good, or when this write raises
ErrorWrite(i) ==
    LET j == worker[i].job
        retry == Readable(j) /\ worker[i].copy.status = "pending"
    IN
    /\ worker[i].at = "save"
    /\ TryWrite(j, worker[i].copy)
    /\ Goto(i, IF retry THEN "join" ELSE "fail")
    /\ owed' = IF retry THEN owed \cup {j} ELSE owed
    /\ UNCHANGED <<beat, passed, scan, request, sched, attempts, stale, bounds>>

FailRead(i) ==
    LET j == worker[i].job IN
    /\ worker[i].at = "fail"
    /\ IF Readable(j)
       THEN Step(i, "failing", j, [job[j] EXCEPT !.status = "failed"], worker[i].out)
       ELSE Goto(i, "join")
    /\ UNCHANGED <<store, beat, passed, scan, request, sched, history, bounds>>

FailWrite(i) ==
    /\ worker[i].at = "failing"
    /\ TryWrite(worker[i].job, worker[i].copy)
    /\ Goto(i, "join")
    /\ UNCHANGED <<beat, passed, scan, request, sched, history, bounds>>

\* The heartbeat thread is stopped and joined (a tick in progress ends well
\* within the join's timeout of two intervals).
Join(i) ==
    /\ worker[i].at = "join" /\ beat[i] = None
    /\ IF worker[i].out = "escaped"
       THEN worker' = [worker EXCEPT ![i].at = "fail", ![i].out = "caught"]
       ELSE worker' = [worker EXCEPT ![i] = Loop]
    /\ UNCHANGED <<store, beat, passed, scan, request, sched, history, bounds>>

-----------------------------------------------------------------------------
(* The heartbeat thread *)

TickRead(i) ==
    /\ worker[i].at \in Executing /\ worker[i].out # "caught"
    /\ beat[i] = None
    /\ Readable(worker[i].job)
    /\ beat' = [beat EXCEPT ![i] = [job[worker[i].job] EXCEPT !.hb = "recent"]]
    /\ UNCHANGED <<store, worker, passed, scan, request, sched, history, bounds>>

TickCheck_Update(i) ==
    /\ beat[i] # None /\ i \notin passed
    /\ IF Readable(worker[i].job)
       THEN passed' = passed \cup {i} /\ UNCHANGED beat
       ELSE beat' = [beat EXCEPT ![i] = None] /\ UNCHANGED passed
    /\ UNCHANGED <<store, worker, scan, request, sched, history, bounds>>

\* modify() is refused on a HEAD that is not a draft
TickCheck(i) ==
    LET j == worker[i].job IN
    /\ beat[i] # None /\ i \notin passed
    /\ IF Readable(j) /\ draft[j]
       THEN passed' = passed \cup {i} /\ UNCHANGED beat
       ELSE beat' = [beat EXCEPT ![i] = None] /\ UNCHANGED passed
    /\ UNCHANGED <<store, worker, scan, request, sched, history, bounds>>

\* modify() then saves the draft and the metadata it has checked: whatever was
\* saved in between, the draft is HEAD again, and the job is not deleted.
TickWrite(i) ==
    LET j == worker[i].job IN
    /\ i \in passed
    /\ job' = [job EXCEPT ![j] = beat[i]]
    /\ draft' = [draft EXCEPT ![j] = TRUE]
    /\ deleted' = deleted \ {j}
    /\ stale' = stale \cup {k \in Job : k = j /\ (beat[i].retries # job[j].retries \/ beat[i].runs # job[j].runs)}
    /\ owed' = owed \ {j}
    /\ beat' = [beat EXCEPT ![i] = None]
    /\ passed' = passed \ {i}
    /\ UNCHANGED <<created, worker, scan, request, sched, attempts, bounds>>

\* Time passes.  A live worker beats at least every three intervals, so only
\* the heartbeat of a job nobody executes gets old.
HeartbeatAges(j) ==
    /\ job[j] # None /\ job[j].hb = "recent"
    /\ \A i \in Instance : worker[i].at \in Executing => worker[i].job # j
    /\ job' = [job EXCEPT ![j].hb = "old"]
    /\ UNCHANGED <<draft, deleted, created, worker, beat, passed, scan, request, sched, history, bounds>>

-----------------------------------------------------------------------------
(* recover_stale_jobs *)

\* the periodic recovery, which every consumer starts
ScanStart(i) ==
    /\ worker[i].at \notin {"down", "start"} /\ scan[i] = None
    /\ With("processing") # {}
    /\ scan' = [scan EXCEPT ![i] = NewScan]
    /\ UNCHANGED <<store, worker, beat, passed, request, sched, history, bounds>>

ScanRead_NeedsHeartbeat(i, j) ==
    /\ scan[i] # None /\ scan[i].copy = None /\ j \in scan[i].todo
    /\ scan' = [scan EXCEPT ![i] =
          IF Readable(j) /\ job[j].hb = "old"
          THEN [todo |-> @.todo \ {j}, job |-> j, copy |-> [job[j] EXCEPT !.status = "failed"]]
          ELSE [scan[i] EXCEPT !.todo = @ \ {j}]]
    /\ UNCHANGED <<store, worker, beat, passed, request, sched, history, bounds>>

\* get: what the search found is not checked again
ScanRead(i, j) ==
    /\ scan[i] # None /\ scan[i].copy = None /\ j \in scan[i].todo
    /\ scan' = [scan EXCEPT ![i] =
          IF Readable(j) /\ job[j].hb # "recent"
          THEN [todo |-> @.todo \ {j}, job |-> j, copy |-> [job[j] EXCEPT !.status = "failed"]]
          ELSE [scan[i] EXCEPT !.todo = @ \ {j}]]
    /\ UNCHANGED <<store, worker, beat, passed, request, sched, history, bounds>>

ScanWrite(i) ==
    LET j == scan[i].job IN
    /\ scan[i] # None /\ scan[i].copy # None
    /\ TryWrite(j, scan[i].copy)
    /\ stale' = stale \cup Recounted(j, scan[i].copy)
    /\ owed' = owed \ {j}
    /\ scan' = [scan EXCEPT ![i].job = None, ![i].copy = None]
    /\ UNCHANGED <<worker, beat, passed, request, sched, attempts, bounds>>

ScanEnd(i) ==
    /\ scan[i] # None /\ scan[i].copy = None /\ scan[i].todo = {}
    /\ scan' = [scan EXCEPT ![i] = None]
    /\ UNCHANGED <<store, worker, beat, passed, request, sched, history, bounds>>

-----------------------------------------------------------------------------
(* Requests *)

Free(i) == worker[i].at # "down" /\ request[i] = None

\* rm.create, then put() on the queue of the same instance; put() writes only
\* when the job has an initial delay
Create(i, j) ==
    /\ Free(i) /\ job[j] = None
    /\ job' = [job EXCEPT ![j] =
                  [status |-> "pending", retries |-> 0, runs |-> 0, hb |-> "none"]]
    /\ draft' = [draft EXCEPT ![j] = FALSE]
    /\ created' = Append(created, j)
    /\ owed' = owed \cup {j}
    /\ request' = [request EXCEPT ![i] =
                      IF j \in Delayed THEN [at |-> "put", job |-> j, copy |-> None] ELSE None]
    /\ UNCHANGED <<deleted, worker, beat, passed, scan, sched, attempts, stale, bounds>>

PutRead(i) ==
    LET j == request[i].job IN
    /\ request[i] # None /\ request[i].at = "put"
    /\ request' = [request EXCEPT ![i] =
          IF Readable(j) /\ job[j].runs = 0
          THEN [at |-> "putting", job |-> j, copy |-> [job[j] EXCEPT !.status = "completed"]]
          ELSE None]
    /\ UNCHANGED <<store, worker, beat, passed, scan, sched, history, bounds>>

PutWrite(i) ==
    LET j == request[i].job IN
    /\ request[i] # None /\ request[i].at = "putting"
    /\ TryWrite(j, request[i].copy)
    /\ stale' = stale \cup Recounted(j, request[i].copy)
    /\ sched' = [sched EXCEPT ![i] = IF Readable(j) THEN @ \cup {j} ELSE @]
    /\ request' = [request EXCEPT ![i] = None]
    /\ UNCHANGED <<worker, beat, passed, scan, attempts, owed, bounds>>

Rerun(i, j) ==
    /\ Free(i) /\ Readable(j)
    /\ job[j].status \in {"completed", "failed"}
    /\ reruns < MaxReruns
    /\ reruns' = reruns + 1
    /\ request' = [request EXCEPT ![i] =
          [at |-> "rerun", job |-> j,
           copy |-> [job[j] EXCEPT !.status = "pending", !.retries = 0]]]
    /\ UNCHANGED <<store, worker, beat, passed, scan, sched, history, crashes, deletes>>

\* A worker that has not let go of the job will write over the rerun.
RerunWrite(i) ==
    LET j == request[i].job
        held == \E k \in Instance : worker[k].at \in Executing \cup {"join"} /\ worker[k].job = j
    IN
    /\ request[i] # None /\ request[i].at = "rerun"
    /\ TryWrite(j, request[i].copy)
    /\ attempts' = [attempts EXCEPT ![j] = 0]
    /\ owed' = IF Readable(j) /\ ~held THEN owed \cup {j} ELSE owed
    /\ request' = [request EXCEPT ![i] =
          IF Readable(j) /\ j \in Delayed THEN [at |-> "put", job |-> j, copy |-> None] ELSE None]
    /\ UNCHANGED <<worker, beat, passed, scan, sched, stale, bounds>>

Delete(j) ==
    /\ Readable(j) /\ deletes < MaxDeletes
    /\ deleted' = deleted \cup {j}
    /\ deletes' = deletes + 1
    /\ UNCHANGED <<job, draft, created, worker, beat, passed, scan, request, sched, history,
                   crashes, reruns>>

Restore(j) ==
    /\ j \in deleted
    /\ deleted' = deleted \ {j}
    /\ UNCHANGED <<job, draft, created, worker, beat, passed, scan, request, sched, history, bounds>>

\* The process dies: its threads and its schedule are gone.
Crash(i) ==
    /\ worker[i].at # "down" /\ crashes < MaxCrashes
    /\ crashes' = crashes + 1
    /\ worker' = [worker EXCEPT ![i] = Down]
    /\ beat' = [beat EXCEPT ![i] = None]
    /\ passed' = passed \ {i}
    /\ scan' = [scan EXCEPT ![i] = None]
    /\ request' = [request EXCEPT ![i] = None]
    /\ sched' = [sched EXCEPT ![i] = {}]
    /\ UNCHANGED <<store, history, reruns, deletes>>

-----------------------------------------------------------------------------
Init ==
    /\ job = [j \in Job |-> None]
    /\ draft = [j \in Job |-> FALSE]
    /\ deleted = {}
    /\ created = <<>>
    /\ worker = [i \in Instance |-> Down]
    /\ beat = [i \in Instance |-> None]
    /\ passed = {}
    /\ scan = [i \in Instance |-> None]
    /\ request = [i \in Instance |-> None]
    /\ sched = [i \in Instance |-> {}]
    /\ attempts = [j \in Job |-> 0]
    /\ owed = {} /\ stale = {}
    /\ crashes = 0 /\ reruns = 0 /\ deletes = 0

\* one step of the code of the consumer thread
Consume(i) ==
    \/ EnterLoop(i) \/ WakeWrite(i) \/ Pop(i) \/ Claim(i)
    \/ \E out \in Outcome : Run(i, out)
    \/ CompleteRead(i) \/ CompleteWrite(i) \/ PeriodicWrite(i) \/ DelayWrite(i)
    \/ ErrorRead(i) \/ ErrorWrite(i) \/ FailRead(i) \/ FailWrite(i) \/ Join(i)

Recover(i) ==
    ScanStart(i) \/ (\E j \in Job : ScanRead(i, j)) \/ ScanWrite(i) \/ ScanEnd(i)

Answer(i) == PutRead(i) \/ PutWrite(i) \/ RerunWrite(i)

Next ==
    \/ \E i \in Instance :
        \/ StartConsume(i)
        \/ Consume(i)
        \/ \E j \in Job : WakeRead(i, j)
        \/ TickRead(i) \/ TickCheck(i) \/ TickWrite(i)
        \/ Recover(i)
        \/ \E j \in Job : Create(i, j) \/ Rerun(i, j)
        \/ Answer(i)
        \/ Crash(i)
    \/ \E j \in Job : HeartbeatAges(j) \/ Delete(j) \/ Restore(j)

Spec == Init /\ [][Next]_vars

\* Threads keep running, handlers return, a dead instance is started again,
\* a job that stays scheduled comes due, and time passes.  Nothing forces a
\* client to create, rerun, delete or restore, or a heartbeat to be due.
Fairness ==
    /\ \A i \in Instance :
        /\ WF_vars(StartConsume(i)) /\ WF_vars(Consume(i))
        /\ WF_vars(TickCheck(i)) /\ WF_vars(TickWrite(i))
        /\ WF_vars(Recover(i)) /\ WF_vars(Answer(i))
        /\ \A j \in Job : SF_vars(WakeRead(i, j))
    /\ \A j \in Job : WF_vars(HeartbeatAges(j))

FairSpec == Spec /\ Fairness

-----------------------------------------------------------------------------
(* Properties *)

\* The counts of a job are as good as the write-backs of its threads.  A job
\* without initial delay whose handler keeps failing is executed at most
\* max_retries + 1 times after it was enqueued (by create, by rerun, or when its
\* schedule came due), and a periodic job completes at most periodic_max_runs
\* times, plus once for every rerun a client asked for.  Excepted are the jobs
\* on which a recovery or a heartbeat wrote back counts other than HEAD's (it
\* read them before an outcome was recorded); and a crash or a deletion between
\* a failure and its record can lose the count of one.
RetryBound ==
    \A j \in Job \ (stale \cup Delayed) :
        /\ attempts[j] <= MaxRetries + 1 + crashes + deletes
        /\ j \in Periodic /\ job[j] # None => job[j].runs <= MaxRuns + reruns

\* HEAD of a job is a draft exactly while the job is PROCESSING: modify()
\* refuses a heartbeat whose check comes after the outcome was saved, and a
\* heartbeat that had passed the check can only bring the run back whole.
DraftWhileProcessing ==
    \A j \in Job : job[j] # None => (draft[j] <=> job[j].status = "processing")

\* A heartbeat writes back the whole job it read some time ago, and yet changes
\* the heartbeat and nothing else; except when another thread saved the job
\* between modify()'s check and its write: then the heartbeat puts the
\* PROCESSING draft of the run back in place of what was saved.
HeartbeatOnlyBeats ==
    [][\A i \in Instance : TickWrite(i) =>
         \A j \in Job : job[j] # None =>
             \/ job'[j] = [job[j] EXCEPT !.hb = job'[j].hb]
             \/ j = worker[i].job /\ ~draft[j] /\ job'[j].status = "processing"]_vars

\* No job stays in PROCESSING for ever, whatever handlers do and whichever
\* step a worker dies at.
NeverStuck ==
    \A j \in Job :
        (Readable(j) /\ job[j].status = "processing")
            ~> ~(Readable(j) /\ job[j].status = "processing")

\* A job that was promised an execution (created, to be retried, delayed,
\* periodic, rerun) is executed, unless a recovery or a heartbeat writes it back
\* meanwhile, or the rerun was asked for while a worker had not let go of the
\* job.  As long as no instance crashes (schedules are kept in memory), no job is
\* deleted (pop() would find a PENDING one first each time), and jobs do not come
\* due again and again (at once, one is popped before a younger one).
PromiseKept ==
    <>[](\A i \in Instance : worker[i].at # "wake") =>
        \A j \in Job : (j \in owed) ~> (j \notin owed)

(* What a document, a comment or a test says, and the code does not do. *)

\* Periodic recovery marks only jobs whose worker died as FAILED.
RecoversDeadOnly ==
    [][\A i \in Instance : ScanWrite(i) =>
         \A j \in Job : job'[j] # job[j] =>
             \A k \in Instance : worker[k].at \in Executing => worker[k].job # j]_vars

\* A job whose outcome was recorded is not PROCESSING again before it is
\* claimed again.
OutcomeStays ==
    [][\A j \in Job : job[j] # None /\ job[j].status # "processing" /\ job'[j].status = "processing"
         => \E i \in Instance : Claim(i)]_vars

=============================================================================
