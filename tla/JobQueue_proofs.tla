----------------------------- MODULE JobQueue_proofs -----------------------------
(***************************************************************************)
(* The heartbeat and the retries of a job, for any jobs, limits, handlers, *)
(* crashes, requests and deletions, with one instance of the program: HEAD *)
(* is a draft exactly while the job is PROCESSING, a heartbeat changes the *)
(* heartbeat only or puts the PROCESSING draft back, and executions stay   *)
(* within max_retries and periodic_max_runs unless recovery or a heartbeat *)
(* writes stale counts.  Last, the types, with any number of instances.    *)
(***************************************************************************)
EXTENDS JobQueue, TLAPS

Settled == TaskStatus \ {"processing"}

WorkerState ==
    [at: Executing \cup {"down", "start", "loop", "wake", "claim", "join"},
     job: Job \cup {None}, copy: Data \cup {None},
     out: {"ok", "stop", "delay", "error", "noretry", "escaped", "caught", None}]
ScanState == [todo: SUBSET Job, job: Job \cup {None}, copy: Data \cup {None}]
RequestState == [at: {"put", "putting", "rerun"}, job: Job, copy: Data \cup {None}]

(* The jobs, and the claim about them.                                       *)
StoreOK ==
    /\ job \in [Job -> Data \cup {None}] /\ draft \in [Job -> BOOLEAN]
    /\ DraftWhileProcessing

(* Only a worker that claims a job holds a copy that is PROCESSING.          *)
Carries(w) ==
    /\ w.at \notin {"down", "start", "loop"} => w.job \in Job /\ w.copy \in Data
    /\ w.at = "claim" => w.copy.status = "processing"
    /\ w.at \in {"wake", "complete", "periodic", "delay", "save", "failing"} =>
         w.copy.status \in Settled

WorkerOK == /\ worker \in [Instance -> WorkerState]
            /\ \A i \in Instance : Carries(worker[i])

ScanOK ==
    /\ scan \in [Instance -> ScanState \cup {None}]
    /\ \A i \in Instance : scan[i] # None /\ scan[i].copy # None =>
         scan[i].job \in Job /\ scan[i].copy.status \in Settled

RequestOK ==
    /\ request \in [Instance -> RequestState \cup {None}]
    /\ \A i \in Instance : request[i] # None /\ request[i].at \in {"putting", "rerun"} =>
         request[i].copy \in Data /\ request[i].copy.status \in Settled

(* The same job but for the heartbeat.                                       *)
Like(d, e) == d.status = e.status /\ d.retries = e.retries /\ d.runs = e.runs

(* What a heartbeat tick holds of a job that is still a draft is its HEAD.   *)
Fresh(b, j) == draft[j] => Like(job[j], b)

Beating(i) == worker[i].at \in Executing \cup {"join"}

BeatOK ==
    /\ beat \in [Instance -> Data \cup {None}]
    /\ \A i \in Instance : beat[i] # None => Beating(i) /\ Fresh(beat[i], worker[i].job)

Inv == StoreOK /\ WorkerOK /\ ScanOK /\ RequestOK /\ BeatOK

(* A tick that has passed the check holds a job that was a draft.            *)
CheckOK == \A i \in passed : i \in Instance /\ beat[i] \in Data /\ beat[i].status = "processing"

-----------------------------------------------------------------------------
(* Changes of a job.                                                         *)
LEMMA Statuses ==
    ASSUME NEW d \in Data, NEW s \in TaskStatus
    PROVE  [d EXCEPT !.status = s] \in Data /\ [d EXCEPT !.status = s].status = s
BY DEF Data

LEMMA Enqueued ==
    ASSUME NEW d \in Data
    PROVE  /\ [d EXCEPT !.status = "pending", !.retries = 0] \in Data
           /\ [d EXCEPT !.status = "pending", !.retries = 0].status = "pending"
BY DEF Data, TaskStatus

LEMMA Counted ==
    ASSUME NEW d \in Data
    PROVE  /\ [d EXCEPT !.retries = 0] \in Data /\ [d EXCEPT !.retries = 0].status = d.status
           /\ [d EXCEPT !.runs = @ + 1] \in Data /\ [d EXCEPT !.runs = @ + 1].status = d.status
BY DEF Data

LEMMA Failed ==
    ASSUME NEW d \in Data, NEW out
    PROVE  Failure(d, out) \in Data /\ Failure(d, out).status \in Settled
<1>1. d.retries + 1 \in Nat
  BY DEF Data
<1>2. "pending" \in Settled /\ "failed" \in Settled /\ Settled \subseteq TaskStatus
  BY DEF Settled, TaskStatus
<1>3. CASE out # "noretry" /\ d.retries + 1 <= MaxRetries
  <2>1. Failure(d, out) = [d EXCEPT !.retries = d.retries + 1, !.status = "pending"]
    BY <1>3 DEF Failure, Data
  <2>2. QED
    BY <1>1, <1>2, <2>1 DEF Data
<1>4. CASE ~(out # "noretry" /\ d.retries + 1 <= MaxRetries)
  <2>1. Failure(d, out) = [d EXCEPT !.retries = d.retries + 1, !.status = "failed"]
    BY <1>4 DEF Failure, Data
  <2>2. QED
    BY <1>1, <1>2, <2>1 DEF Data
<1>5. QED
  BY <1>3, <1>4

LEMMA Beats ==
    ASSUME NEW d \in Data, NEW h \in {"none", "recent", "old"}
    PROVE  [d EXCEPT !.hb = h] \in Data /\ Like([d EXCEPT !.hb = h], d) /\ Like(d, [d EXCEPT !.hb = h])
BY DEF Data, Like

LEMMA LikeIs ==
    ASSUME NEW d \in Data, NEW e \in Data, Like(d, e)
    PROVE  d = [e EXCEPT !.hb = d.hb]
BY DEF Data, Like

(* Steps that leave every job a draft that was one and did not change.       *)
Settles ==
    /\ StoreOK'
    /\ \A j \in Job : draft'[j] => draft[j] /\ job'[j] = job[j]

LEMMA WriteSettles ==
    ASSUME StoreOK, NEW j \in Job, NEW d \in Data, d.status \in Settled, job[j] # None,
           Write(j, d, FALSE)
    PROVE  Settles
<1>1. job' = [job EXCEPT ![j] = d] /\ draft' = [draft EXCEPT ![j] = IF d = job[j] THEN draft[j] ELSE FALSE]
  BY DEF Write
<1>2. job' \in [Job -> Data \cup {None}] /\ job'[j] = d /\ \A k \in Job \ {j} : job'[k] = job[k]
  BY <1>1 DEF StoreOK
<1>3. /\ draft' \in [Job -> BOOLEAN] /\ draft'[j] = (IF d = job[j] THEN draft[j] ELSE FALSE)
      /\ \A k \in Job \ {j} : draft'[k] = draft[k]
  BY <1>1 DEF StoreOK
<1>4. ~draft'[j]
  BY <1>3 DEF StoreOK, DraftWhileProcessing, Settled
<1>5. QED
  BY <1>2, <1>3, <1>4 DEF Settles, StoreOK, DraftWhileProcessing, Settled

LEMMA StaySettles == ASSUME StoreOK, UNCHANGED <<job, draft>> PROVE Settles
BY DEF Settles, StoreOK, DraftWhileProcessing

LEMMA TrySettles ==
    ASSUME StoreOK, NEW j \in Job, NEW d \in Data, d.status \in Settled, TryWrite(j, d)
    PROVE  Settles
BY WriteSettles, StaySettles DEF TryWrite, Readable, store

(* A tick in progress is undisturbed by what settles.                        *)
LEMMA BeatsKept ==
    ASSUME Inv, Settles, beat' = beat,
           \A i \in Instance : beat[i] # None => worker'[i].job = worker[i].job /\ Beating(i)'
    PROVE  BeatOK'
<1> SUFFICES ASSUME NEW i \in Instance, beat[i] # None
             PROVE  Beating(i)' /\ Fresh(beat[i], worker[i].job)'
  BY DEF BeatOK, Inv
<1>1. worker'[i].job = worker[i].job /\ worker[i].job \in Job
  BY DEF Inv, BeatOK, Beating, WorkerOK, Carries, Executing
<1>2. QED
  BY <1>1 DEF Inv, BeatOK, Fresh, Settles

-----------------------------------------------------------------------------
(* How a worker moves.                                                       *)
Places == Executing \cup {"down", "start", "loop", "wake", "claim", "join"}
Outs == {"ok", "stop", "delay", "error", "noretry", "escaped", "caught", None}
Idling == {"down", "start", "loop"}
Recording == {"wake", "complete", "periodic", "delay", "save", "failing"}

Moved(i, at, j) ==
    /\ WorkerOK'
    /\ worker'[i].at = at /\ worker'[i].job = j
    /\ \A k \in Instance \ {i} : worker'[k] = worker[k]

LEMMA WorkerMoves ==
    ASSUME WorkerOK, NEW i \in Instance, NEW w \in WorkerState, worker' = [worker EXCEPT ![i] = w],
           Carries(w)
    PROVE  Moved(i, w.at, w.job)
<1>1. worker' \in [Instance -> WorkerState] /\ worker'[i] = w /\ \A k \in Instance \ {i} : worker'[k] = worker[k]
  BY DEF WorkerOK
<1>2. \A k \in Instance : Carries(worker'[k])
  BY <1>1 DEF WorkerOK
<1>3. QED
  BY <1>1, <1>2 DEF WorkerOK, Moved

LEMMA StepMoves ==
    ASSUME WorkerOK, NEW i \in Instance, NEW at \in Places, NEW j \in Job, NEW copy \in Data,
           NEW out \in Outs, Step(i, at, j, copy, out),
           at = "claim" => copy.status = "processing", at \in Recording => copy.status \in Settled
    PROVE  Moved(i, at, j)
<1> DEFINE w == [at |-> at, job |-> j, copy |-> copy, out |-> out]
<1>1. w \in WorkerState
  BY DEF WorkerState, Places, Outs
<1>2. Carries(w)
  BY DEF Carries, Recording
<1>3. QED
  BY <1>1, <1>2, WorkerMoves DEF Step

LEMMA GotoMoves ==
    ASSUME WorkerOK, NEW i \in Instance, NEW at \in Places, Goto(i, at), at # "claim",
           at \notin Idling => worker[i].at \notin Idling,
           at \in Recording => worker[i].copy.status \in Settled
    PROVE  Moved(i, at, worker[i].job)
<1> DEFINE w == [worker[i] EXCEPT !.at = at]
<1>1. /\ w \in WorkerState /\ w.at = at /\ w.job = worker[i].job /\ w.copy = worker[i].copy
      /\ Carries(worker[i])
  BY DEF WorkerOK, WorkerState, Places
<1>2. Carries(w)
  BY <1>1 DEF Carries, Idling, Recording
<1>3. worker' = [worker EXCEPT ![i] = w]
  BY DEF Goto
<1> HIDE DEF w
<1>4. QED
  BY <1>1, <1>2, <1>3, WorkerMoves

LEMMA LoopMoves ==
    ASSUME WorkerOK, NEW i \in Instance, NEW w \in {Loop, Down}, worker' = [worker EXCEPT ![i] = w]
    PROVE  Moved(i, w.at, w.job) /\ w.at \in {"loop", "down"}
<1>1. w \in WorkerState /\ w.at \in {"loop", "down"}
  BY DEF Loop, Down, WorkerState
<1>2. Carries(w)
  BY <1>1 DEF Carries
<1>3. QED
  BY <1>1, <1>2, WorkerMoves

(* A worker that has the handler's outcome.                                  *)
LEMMA FinishMoves ==
    ASSUME WorkerOK, NEW i \in Instance, NEW at \in {"finish", "join", "fail"}, NEW out \in Outs,
           worker[i].at \notin Idling, worker' = [worker EXCEPT ![i].at = at, ![i].out = out]
    PROVE  Moved(i, at, worker[i].job)
<1> DEFINE w == [worker[i] EXCEPT !.at = at, !.out = out]
<1>1. /\ w \in WorkerState /\ w.at = at /\ w.job = worker[i].job /\ w.copy = worker[i].copy
      /\ Carries(worker[i])
  BY DEF WorkerOK, WorkerState, Executing, Outs
<1>2. Carries(w)
  BY <1>1 DEF Carries, Idling
<1>3. worker' = [worker EXCEPT ![i] = w]
  OBVIOUS
<1> HIDE DEF w
<1>4. QED
  BY <1>1, <1>2, <1>3, WorkerMoves

LEMMA RaiseMoves ==
    ASSUME WorkerOK, NEW i \in Instance, worker[i].at \notin Idling, Raise(i)
    PROVE  \E at \in {"finish", "join"} : Moved(i, at, worker[i].job)
<1>1. CASE worker[i].out = "delay"
  BY <1>1, FinishMoves DEF Raise, Outs
<1>2. CASE worker[i].out # "delay"
  BY <1>2, FinishMoves DEF Raise, Outs
<1>3. QED
  BY <1>1, <1>2

(* Who does not execute has no tick in progress.                             *)
LEMMA Silent ==
    ASSUME Inv, NEW i \in Instance, worker[i].at \in Idling \cup {"wake", "claim"}
    PROVE  beat[i] = None /\ ~Beating(i)
BY DEF Inv, BeatOK, Beating, Executing, Idling

LEMMA OthersStay == ASSUME Inv, UNCHANGED <<scan, request>> PROVE ScanOK' /\ RequestOK'
BY DEF Inv, ScanOK, RequestOK

(* A move that leaves the ticks in progress alone.                           *)
LEMMA MoveKeeps ==
    ASSUME Inv, Settles, NEW i \in Instance, NEW at, NEW j, Moved(i, at, j), beat' = beat,
           beat[i] = None \/ (at \in Executing \cup {"join"} /\ j = worker[i].job),
           ScanOK', RequestOK'
    PROVE  Inv'
<1>1. ASSUME NEW k \in Instance, beat[k] # None
      PROVE  worker'[k].job = worker[k].job /\ Beating(k)'
  <2>1. Beating(k)
    BY <1>1 DEF Inv, BeatOK
  <2>2. CASE k = i
    BY <1>1, <2>1, <2>2 DEF Moved, Beating
  <2>3. CASE k # i
    BY <2>1, <2>3 DEF Moved, Beating
  <2>4. QED
    BY <2>2, <2>3
<1>2. BeatOK'
  BY <1>1, BeatsKept
<1>3. QED
  BY <1>2 DEF Inv, Moved, Settles

(* A step that moves no worker.                                              *)
LEMMA StillKeeps ==
    ASSUME Inv, Settles, UNCHANGED worker, UNCHANGED beat, ScanOK', RequestOK'
    PROVE  Inv'
<1>1. ASSUME NEW k \in Instance, beat[k] # None
      PROVE  worker'[k].job = worker[k].job /\ Beating(k)'
  BY <1>1 DEF Inv, BeatOK, Beating
<1>2. BeatOK'
  BY <1>1, BeatsKept
<1>3. WorkerOK'
  BY DEF Inv, WorkerOK
<1>4. QED
  BY <1>2, <1>3 DEF Inv, Settles

-----------------------------------------------------------------------------
(* The consumer.                                                             *)
LEMMA Holds ==
    ASSUME Inv, NEW i \in Instance
    PROVE  /\ worker[i] \in WorkerState /\ worker[i].out \in Outs
           /\ worker[i].at \notin Idling => worker[i].job \in Job /\ worker[i].copy \in Data
           /\ worker[i].at = "claim" => worker[i].copy.status = "processing"
           /\ worker[i].at \in Recording => worker[i].copy.status \in Settled
BY DEF Inv, WorkerOK, WorkerState, Carries, Idling, Recording, Outs

LEMMA Stored ==
    ASSUME StoreOK, NEW j \in Job, Readable(j)
    PROVE  job[j] \in Data /\ job[j] # None
BY DEF StoreOK, Readable

LEMMA SettledIs == Settled \subseteq TaskStatus /\ \A s \in {"pending", "completed", "failed"} : s \in Settled
BY DEF Settled, TaskStatus

LEMMA StartConsumeKeeps == ASSUME Inv, NEW i \in Instance, StartConsume(i) PROVE Inv'
<1>1. Moved(i, "start", worker[i].job)
  BY GotoMoves DEF StartConsume, Inv, Places, Idling, Recording
<1>2. NewScan \in ScanState /\ NewScan.copy = None
  BY DEF NewScan, ScanState, With
<1>3. ScanOK' /\ RequestOK'
  BY <1>2 DEF StartConsume, Inv, ScanOK, RequestOK
<1>4. Settles /\ beat' = beat /\ beat[i] = None
  BY StaySettles, Silent DEF StartConsume, Inv, store, Idling
<1>5. QED
  BY <1>1, <1>3, <1>4, MoveKeeps

LEMMA EnterLoopKeeps == ASSUME Inv, NEW i \in Instance, EnterLoop(i) PROVE Inv'
<1>1. Moved(i, "loop", worker[i].job)
  BY GotoMoves DEF EnterLoop, Inv, Places, Idling, Recording
<1>2. Settles /\ beat' = beat /\ beat[i] = None
  BY StaySettles, Silent DEF EnterLoop, Inv, store, Idling
<1>3. QED
  BY <1>1, <1>2, OthersStay, MoveKeeps DEF EnterLoop

LEMMA WakeReadKeeps == ASSUME Inv, NEW i \in Instance, NEW j \in Job, WakeRead(i, j) PROVE Inv'
<1>1. Settles /\ beat' = beat /\ beat[i] = None
  BY StaySettles, Silent DEF WakeRead, Inv, store, Idling
<1>2. ScanOK' /\ RequestOK'
  BY OthersStay DEF WakeRead
<1>3. CASE Readable(j)
  <2> DEFINE d == [job[j] EXCEPT !.status = "pending"]
  <2>1. d \in Data /\ d.status \in Settled
    BY <1>3, Stored, Statuses, SettledIs DEF Inv
  <2>2. Step(i, "wake", j, d, None)
    BY <1>3 DEF WakeRead
  <2> HIDE DEF d
  <2>3. Moved(i, "wake", j)
    BY <2>1, <2>2, StepMoves DEF Inv, Places, Outs
  <2>4. QED
    BY <1>1, <1>2, <2>3, MoveKeeps
<1>4. CASE ~Readable(j)
  BY <1>1, <1>2, <1>4, StillKeeps DEF WakeRead
<1>5. QED
  BY <1>3, <1>4

LEMMA WakeWriteKeeps == ASSUME Inv, NEW i \in Instance, WakeWrite(i) PROVE Inv'
<1>1. Settles
  BY TrySettles, Holds DEF WakeWrite, Inv, Idling, Recording
<1>2. beat' = beat /\ beat[i] = None
  BY Silent DEF WakeWrite
<1>3. Moved(i, Loop.at, Loop.job)
  BY LoopMoves DEF WakeWrite, Inv
<1>4. QED
  BY <1>1, <1>2, <1>3, OthersStay, MoveKeeps DEF WakeWrite

LEMMA PopKeeps == ASSUME Inv, NEW i \in Instance, Pop(i) PROVE Inv'
<1>1. PICK j \in Job : Readable(j) /\ Step(i, "claim", j, [job[j] EXCEPT !.status = "processing"], None)
  BY DEF Pop
<1> DEFINE d == [job[j] EXCEPT !.status = "processing"]
<1>2. d \in Data /\ d.status = "processing" /\ Step(i, "claim", j, d, None)
  BY <1>1, Stored, Statuses DEF Inv, TaskStatus
<1> HIDE DEF d
<1>3. Moved(i, "claim", j)
  BY <1>2, StepMoves DEF Inv, Places, Outs, Recording
<1>4. Settles /\ beat' = beat /\ beat[i] = None
  BY StaySettles, Silent DEF Pop, Inv, store, Idling
<1>5. QED
  BY <1>3, <1>4, OthersStay, MoveKeeps DEF Pop

LEMMA RunKeeps ==
    ASSUME JobQueueAssumption, Inv, NEW i \in Instance, NEW out \in Outcome, Run(i, out) PROVE Inv'
<1>1. out \in Outs
  BY DEF JobQueueAssumption, Outs
<1>2. Moved(i, "finish", worker[i].job)
  BY <1>1, FinishMoves DEF Run, Inv, Idling
<1>3. Settles /\ beat' = beat
  BY StaySettles DEF Run, Inv, store
<1>4. QED
  BY <1>2, <1>3, OthersStay, MoveKeeps DEF Run, Executing

(* Recording raised: nothing was written.                                    *)
LEMMA RaiseKeeps ==
    ASSUME Inv, NEW i \in Instance, worker[i].at \notin Idling, Raise(i),
           UNCHANGED <<job, draft, beat, scan, request>>
    PROVE  Inv'
<1>1. PICK at \in {"finish", "join"} : Moved(i, at, worker[i].job)
  BY RaiseMoves DEF Inv
<1>2. Settles
  BY StaySettles DEF Inv
<1>3. QED
  BY <1>1, <1>2, OthersStay, MoveKeeps DEF Executing

LEMMA CompleteReadKeeps == ASSUME Inv, NEW i \in Instance, CompleteRead(i) PROVE Inv'
<1> DEFINE j == worker[i].job
           d == [job[j] EXCEPT !.status = "completed"]
<1>1. j \in Job /\ worker[i].out \in Outs
  BY Holds DEF CompleteRead, Idling
<1>2. CASE Readable(j)
  <2>1. d \in Data /\ d.status \in Settled
    BY <1>1, <1>2, Stored, Statuses, SettledIs DEF Inv
  <2>2. Step(i, "complete", j, d, worker[i].out)
    BY <1>2 DEF CompleteRead
  <2>3. Settles /\ beat' = beat
    BY StaySettles DEF CompleteRead, Inv, store
  <2> HIDE DEF d
  <2>4. Moved(i, "complete", j)
    BY <1>1, <2>1, <2>2, StepMoves DEF Inv, Places, Executing
  <2>5. QED
    BY <2>3, <2>4, OthersStay, MoveKeeps DEF CompleteRead, Executing
<1>3. CASE ~Readable(j)
  BY <1>3, RaiseKeeps DEF CompleteRead, store, Idling
<1>4. QED
  BY <1>2, <1>3

LEMMA CompleteWriteKeeps == ASSUME Inv, NEW i \in Instance, CompleteWrite(i) PROVE Inv'
<1> DEFINE j == worker[i].job
<1>1. j \in Job /\ worker[i].copy \in Data /\ worker[i].copy.status \in Settled
  BY Holds DEF CompleteWrite, Idling, Recording
<1>2. CASE Readable(j)
  <2>1. Settles
    BY <1>1, <1>2, Stored, WriteSettles DEF CompleteWrite, Inv
  <2>2. PICK at \in {"delay", "periodic", "join"} : Goto(i, at)
    BY <1>2 DEF CompleteWrite
  <2>3. Moved(i, at, j)
    BY <1>1, <2>2, GotoMoves DEF CompleteWrite, Inv, Places, Executing, Idling
  <2>4. QED
    BY <2>1, <2>3, OthersStay, MoveKeeps DEF CompleteWrite, Executing
<1>3. CASE ~Readable(j)
  BY <1>3, RaiseKeeps DEF CompleteWrite, store, Idling
<1>4. QED
  BY <1>2, <1>3

LEMMA RescheduleKeeps ==
    ASSUME Inv, NEW i \in Instance, worker[i].at \notin Idling, Readable(worker[i].job),
           NEW d \in Data, d.status \in Settled, Write(worker[i].job, d, FALSE), Goto(i, "join"),
           UNCHANGED <<beat, scan, request>>
    PROVE  Inv'
<1>1. Settles
  BY Holds, Stored, WriteSettles DEF Inv
<1>2. Moved(i, "join", worker[i].job)
  BY GotoMoves DEF Inv, Places, Recording
<1>3. QED
  BY <1>1, <1>2, OthersStay, MoveKeeps

LEMMA PeriodicWriteKeeps == ASSUME Inv, NEW i \in Instance, PeriodicWrite(i) PROVE Inv'
<1> DEFINE d == [worker[i].copy EXCEPT !.runs = @ + 1]
           e == [d EXCEPT !.retries = 0]
<1>1. worker[i].at = "periodic" /\ UNCHANGED <<beat, scan, request>>
  BY DEF PeriodicWrite
<1>2. worker[i].job \in Job /\ worker[i].copy \in Data /\ worker[i].copy.status \in Settled
  BY <1>1, Holds DEF Idling, Recording
<1>3. d \in Data /\ d.status \in Settled
  BY <1>2, Counted
<1>4. e \in Data /\ e.status \in Settled
  <2> HIDE DEF d
  <2>1. QED
    BY <1>3, Counted
<1>5. \/ Readable(worker[i].job) /\ Write(worker[i].job, e, FALSE) /\ Goto(i, "join")
      \/ Readable(worker[i].job) /\ Write(worker[i].job, d, FALSE) /\ Goto(i, "join")
      \/ Raise(i) /\ UNCHANGED <<job, draft>>
  BY DEF PeriodicWrite, Reschedule, store
<1> HIDE DEF d, e
<1>6. QED
  BY <1>1, <1>3, <1>4, <1>5, RescheduleKeeps, RaiseKeeps DEF Idling

LEMMA DelayWriteKeeps == ASSUME Inv, NEW i \in Instance, DelayWrite(i) PROVE Inv'
<1> DEFINE d == [worker[i].copy EXCEPT !.retries = 0]
<1>1. worker[i].at = "delay" /\ UNCHANGED <<beat, scan, request>>
  BY DEF DelayWrite
<1>2. d \in Data /\ d.status \in Settled
  BY <1>1, Holds, Counted DEF Idling, Recording
<1>3. \/ Readable(worker[i].job) /\ Write(worker[i].job, d, FALSE) /\ Goto(i, "join")
      \/ Raise(i) /\ UNCHANGED <<job, draft>>
  BY DEF DelayWrite, Reschedule, store
<1> HIDE DEF d
<1>4. QED
  BY <1>1, <1>2, <1>3, RescheduleKeeps, RaiseKeeps DEF Idling

LEMMA ErrorReadKeeps == ASSUME Inv, NEW i \in Instance, ErrorRead(i) PROVE Inv'
<1> DEFINE j == worker[i].job
           d == IF Readable(j) THEN job[j] ELSE worker[i].copy
           e == Failure(d, worker[i].out)
<1>1. j \in Job /\ worker[i].copy \in Data /\ worker[i].out \in Outs
  BY Holds DEF ErrorRead, Idling
<1>2. d \in Data
  BY <1>1, Stored DEF Inv
<1>3. Step(i, "save", j, e, worker[i].out)
  BY DEF ErrorRead
<1>4. e \in Data /\ e.status \in Settled
  <2> HIDE DEF d
  <2>1. QED
    BY <1>2, Failed
<1> HIDE DEF e
<1>5. Moved(i, "save", j)
  BY <1>1, <1>3, <1>4, StepMoves DEF Inv, Places, Executing
<1>6. Settles /\ beat' = beat
  BY StaySettles DEF ErrorRead, Inv, store
<1>7. QED
  BY <1>5, <1>6, OthersStay, MoveKeeps DEF ErrorRead, Executing

LEMMA ErrorWriteKeeps == ASSUME Inv, NEW i \in Instance, ErrorWrite(i) PROVE Inv'
<1>1. Settles
  BY Holds, TrySettles DEF ErrorWrite, Inv, Idling, Recording
<1>2. PICK at \in {"join", "fail"} : Goto(i, at)
  BY DEF ErrorWrite
<1>3. Moved(i, at, worker[i].job)
  BY <1>2, GotoMoves DEF ErrorWrite, Inv, Places, Executing, Idling, Recording
<1>4. QED
  BY <1>1, <1>3, OthersStay, MoveKeeps DEF ErrorWrite, Executing

LEMMA FailReadKeeps == ASSUME Inv, NEW i \in Instance, FailRead(i) PROVE Inv'
<1> DEFINE j == worker[i].job
           d == [job[j] EXCEPT !.status = "failed"]
<1>1. j \in Job /\ worker[i].out \in Outs /\ worker[i].at = "fail"
  BY Holds DEF FailRead, Idling
<1>2. Settles /\ beat' = beat
  BY StaySettles DEF FailRead, Inv, store
<1>3. CASE Readable(j)
  <2>1. d \in Data /\ d.status \in Settled
    BY <1>1, <1>3, Stored, Statuses, SettledIs DEF Inv
  <2>2. Step(i, "failing", j, d, worker[i].out)
    BY <1>3 DEF FailRead
  <2> HIDE DEF d
  <2>3. Moved(i, "failing", j)
    BY <1>1, <2>1, <2>2, StepMoves DEF Inv, Places, Executing
  <2>4. QED
    BY <1>2, <2>3, OthersStay, MoveKeeps DEF FailRead, Executing
<1>4. CASE ~Readable(j)
  <2>1. Moved(i, "join", j)
    BY <1>1, <1>4, GotoMoves DEF FailRead, Inv, Places, Idling, Recording
  <2>2. QED
    BY <1>2, <2>1, OthersStay, MoveKeeps DEF FailRead
<1>5. QED
  BY <1>3, <1>4

LEMMA FailWriteKeeps == ASSUME Inv, NEW i \in Instance, FailWrite(i) PROVE Inv'
<1>1. Settles
  BY Holds, TrySettles DEF FailWrite, Inv, Idling, Recording
<1>2. Moved(i, "join", worker[i].job)
  BY GotoMoves DEF FailWrite, Inv, Places, Idling, Recording
<1>3. QED
  BY <1>1, <1>2, OthersStay, MoveKeeps DEF FailWrite

LEMMA JoinKeeps == ASSUME Inv, NEW i \in Instance, Join(i) PROVE Inv'
<1>1. Settles /\ beat' = beat /\ beat[i] = None
  BY StaySettles DEF Join, Inv, store
<1>2. ScanOK' /\ RequestOK'
  BY OthersStay DEF Join
<1>3. CASE worker[i].out = "escaped"
  <2>1. Moved(i, "fail", worker[i].job)
    BY <1>3, FinishMoves DEF Join, Inv, Idling, Outs
  <2>2. QED
    BY <1>1, <1>2, <2>1, MoveKeeps
<1>4. CASE worker[i].out # "escaped"
  <2>1. Moved(i, Loop.at, Loop.job)
    BY <1>4, LoopMoves DEF Join, Inv
  <2>2. QED
    BY <1>1, <1>2, <2>1, MoveKeeps
<1>5. QED
  BY <1>3, <1>4

LEMMA StayKeeps == ASSUME Inv, UNCHANGED <<job, draft, worker, beat, scan, request>> PROVE Inv'
BY StaySettles, OthersStay, StillKeeps DEF Inv

-----------------------------------------------------------------------------
(* The claim and the heartbeat, which write drafts.                          *)
OneInstance == \A i, k \in Instance : i = k

(* A claim of one instance would make a tick of another one, begun before,   *)
(* write to a draft again.                                                   *)
LEMMA ClaimKeeps == ASSUME OneInstance, Inv, NEW i \in Instance, Claim(i) PROVE Inv'
<1> DEFINE j == worker[i].job
<1>1. /\ j \in Job /\ worker[i].copy \in Data /\ worker[i].copy.status = "processing"
      /\ \A k \in Instance : beat[k] = None
  BY Holds, Silent DEF Claim, Idling, OneInstance
<1>2. UNCHANGED <<beat, scan, request>> /\ worker[i].at = "claim"
  BY DEF Claim
<1>3. CASE Readable(j)
  <2>1. /\ job' = [job EXCEPT ![j] = worker[i].copy] /\ Goto(i, "run")
        /\ draft' = [draft EXCEPT ![j] = IF worker[i].copy = job[j] THEN draft[j] ELSE TRUE]
    BY <1>3 DEF Claim, Write
  <2>2. job[j] # None /\ job[j] \in Data
    BY <1>1, <1>3, Stored DEF Inv
  <2>3. /\ job' \in [Job -> Data \cup {None}] /\ job'[j] = worker[i].copy
        /\ \A k \in Job \ {j} : job'[k] = job[k]
    BY <1>1, <2>1 DEF Inv, StoreOK
  <2>4. draft' \in [Job -> BOOLEAN] /\ draft'[j] /\ \A k \in Job \ {j} : draft'[k] = draft[k]
    BY <1>1, <2>1, <2>2 DEF Inv, StoreOK, DraftWhileProcessing
  <2>5. StoreOK'
    BY <1>1, <2>3, <2>4 DEF Inv, StoreOK, DraftWhileProcessing
  <2>6. WorkerOK'
    BY <1>2, <2>1, GotoMoves DEF Inv, Places, Executing, Idling, Recording, Moved
  <2>7. BeatOK'
    BY <1>1, <1>2 DEF Inv, BeatOK
  <2>8. QED
    BY <1>2, <2>5, <2>6, <2>7, OthersStay DEF Inv
<1>4. CASE ~Readable(j)
  <2>1. Moved(i, Loop.at, Loop.job)
    BY <1>4, LoopMoves DEF Claim, Inv
  <2>2. Settles
    BY <1>4, StaySettles DEF Claim, store, Inv
  <2>3. QED
    BY <1>1, <1>2, <2>1, <2>2, OthersStay, MoveKeeps
<1>5. QED
  BY <1>3, <1>4

LEMMA TickReadKeeps == ASSUME Inv, NEW i \in Instance, TickRead(i) PROVE Inv'
<1> DEFINE j == worker[i].job
           b == [job[j] EXCEPT !.hb = "recent"]
<1>1. j \in Job /\ worker[i].at \in Executing /\ Readable(j)
  BY Holds DEF TickRead, Executing, Idling
<1>2. job[j] \in Data /\ job[j] # None
  BY <1>1, Stored DEF Inv
<1>3. b \in Data /\ Like(job[j], b)
  BY <1>2, Beats
<1>4. /\ beat' = [beat EXCEPT ![i] = b] /\ UNCHANGED <<job, draft, worker, scan, request>>
  BY DEF TickRead, store
<1> HIDE DEF b
<1>5. beat' \in [Instance -> Data \cup {None}] /\ beat'[i] = b /\ \A k \in Instance \ {i} : beat'[k] = beat[k]
  BY <1>3, <1>4 DEF Inv, BeatOK
<1>6. Beating(i) /\ Fresh(b, j)
  BY <1>1, <1>2, <1>3 DEF Beating, Fresh
<1>7. \A k \in Instance : beat'[k] # None => Beating(k) /\ Fresh(beat'[k], worker[k].job)
  BY <1>5, <1>6 DEF Inv, BeatOK
<1>8. BeatOK'
  BY <1>4, <1>5, <1>7 DEF BeatOK, Beating, Fresh
<1>9. StoreOK' /\ WorkerOK'
  BY <1>4 DEF Inv, StoreOK, DraftWhileProcessing, WorkerOK
<1>10. QED
  BY <1>4, <1>8, <1>9, OthersStay DEF Inv

(* A tick that is over.                                                      *)
LEMMA TickEnds ==
    ASSUME Inv, NEW i \in Instance, beat' = [beat EXCEPT ![i] = None], UNCHANGED worker,
           \A k \in Instance \ {i} : beat[k] # None => Fresh(beat[k], worker[k].job)'
    PROVE  BeatOK'
<1>1. beat' \in [Instance -> Data \cup {None}] /\ beat'[i] = None /\ \A k \in Instance \ {i} : beat'[k] = beat[k]
  BY DEF Inv, BeatOK
<1>2. \A k \in Instance : beat[k] # None => Beating(k)'
  BY DEF Inv, BeatOK, Beating
<1>3. \A k \in Instance : beat'[k] # None => beat'[k] = beat[k] /\ k # i
  BY <1>1
<1>4. \A k \in Instance : beat'[k] # None => Beating(k)' /\ Fresh(beat[k], worker[k].job)'
  BY <1>2, <1>3 DEF Inv, BeatOK
<1>5. QED
  BY <1>1, <1>3, <1>4 DEF BeatOK, Fresh

(* What a tick checks is HEAD but for the heartbeat.                         *)
LEMMA Drafted ==
    ASSUME Inv, NEW i \in Instance, beat[i] # None
    PROVE  LET j == worker[i].job IN
           /\ j \in Job /\ beat[i] \in Data
           /\ draft[j] /\ job[j] # None => job[j] \in Data /\ Like(job[j], beat[i])
                                          /\ job[j].status = "processing"
<1> DEFINE j == worker[i].job
<1>1. Beating(i) /\ Fresh(beat[i], j) /\ beat[i] \in Data
  BY DEF Inv, BeatOK
<1>2. j \in Job
  BY <1>1, Holds DEF Beating, Executing, Idling
<1>3. QED
  BY <1>1, <1>2 DEF Inv, StoreOK, DraftWhileProcessing, Fresh

LEMMA TickCheckKeeps ==
    ASSUME Inv, CheckOK, NEW i \in Instance, TickCheck(i)
    PROVE  Inv' /\ CheckOK'
<1> DEFINE j == worker[i].job
<1>1. UNCHANGED <<job, draft, worker, scan, request>> /\ beat[i] # None
  BY DEF TickCheck, store
<1>2. CASE Readable(j) /\ draft[j]
  <2>1. passed' = passed \cup {i} /\ beat' = beat
    BY <1>2 DEF TickCheck
  <2>2. beat[i] \in Data /\ beat[i].status = "processing"
    BY <1>1, <1>2, Drafted DEF Readable, Like
  <2>3. CheckOK'
    BY <2>1, <2>2 DEF CheckOK
  <2>4. QED
    BY <1>1, <2>1, <2>3, StayKeeps
<1>3. CASE ~(Readable(j) /\ draft[j])
  <2>1. beat' = [beat EXCEPT ![i] = None] /\ passed' = passed /\ i \notin passed
    BY <1>3 DEF TickCheck
  <2>2. CheckOK'
    BY <2>1 DEF CheckOK, Inv, BeatOK
  <2>3. StoreOK' /\ WorkerOK'
    BY <1>1 DEF Inv, StoreOK, DraftWhileProcessing, WorkerOK
  <2>4. \A k \in Instance \ {i} : beat[k] # None => Fresh(beat[k], worker[k].job)'
    BY <1>1, <2>1 DEF Inv, BeatOK, Fresh
  <2>5. QED
    BY <1>1, <2>1, <2>2, <2>3, <2>4, TickEnds, OthersStay DEF Inv
<1>4. QED
  BY <1>2, <1>3

(* The job a tick writes, be it to HEAD or over an outcome.                  *)
LEMMA TickWrites ==
    ASSUME Inv, CheckOK, NEW i \in Instance, TickWrite(i)
    PROVE  LET j == worker[i].job IN
           /\ j \in Job /\ beat[i] \in Data /\ beat[i].status = "processing"
           /\ draft[j] /\ job[j] # None => job[j] \in Data /\ Like(job[j], beat[i])
           /\ job' \in [Job -> Data \cup {None}] /\ job'[j] = beat[i] /\ \A k \in Job \ {j} : job'[k] = job[k]
           /\ draft' \in [Job -> BOOLEAN] /\ draft'[j] /\ \A k \in Job \ {j} : draft'[k] = draft[k]
<1>1. beat[i] \in Data /\ beat[i].status = "processing" /\ beat[i] # None
  BY NoneAssumption DEF CheckOK, TickWrite
<1>2. /\ job' = [job EXCEPT ![worker[i].job] = beat[i]]
      /\ draft' = [draft EXCEPT ![worker[i].job] = TRUE]
  BY DEF TickWrite
<1>3. QED
  BY <1>1, <1>2, Drafted DEF Inv, StoreOK

LEMMA TickWriteKeeps ==
    ASSUME OneInstance, Inv, CheckOK, NEW i \in Instance, TickWrite(i)
    PROVE  Inv' /\ CheckOK'
<1>1. UNCHANGED <<worker, scan, request>> /\ beat' = [beat EXCEPT ![i] = None] /\ passed' = passed \ {i}
  BY DEF TickWrite
<1>2. \A k \in Instance : beat'[k] = None /\ k = i
  BY <1>1 DEF OneInstance, Inv, BeatOK
<1>3. StoreOK'
  BY TickWrites DEF Inv, StoreOK, DraftWhileProcessing
<1>4. BeatOK'
  BY <1>1, <1>2 DEF Inv, BeatOK
<1>5. CheckOK'
  BY <1>1, <1>2 DEF CheckOK
<1>6. QED
  BY <1>1, <1>3, <1>4, <1>5, OthersStay DEF Inv, WorkerOK

LEMMA HeartbeatAgesKeeps == ASSUME Inv, NEW j \in Job, HeartbeatAges(j) PROVE Inv'
<1> DEFINE d == [job[j] EXCEPT !.hb = "old"]
<1>1. job[j] # None /\ job[j] \in Data
  BY DEF HeartbeatAges, Inv, StoreOK
<1>2. d \in Data /\ Like(d, job[j])
  BY <1>1, Beats
<1>3. job' = [job EXCEPT ![j] = d] /\ UNCHANGED <<draft, worker, beat, scan, request>>
  BY DEF HeartbeatAges
<1> HIDE DEF d
<1>4. job' \in [Job -> Data \cup {None}] /\ job'[j] = d /\ \A k \in Job \ {j} : job'[k] = job[k]
  BY <1>2, <1>3 DEF Inv, StoreOK
<1>5. StoreOK'
  BY <1>1, <1>2, <1>3, <1>4 DEF Inv, StoreOK, DraftWhileProcessing, Like
<1>6. ASSUME NEW k \in Instance, beat[k] # None PROVE Beating(k)' /\ Fresh(beat[k], worker[k].job)'
  <2>1. Beating(k) /\ Fresh(beat[k], worker[k].job) /\ worker[k].job \in Job
    BY <1>6, Holds DEF Inv, BeatOK, Beating, Executing, Idling
  <2>2. Fresh(beat[k], worker[k].job)'
    BY <1>2, <1>3, <1>4, <2>1 DEF Fresh, Like
  <2>3. QED
    BY <1>3, <2>1, <2>2 DEF Beating
<1>7. BeatOK'
  BY <1>3, <1>6 DEF Inv, BeatOK
<1>8. QED
  BY <1>3, <1>5, <1>7, OthersStay DEF Inv, WorkerOK

-----------------------------------------------------------------------------
(* Recovery.                                                                 *)
LEMMA ScanStartKeeps == ASSUME Inv, NEW i \in Instance, ScanStart(i) PROVE Inv'
<1>1. NewScan \in ScanState /\ NewScan.copy = None
  BY DEF NewScan, ScanState, With
<1>2. ScanOK' /\ RequestOK'
  BY <1>1 DEF ScanStart, Inv, ScanOK, RequestOK
<1>3. Settles
  BY StaySettles DEF ScanStart, Inv, store
<1>4. QED
  BY <1>2, <1>3, StillKeeps DEF ScanStart

LEMMA ScanReadKeeps == ASSUME Inv, NEW i \in Instance, NEW j \in Job, ScanRead(i, j) PROVE Inv'
<1> DEFINE d == [job[j] EXCEPT !.status = "failed"]
           s == IF Readable(j) /\ job[j].hb # "recent"
                THEN [todo |-> scan[i].todo \ {j}, job |-> j, copy |-> d]
                ELSE [scan[i] EXCEPT !.todo = scan[i].todo \ {j}]
<1>1. scan[i] \in ScanState /\ scan[i].copy = None
  BY DEF ScanRead, Inv, ScanOK
<1>2. Readable(j) => d \in Data /\ d.status \in Settled
  BY Stored, Statuses, SettledIs DEF Inv
<1>3. scan' = [scan EXCEPT ![i] = s] /\ UNCHANGED <<store, worker, beat, request>>
  BY DEF ScanRead
<1>4. s \in ScanState /\ (s.copy # None => s.job \in Job /\ s.copy.status \in Settled)
  <2> HIDE DEF d
  <2>1. CASE Readable(j) /\ job[j].hb # "recent"
    BY <1>1, <1>2, <2>1 DEF ScanState
  <2>2. CASE ~(Readable(j) /\ job[j].hb # "recent")
    BY <1>1, <2>2 DEF ScanState
  <2>3. QED
    BY <2>1, <2>2
<1> HIDE DEF s
<1>5. ScanOK' /\ RequestOK'
  BY <1>3, <1>4 DEF Inv, ScanOK, RequestOK
<1>6. Settles
  BY <1>3, StaySettles DEF Inv, store
<1>7. QED
  BY <1>3, <1>5, <1>6, StillKeeps

LEMMA ScanWriteKeeps == ASSUME Inv, NEW i \in Instance, ScanWrite(i) PROVE Inv'
<1>1. /\ scan[i] \in ScanState /\ scan[i].job \in Job /\ scan[i].copy \in Data
      /\ scan[i].copy.status \in Settled
  BY DEF ScanWrite, Inv, ScanOK, ScanState
<1>2. Settles
  BY <1>1, TrySettles DEF ScanWrite, Inv
<1>3. [scan[i] EXCEPT !.job = None, !.copy = None] \in ScanState
  BY <1>1 DEF ScanState
<1>4. ScanOK' /\ RequestOK'
  BY <1>1, <1>3 DEF ScanWrite, Inv, ScanOK, ScanState, RequestOK
<1>5. QED
  BY <1>2, <1>4, StillKeeps DEF ScanWrite

LEMMA ScanEndKeeps == ASSUME Inv, NEW i \in Instance, ScanEnd(i) PROVE Inv'
<1>1. ScanOK' /\ RequestOK'
  BY DEF ScanEnd, Inv, ScanOK, RequestOK
<1>2. Settles
  BY StaySettles DEF ScanEnd, Inv, store
<1>3. QED
  BY <1>1, <1>2, StillKeeps DEF ScanEnd

-----------------------------------------------------------------------------
(* Requests.                                                                 *)
Asks(q) ==
    /\ q \in RequestState
    /\ q.at \in {"putting", "rerun"} => q.copy \in Data /\ q.copy.status \in Settled

LEMMA RequestKeeps ==
    ASSUME Inv, Settles, NEW i \in Instance, NEW q, q = None \/ Asks(q),
           request' = [request EXCEPT ![i] = q], UNCHANGED <<worker, beat, scan>>
    PROVE  Inv'
<1>1. RequestOK'
  BY DEF Inv, RequestOK, Asks
<1>2. ScanOK'
  BY DEF Inv, ScanOK
<1>3. QED
  BY <1>1, <1>2, StillKeeps

LEMMA CreateKeeps == ASSUME Inv, NEW i \in Instance, NEW j \in Job, Create(i, j) PROVE Inv'
<1> DEFINE d == [status |-> "pending", retries |-> 0, runs |-> 0, hb |-> "none"]
           q == IF j \in Delayed THEN [at |-> "put", job |-> j, copy |-> None] ELSE None
<1>1. d \in Data /\ d.status = "pending" /\ job[j] = None
  BY DEF Data, TaskStatus, Create
<1>2. q = None \/ Asks(q)
  BY DEF Asks, RequestState
<1>3. /\ job' = [job EXCEPT ![j] = d] /\ draft' = [draft EXCEPT ![j] = FALSE]
      /\ request' = [request EXCEPT ![i] = q] /\ UNCHANGED <<worker, beat, scan>>
  BY DEF Create
<1> HIDE DEF d, q
<1>4. /\ job' \in [Job -> Data \cup {None}] /\ job'[j] = d /\ \A k \in Job \ {j} : job'[k] = job[k]
      /\ draft' \in [Job -> BOOLEAN] /\ ~draft'[j] /\ \A k \in Job \ {j} : draft'[k] = draft[k]
  BY <1>1, <1>3 DEF Inv, StoreOK
<1>5. Settles
  BY <1>1, <1>4 DEF Inv, StoreOK, DraftWhileProcessing, Settles
<1>6. QED
  BY <1>2, <1>3, <1>5, RequestKeeps

LEMMA PutReadKeeps == ASSUME Inv, NEW i \in Instance, PutRead(i) PROVE Inv'
<1> DEFINE j == request[i].job
           d == [job[j] EXCEPT !.status = "completed"]
           q == IF Readable(j) /\ job[j].runs = 0
                THEN [at |-> "putting", job |-> j, copy |-> d] ELSE None
<1>1. request[i] \in RequestState /\ j \in Job
  BY DEF PutRead, Inv, RequestOK, RequestState
<1>2. Readable(j) => d \in Data /\ d.status \in Settled
  BY <1>1, Stored, Statuses, SettledIs DEF Inv
<1>3. request' = [request EXCEPT ![i] = q] /\ UNCHANGED <<store, worker, beat, scan>>
  BY DEF PutRead
<1>4. q = None \/ Asks(q)
  <2> HIDE DEF d
  <2>1. QED
    BY <1>1, <1>2 DEF Asks, RequestState
<1>5. Settles
  BY <1>3, StaySettles DEF Inv, store
<1> HIDE DEF q
<1>6. QED
  BY <1>3, <1>4, <1>5, RequestKeeps

LEMMA PutWriteKeeps == ASSUME Inv, NEW i \in Instance, PutWrite(i) PROVE Inv'
<1>1. request[i].job \in Job /\ request[i].copy \in Data /\ request[i].copy.status \in Settled
  BY DEF PutWrite, Inv, RequestOK, RequestState
<1>2. Settles
  BY <1>1, TrySettles DEF PutWrite, Inv
<1>3. QED
  BY <1>2, RequestKeeps DEF PutWrite

LEMMA RerunKeeps == ASSUME Inv, NEW i \in Instance, NEW j \in Job, Rerun(i, j) PROVE Inv'
<1> DEFINE d == [job[j] EXCEPT !.status = "pending", !.retries = 0]
           q == [at |-> "rerun", job |-> j, copy |-> d]
<1>1. d \in Data /\ d.status \in Settled
  <2>1. job[j] \in Data
    BY Stored DEF Inv, Rerun
  <2>2. d \in Data /\ d.status = "pending"
    BY <2>1, Enqueued
  <2>3. QED
    BY <2>2, SettledIs
<1>2. request' = [request EXCEPT ![i] = q] /\ UNCHANGED <<store, worker, beat, scan>>
  BY DEF Rerun
<1> HIDE DEF d
<1>3. Asks(q)
  BY <1>1 DEF Asks, RequestState
<1>4. Settles
  BY <1>2, StaySettles DEF Inv, store
<1> HIDE DEF q
<1>5. QED
  BY <1>2, <1>3, <1>4, RequestKeeps

LEMMA RerunWriteKeeps == ASSUME Inv, NEW i \in Instance, RerunWrite(i) PROVE Inv'
<1> DEFINE j == request[i].job
           q == IF Readable(j) /\ j \in Delayed THEN [at |-> "put", job |-> j, copy |-> None] ELSE None
<1>1. j \in Job /\ request[i].copy \in Data /\ request[i].copy.status \in Settled
  BY DEF RerunWrite, Inv, RequestOK, RequestState
<1>2. Settles
  BY <1>1, TrySettles DEF RerunWrite, Inv
<1>3. q = None \/ Asks(q)
  BY <1>1 DEF Asks, RequestState
<1>4. request' = [request EXCEPT ![i] = q] /\ UNCHANGED <<worker, beat, scan>>
  BY DEF RerunWrite
<1> HIDE DEF q
<1>5. QED
  BY <1>2, <1>3, <1>4, RequestKeeps

LEMMA CrashKeeps == ASSUME Inv, NEW i \in Instance, Crash(i) PROVE Inv'
<1>1. Moved(i, Down.at, Down.job)
  BY LoopMoves DEF Crash, Inv
<1>2. UNCHANGED <<job, draft>>
  BY DEF Crash, store
<1>3. /\ beat' \in [Instance -> Data \cup {None}] /\ beat'[i] = None
      /\ \A k \in Instance \ {i} : beat'[k] = beat[k]
  BY DEF Crash, Inv, BeatOK
<1>4. \A k \in Instance : beat'[k] # None =>
        Beating(k) /\ Fresh(beat'[k], worker[k].job) /\ worker'[k] = worker[k]
  BY <1>1, <1>3 DEF Inv, BeatOK, Moved
<1>5. BeatOK'
  BY <1>2, <1>3, <1>4 DEF BeatOK, Beating, Fresh
<1>6. ScanOK' /\ RequestOK'
  BY DEF Crash, Inv, ScanOK, RequestOK
<1>7. StoreOK' /\ WorkerOK'
  BY <1>1, <1>2 DEF Inv, StoreOK, DraftWhileProcessing, Moved
<1>8. QED
  BY <1>5, <1>6, <1>7 DEF Inv

-----------------------------------------------------------------------------
LEMMA InvInit == ASSUME Init PROVE Inv
<1>1. StoreOK /\ ScanOK /\ RequestOK
  BY DEF Init, StoreOK, DraftWhileProcessing, ScanOK, RequestOK
<1>2. Down \in WorkerState /\ Down.at = "down"
  BY DEF Down, WorkerState
<1>3. WorkerOK
  BY <1>2 DEF Init, WorkerOK, Carries
<1>4. BeatOK
  BY DEF Init, BeatOK
<1>5. QED
  BY <1>1, <1>3, <1>4 DEF Inv

LEMMA CheckKept == ASSUME CheckOK, UNCHANGED <<beat, passed>> PROVE CheckOK'
BY DEF CheckOK

(* Only the heartbeat and a crash change the ticks in progress.              *)
LEMMA CheckSteps ==
    ASSUME Inv, CheckOK, [Next]_vars,
           \A i \in Instance : ~TickCheck(i) /\ ~TickWrite(i)
    PROVE  CheckOK'
<1>1. ASSUME NEW i \in Instance, Consume(i) PROVE UNCHANGED <<beat, passed>>
  BY <1>1 DEF Consume, EnterLoop, WakeWrite, Pop, Claim, Run, CompleteRead, CompleteWrite,
     PeriodicWrite, DelayWrite, ErrorRead, ErrorWrite, FailRead, FailWrite, Join
<1>2. ASSUME NEW i \in Instance, Recover(i) \/ Answer(i) \/ StartConsume(i)
      PROVE  UNCHANGED <<beat, passed>>
  BY <1>2 DEF Recover, ScanStart, ScanRead, ScanWrite, ScanEnd, Answer, PutRead, PutWrite,
     RerunWrite, StartConsume
<1>3. ASSUME NEW i \in Instance, NEW j \in Job, WakeRead(i, j) \/ Create(i, j) \/ Rerun(i, j)
      PROVE  UNCHANGED <<beat, passed>>
  BY <1>3 DEF WakeRead, Create, Rerun
<1>4. ASSUME NEW j \in Job, HeartbeatAges(j) \/ Delete(j) \/ Restore(j)
      PROVE  UNCHANGED <<beat, passed>>
  BY <1>4 DEF HeartbeatAges, Delete, Restore
<1>5. ASSUME NEW i \in Instance, TickRead(i) PROVE CheckOK'
  <2>1. /\ beat[i] = None /\ passed' = passed
        /\ beat' = [beat EXCEPT ![i] = [job[worker[i].job] EXCEPT !.hb = "recent"]]
    BY <1>5 DEF TickRead
  <2>2. i \notin passed
    BY <2>1, NoneAssumption DEF CheckOK
  <2>3. QED
    BY <2>1, <2>2 DEF CheckOK, Inv, BeatOK
<1>6. ASSUME NEW i \in Instance, Crash(i) PROVE CheckOK'
  <2>1. beat' = [beat EXCEPT ![i] = None] /\ passed' = passed \ {i}
    BY <1>6 DEF Crash
  <2>2. QED
    BY <2>1 DEF CheckOK, Inv, BeatOK
<1>7. CASE UNCHANGED vars
  BY <1>7, CheckKept DEF vars
<1>8. QED
  BY <1>1, <1>2, <1>3, <1>4, <1>5, <1>6, <1>7, CheckKept DEF Next

LEMMA InvSteps == ASSUME OneInstance, Inv, CheckOK, [Next]_vars PROVE Inv' /\ CheckOK'
<1> SUFFICES ASSUME \A i \in Instance : ~TickCheck(i) /\ ~TickWrite(i)
             PROVE  Inv'
  BY TickCheckKeeps, TickWriteKeeps, CheckSteps
<1>1. ASSUME NEW i \in Instance, Consume(i) PROVE Inv'
  BY <1>1, JobQueueAssumption, EnterLoopKeeps, WakeWriteKeeps, PopKeeps, ClaimKeeps, RunKeeps,
     CompleteReadKeeps, CompleteWriteKeeps, PeriodicWriteKeeps, DelayWriteKeeps, ErrorReadKeeps,
     ErrorWriteKeeps, FailReadKeeps, FailWriteKeeps, JoinKeeps
  DEF Consume
<1>2. ASSUME NEW i \in Instance, Recover(i) PROVE Inv'
  BY <1>2, ScanStartKeeps, ScanReadKeeps, ScanWriteKeeps, ScanEndKeeps DEF Recover
<1>3. ASSUME NEW i \in Instance, Answer(i) PROVE Inv'
  BY <1>3, PutReadKeeps, PutWriteKeeps, RerunWriteKeeps DEF Answer
<1>4. ASSUME NEW j \in Job, HeartbeatAges(j) \/ Delete(j) \/ Restore(j) PROVE Inv'
  BY <1>4, HeartbeatAgesKeeps, StayKeeps DEF Delete, Restore
<1>5. ASSUME NEW i \in Instance, NEW j \in Job, WakeRead(i, j) \/ Create(i, j) \/ Rerun(i, j) PROVE Inv'
  BY <1>5, WakeReadKeeps, CreateKeeps, RerunKeeps
<1>6. ASSUME NEW i \in Instance, StartConsume(i) \/ TickRead(i) \/ Crash(i) PROVE Inv'
  BY <1>6, StartConsumeKeeps, TickReadKeeps, CrashKeeps
<1>7. CASE UNCHANGED vars
  BY <1>7, StayKeeps DEF vars, store
<1>8. QED
  BY <1>1, <1>2, <1>3, <1>4, <1>5, <1>6, <1>7 DEF Next

LEMMA InvHolds == ASSUME OneInstance PROVE Spec => [](Inv /\ CheckOK)
<1>1. Init => Inv /\ CheckOK
  BY InvInit DEF Init, CheckOK
<1>2. Inv /\ CheckOK /\ [Next]_vars => Inv' /\ CheckOK'
  BY InvSteps
<1>3. QED
  BY <1>1, <1>2, PTL DEF Spec

(* HEAD of a job is a draft exactly while the job is PROCESSING, whatever    *)
(* handlers, recovery, requests and crashes do (SimpleMessageQueue claims    *)
(* as a draft and records outcomes with create_or_update).   *)
THEOREM DraftsAreProcessing == ASSUME OneInstance PROVE Spec => []DraftWhileProcessing
<1>1. Inv => DraftWhileProcessing
  BY DEF Inv, StoreOK
<1>2. QED
  BY <1>1, InvHolds, PTL

(* A heartbeat tick writes a whole job that it read before, and yet changes  *)
(* the heartbeat only; unless another thread saved the job after the check   *)
(* of modify(), when it brings the PROCESSING draft back.                    *)
THEOREM HeartbeatsOnlyBeat == ASSUME OneInstance PROVE Spec => HeartbeatOnlyBeats
<1> DEFINE Bounded ==
             \A i \in Instance : TickWrite(i) =>
               \A j \in Job : job[j] # None =>
                 \/ job'[j] = [job[j] EXCEPT !.hb = job'[j].hb]
                 \/ j = worker[i].job /\ ~draft[j] /\ job'[j].status = "processing"
<1>1. Inv /\ CheckOK /\ [Next]_vars => [Bounded]_vars
  <2> SUFFICES ASSUME Inv, CheckOK, NEW i \in Instance, TickWrite(i), NEW k \in Job, job[k] # None
               PROVE  \/ job'[k] = [job[k] EXCEPT !.hb = job'[k].hb]
                      \/ k = worker[i].job /\ ~draft[k] /\ job'[k].status = "processing"
    OBVIOUS
  <2> DEFINE j == worker[i].job
  <2>1. job[k] \in Data
    BY DEF Inv, StoreOK
  <2>2. job[k] = [job[k] EXCEPT !.hb = job[k].hb]
    BY <2>1 DEF Data
  <2>3. CASE k = j /\ draft[j]
    <3>1. beat[i] \in Data /\ Like(beat[i], job[j]) /\ job'[j] = beat[i]
      BY <2>3, TickWrites DEF Like
    <3>2. QED
      BY <2>1, <2>3, <3>1, LikeIs
  <2>4. CASE k = j /\ ~draft[j]
    BY <2>4, TickWrites
  <2>5. CASE k # j
    BY <2>2, <2>5, TickWrites
  <2>6. QED
    BY <2>3, <2>4, <2>5
<1>2. QED
  BY <1>1, InvHolds, PTL DEF Spec, HeartbeatOnlyBeats

-----------------------------------------------------------------------------
(* The count of failures and of runs.                                        *)
One(b) == IF b THEN 1 ELSE 0

(* What is under way about a job in an instance.                             *)
On(i, j) == worker[i].at \notin Idling /\ worker[i].job = j
Asking(i, j) == request[i] # None /\ request[i].job = j

Raised(i) == worker[i].at \in {"finish", "save"} /\ worker[i].out \in {"error", "noretry"}
Executed(i, j) == On(i, j) /\ worker[i].at \in Executing \ {"fail", "failing"}
Faults == crashes + deletes

(* The failures that HEAD may lack: those a crash or a deletion hid, and the *)
(* one about to be counted.  While the job is deleted its own is among both. *)
Uncounted(i, j) ==
    IF On(i, j) /\ (Raised(i) \/ worker[i].at = "run")
    THEN Faults + One(Raised(i)) - One(j \in deleted)
    ELSE Faults

(* Nothing is under way about a job that was not created.                    *)
Known(i, j) == job[j] = None =>
    attempts[j] = 0 /\ j \notin sched[i] /\ j \notin deleted /\ ~On(i, j) /\ ~Asking(i, j)

(* The failures that HEAD and the consumer's copy have counted.              *)
HeadTally(i, j) ==
    /\ attempts[j] <= job[j].retries + Uncounted(i, j)
    /\ attempts[j] <= MaxRetries + 1 + Faults
    /\ job[j].status = "pending" \/ Executed(i, j) => attempts[j] <= MaxRetries + Uncounted(i, j)

CopyTally(i, j) == On(i, j) =>
    /\ worker[i].at \in {"claim", "run", "finish", "complete", "save", "failing"} =>
         attempts[j] <= worker[i].copy.retries + Faults + One(worker[i].at = "finish" /\ Raised(i))
    /\ worker[i].at \in {"periodic", "delay"} => attempts[j] = 0
    /\ worker[i].at \in {"complete", "periodic", "delay"} => worker[i].copy.status = "completed"
    /\ worker[i].at = "save" => worker[i].out \in {"error", "noretry"}
    /\ worker[i].at = "save" /\ worker[i].copy.status = "pending" => worker[i].copy.retries <= MaxRetries
    /\ worker[i].at = "claim" => attempts[j] <= MaxRetries + Faults
    /\ worker[i].at = "failing" => worker[i].copy.status = "failed"

(* The executions that may still follow.                                     *)
Queued(i, j) == job[j].status = "pending" \/ (On(i, j) /\ worker[i].at = "claim")
Engaged(i, j) == Executed(i, j) \/ (On(i, j) /\ worker[i].at = "wake")

Chances(i, j) ==
    One(Queued(i, j)) + One(Engaged(i, j)) + One(j \in sched[i]) + One(Asking(i, j))

Allowed == MaxRuns + reruns

Within(i, j, runs) == runs + Chances(i, j) <= Allowed

RunsLeft(i, j) ==
    /\ Within(i, j, job[j].runs)
    /\ On(i, j) => Within(i, j, worker[i].copy.runs)
    /\ Asking(i, j) => Within(i, j, request[i].copy.runs)

(* Of a job whose counts a late write-back changed, nothing is claimed.      *)
Account(i, j) ==
    /\ Known(i, j)
    /\ job[j] # None /\ j \notin stale => HeadTally(i, j) /\ CopyTally(i, j) /\ RunsLeft(i, j)

(* What recovery writes back has failed; requests in progress are reruns.    *)
Order(i) ==
    /\ scan[i] # None /\ scan[i].copy # None => scan[i].copy.status = "failed"
    /\ request[i] # None => request[i].at = "rerun" /\ request[i].copy.status = "pending" /\ reruns > 0

CountOK ==
    /\ attempts \in [Job -> Nat] /\ sched \in [Instance -> SUBSET Job]
    /\ crashes \in Nat /\ reruns \in Nat /\ deletes \in Nat
    /\ deleted # {} => deletes > 0

AccountInv ==
    /\ Inv /\ CheckOK /\ CountOK
    /\ \A i \in Instance : Order(i) /\ \A j \in Job : Account(i, j)

-----------------------------------------------------------------------------
(* The same counts, and no execution more.                                   *)
NoMore(d, e) == d.retries = e.retries /\ d.runs = e.runs /\ (d.status = "pending" => e.status = "pending")

(* A job whose account can only have got larger.                             *)
Spared(i, j) ==
    /\ (On(i, j) <=> On(i, j)') /\ (On(i, j) => worker'[i] = worker[i])
    /\ (job'[j] = None <=> job[j] = None) /\ (j \in stale => j \in stale')
    /\ job[j] # None /\ j \notin stale' => NoMore(job'[j], job[j])
    /\ attempts'[j] = attempts[j]
    /\ j \in sched'[i] => j \in sched[i]
    /\ Asking(i, j)' => Asking(i, j) /\ request'[i] = request[i]
    /\ Faults' >= Faults /\ Faults' \in Nat /\ Allowed' >= Allowed /\ Allowed' \in Nat

(* A job that a step leaves alone, or restores.                              *)
Untouched(i, j) == Spared(i, j) /\ (j \in deleted' => j \in deleted)

(* The numbers about a job.                                                  *)
LEMMA Numbers ==
    ASSUME AccountInv, NEW i \in Instance, NEW j \in Job
    PROVE  /\ attempts[j] \in Nat /\ Faults \in Nat /\ Uncounted(i, j) \in Int
           /\ crashes \in Nat /\ deletes \in Nat /\ reruns \in Nat /\ Chances(i, j) \in Nat
           /\ Allowed \in Nat /\ MaxRetries \in Nat
           /\ job[j] # None => job[j] \in Data /\ job[j].retries \in Nat /\ job[j].runs \in Nat
           /\ On(i, j) => worker[i].copy \in Data /\ worker[i].copy.retries \in Nat
                          /\ worker[i].copy.runs \in Nat
           /\ Asking(i, j) => request[i].copy \in Data /\ request[i].copy.retries \in Nat
                              /\ request[i].copy.runs \in Nat
<1>1. attempts[j] \in Nat /\ crashes \in Nat /\ deletes \in Nat /\ reruns \in Nat
  BY DEF AccountInv, CountOK
<1>2. /\ Faults \in Nat /\ Uncounted(i, j) \in Int /\ Chances(i, j) \in Nat /\ Allowed \in Nat
      /\ MaxRetries \in Nat
  BY <1>1, JobQueueAssumption DEF Faults, Uncounted, Chances, One, Allowed, JobQueueAssumption
<1>3. job[j] # None => job[j] \in Data
  BY DEF AccountInv, Inv, StoreOK
<1>4. On(i, j) => worker[i].copy \in Data
  BY Holds DEF AccountInv, On
<1>5. Asking(i, j) => request[i].copy \in Data
  BY DEF AccountInv, Inv, RequestOK, Asking, Order
<1>6. \A d \in Data : d.retries \in Nat /\ d.runs \in Nat
  BY DEF Data
<1>7. QED
  BY <1>1, <1>2, <1>3, <1>4, <1>5, <1>6

LEMMA SparedKeeps ==
    ASSUME AccountInv, NEW i \in Instance, NEW j \in Job, Spared(i, j),
           Uncounted(i, j)' >= Uncounted(i, j), Uncounted(i, j)' \in Int,
           job[j] = None => j \notin deleted'
    PROVE  Account(i, j)'
<1>1. /\ attempts[j] \in Nat /\ Faults \in Nat /\ Allowed \in Nat /\ MaxRetries \in Nat
      /\ Account(i, j) /\ Uncounted(i, j) \in Int
      /\ job[j] # None => job[j].retries \in Nat /\ job[j].runs \in Nat
      /\ On(i, j) => worker[i].copy.retries \in Nat /\ worker[i].copy.runs \in Nat
      /\ Asking(i, j) => request[i].copy.runs \in Nat
  BY Numbers DEF AccountInv
<1>2. Known(i, j)'
  BY <1>1 DEF Account, Known, Spared
<1>3. ASSUME job'[j] # None, j \notin stale'
      PROVE  HeadTally(i, j)' /\ CopyTally(i, j)' /\ RunsLeft(i, j)'
  <2>1. job[j] # None /\ j \notin stale /\ NoMore(job'[j], job[j])
    BY <1>3 DEF Spared
  <2>2. /\ HeadTally(i, j) /\ CopyTally(i, j) /\ RunsLeft(i, j)
    BY <1>1, <2>1 DEF Account
  <2>3. /\ Faults' >= Faults /\ Faults' \in Nat /\ Faults \in Nat
        /\ Allowed' >= Allowed /\ Allowed' \in Nat /\ Allowed \in Nat
    BY <1>1 DEF Spared
  <2>4. /\ job'[j].retries = job[j].retries /\ job'[j].runs = job[j].runs
        /\ (job'[j].status = "pending" => job[j].status = "pending")
        /\ attempts'[j] = attempts[j] /\ (On(i, j) <=> On(i, j)')
    BY <2>1 DEF Spared, NoMore
  <2>5. On(i, j) => worker'[i] = worker[i]
    BY DEF Spared
  <2>6. (Executed(i, j) <=> Executed(i, j)') /\ (On(i, j) => (Raised(i) <=> Raised(i)'))
    BY <2>4, <2>5 DEF Executed, Raised
  <2>7. Chances(i, j)' <= Chances(i, j) /\ Chances(i, j)' \in Nat /\ Chances(i, j) \in Nat
    <3>1. (Queued(i, j)' => Queued(i, j)) /\ (Engaged(i, j)' => Engaged(i, j))
      BY <2>4, <2>5, <2>6 DEF Queued, Engaged
    <3>2. (j \in sched'[i] => j \in sched[i]) /\ (Asking(i, j)' => Asking(i, j))
      BY DEF Spared
    <3>3. QED
      BY <3>1, <3>2 DEF Chances, One
  <2>8. HeadTally(i, j)'
    <3>1. attempts[j] \in Nat /\ job[j].retries \in Nat /\ MaxRetries \in Nat
      BY <1>1, <2>1
    <3>2. /\ attempts[j] <= job[j].retries + Uncounted(i, j)'
          /\ attempts[j] <= MaxRetries + 1 + Faults'
          /\ job[j].status = "pending" \/ Executed(i, j) => attempts[j] <= MaxRetries + Uncounted(i, j)'
      BY <1>1, <2>2, <2>3, <3>1 DEF HeadTally
    <3>3. QED
      BY <2>4, <2>6, <3>2 DEF HeadTally
  <2>9. CopyTally(i, j)'
    BY <1>1, <2>2, <2>3, <2>4, <2>5, <2>6 DEF CopyTally, One
  <2>10. RunsLeft(i, j)'
    <3>1. \A n \in Nat : Within(i, j, n) => n + Chances(i, j)' <= Allowed'
      BY <2>3, <2>7 DEF Within
    <3>2. Asking(i, j)' => Asking(i, j) /\ request'[i] = request[i]
      BY DEF Spared
    <3>3. /\ Within(i, j, job[j].runs)' /\ (On(i, j)' => Within(i, j, worker[i].copy.runs)')
          /\ (Asking(i, j)' => Within(i, j, request[i].copy.runs)')
      BY <1>1, <2>1, <2>2, <2>4, <2>5, <3>1, <3>2 DEF RunsLeft, Within
    <3>4. QED
      BY <3>3 DEF RunsLeft
  <2>11. QED
    BY <2>8, <2>9, <2>10
<1>4. QED
  BY <1>2, <1>3 DEF Account

LEMMA UntouchedKeeps ==
    ASSUME AccountInv, NEW i \in Instance, NEW j \in Job, Untouched(i, j)
    PROVE  Account(i, j)'
<1>1. /\ Faults' >= Faults /\ Faults' \in Nat /\ Faults \in Nat
      /\ (On(i, j) <=> On(i, j)') /\ (j \in deleted' => j \in deleted)
  BY Numbers DEF Untouched, Spared
<1>2. On(i, j) => worker'[i] = worker[i] /\ (Raised(i) <=> Raised(i)')
  BY DEF Untouched, Spared, Raised
<1>3. Uncounted(i, j)' >= Uncounted(i, j) /\ Uncounted(i, j)' \in Int
  <2>1. CASE On(i, j) /\ (Raised(i) \/ worker[i].at = "run")
    <3>1. /\ Uncounted(i, j) = Faults + One(Raised(i)) - One(j \in deleted)
          /\ Uncounted(i, j)' = Faults' + One(Raised(i)') - One(j \in deleted')
      BY <1>1, <1>2, <2>1 DEF Uncounted
    <3>2. One(Raised(i)') = One(Raised(i)) /\ One(j \in deleted') <= One(j \in deleted)
      BY <1>1, <1>2, <2>1 DEF One
    <3>3. One(Raised(i)) \in {0, 1} /\ One(j \in deleted) \in {0, 1} /\ One(j \in deleted') \in {0, 1}
      BY DEF One
    <3>4. QED
      BY <1>1, <3>1, <3>2, <3>3
  <2>2. CASE ~(On(i, j) /\ (Raised(i) \/ worker[i].at = "run"))
    <3>1. Uncounted(i, j) = Faults /\ Uncounted(i, j)' = Faults'
      BY <1>1, <1>2, <2>2 DEF Uncounted
    <3>2. QED
      BY <1>1, <3>1
  <2>3. QED
    BY <2>1, <2>2
<1>4. job[j] = None => j \notin deleted'
  BY <1>1 DEF AccountInv, Account, Known
<1>5. QED
  BY <1>3, <1>4, SparedKeeps DEF Untouched

-----------------------------------------------------------------------------
(* Steps of the consumer.                                                    *)
Fields(d, e, status) == d.status = status /\ d.retries = e.retries /\ d.runs = e.runs

LEMMA StatusFields ==
    ASSUME NEW d \in Data, NEW s \in TaskStatus
    PROVE  [d EXCEPT !.status = s] \in Data /\ Fields([d EXCEPT !.status = s], d, s)
BY DEF Data, Fields

LEMMA StepSets ==
    ASSUME Inv, NEW i \in Instance, NEW at, NEW j, NEW copy, NEW out, Step(i, at, j, copy, out)
    PROVE  worker'[i].at = at /\ worker'[i].job = j /\ worker'[i].copy = copy /\ worker'[i].out = out
BY DEF Inv, WorkerOK, Step

LEMMA GotoSets ==
    ASSUME Inv, NEW i \in Instance, NEW at, Goto(i, at)
    PROVE  /\ worker'[i].at = at /\ worker'[i].job = worker[i].job
           /\ worker'[i].copy = worker[i].copy /\ worker'[i].out = worker[i].out
<1>1. worker[i] \in WorkerState
  BY DEF Inv, WorkerOK
<1>2. worker'[i] = [worker[i] EXCEPT !.at = at]
  BY DEF Goto, Inv, WorkerOK
<1>3. DOMAIN worker[i] = {"at", "job", "copy", "out"}
  BY <1>1 DEF WorkerState
<1>4. QED
  BY <1>2, <1>3

LEMMA OutSets ==
    ASSUME Inv, NEW i \in Instance, NEW at, NEW out,
           worker' = [worker EXCEPT ![i].at = at, ![i].out = out]
    PROVE  /\ worker'[i].at = at /\ worker'[i].job = worker[i].job
           /\ worker'[i].copy = worker[i].copy /\ worker'[i].out = out
<1>1. worker[i] \in WorkerState
  BY DEF Inv, WorkerOK
<1>2. worker'[i] = [worker[i] EXCEPT !.at = at, !.out = out]
  BY DEF Inv, WorkerOK
<1>3. DOMAIN worker[i] = {"at", "job", "copy", "out"}
  BY <1>1 DEF WorkerState
<1>4. QED
  BY <1>2, <1>3

LEMMA RaiseSets ==
    ASSUME Inv, NEW i \in Instance, Raise(i)
    PROVE  /\ worker'[i].job = worker[i].job /\ worker'[i].copy = worker[i].copy
           /\ \/ worker'[i].at = "join"
              \/ worker'[i].at = "finish" /\ worker'[i].out = "error"
<1>1. CASE worker[i].out = "delay"
  BY <1>1, OutSets DEF Raise
<1>2. CASE worker[i].out # "delay"
  BY <1>2, OutSets DEF Raise
<1>3. QED
  BY <1>1, <1>2

LEMMA LoopSets ==
    ASSUME Inv, NEW i \in Instance, worker' = [worker EXCEPT ![i] = Loop]
    PROVE  worker'[i].at = "loop" /\ \A j : ~On(i, j)'
BY DEF Inv, WorkerOK, Loop, Down, On, Idling

LEMMA WriteSets ==
    ASSUME Inv, NEW j \in Job, NEW d, NEW b, Write(j, d, b)
    PROVE  job'[j] = d /\ (\A k \in Job \ {j} : job'[k] = job[k]) /\ deleted' = deleted
BY DEF Inv, StoreOK, Write

(* A step of the consumer concerns the job it holds.                         *)
Consumes(i, j) ==
    /\ UNCHANGED <<deleted, scan, request, stale, crashes, reruns, deletes>>
    /\ worker[i].at # "start"
    /\ worker[i].at \in Idling \/ worker[i].job = j
    /\ worker'[i].at \in Idling \/ worker'[i].job = j
    /\ \A k \in Job \ {j} :
         job'[k] = job[k] /\ attempts'[k] = attempts[k] /\ (k \in sched'[i] => k \in sched[i])
    /\ attempts' \in [Job -> Nat] /\ sched' \in [Instance -> SUBSET Job]

LEMMA Unhurried ==
    ASSUME AccountInv, NEW i \in Instance, NEW j, Consumes(i, j)
    PROVE  Faults' = Faults /\ Allowed' = Allowed
BY DEF Consumes, Faults, Allowed

LEMMA OthersKept ==
    ASSUME AccountInv, NEW i \in Instance, NEW j \in Job, Consumes(i, j), NEW k \in Job \ {j}
    PROVE  Account(i, k)'
<1>1. ~On(i, k) /\ ~On(i, k)'
  BY DEF Consumes, On
<1>2. Faults' = Faults /\ Allowed' = Allowed /\ Faults \in Nat /\ Allowed \in Nat
  BY Unhurried, Numbers
<1>3. /\ job'[k] = job[k] /\ attempts'[k] = attempts[k] /\ (k \in sched'[i] => k \in sched[i])
      /\ request' = request /\ deleted' = deleted /\ stale' = stale
  BY DEF Consumes
<1>4. NoMore(job'[k], job[k])
  BY <1>3 DEF NoMore
<1>5. Untouched(i, k)
  BY <1>1, <1>2, <1>3, <1>4 DEF Untouched, Spared, Asking
<1>6. QED
  BY <1>5, UntouchedKeeps

LEMMA ConsumesKeeps ==
    ASSUME OneInstance, AccountInv, Inv', CheckOK', NEW i \in Instance, NEW j \in Job, j \notin stale,
           Consumes(i, j), job'[j] # None,
           HeadTally(i, j)', CopyTally(i, j)', Chances(i, j)' <= Chances(i, j), Chances(i, j)' \in Nat,
           job[j] # None, job'[j].runs + Chances(i, j)' <= Allowed,
           On(i, j)' => worker'[i].copy.runs + Chances(i, j)' <= Allowed
    PROVE  AccountInv'
<1>1. Faults' = Faults /\ Allowed' = Allowed /\ scan' = scan /\ request' = request
  BY Unhurried DEF Consumes
<1>2. Asking(i, j)' => Asking(i, j) /\ request'[i] = request[i]
  BY <1>1 DEF Asking
<1>3. Asking(i, j) => request[i].copy.runs + Chances(i, j)' <= Allowed
  <2>1. Asking(i, j) => Within(i, j, request[i].copy.runs) /\ request[i].copy.runs \in Nat
    BY Numbers DEF AccountInv, Account, RunsLeft
  <2>2. Chances(i, j) \in Nat /\ Allowed \in Nat
    BY Numbers
  <2>3. QED
    BY <2>1, <2>2 DEF Within
<1>4. RunsLeft(i, j)'
  BY <1>1, <1>2, <1>3 DEF RunsLeft, Within
<1>5. Account(i, j)'
  BY <1>4 DEF Account, Known
<1>6. \A k \in Job : Account(i, k)'
  BY <1>5, OthersKept
<1>7. Order(i)'
  BY <1>1 DEF AccountInv, Order, Consumes
<1>8. CountOK'
  BY DEF Consumes, AccountInv, CountOK
<1>9. QED
  BY <1>6, <1>7, <1>8 DEF AccountInv, OneInstance

(* Of a job with stale counts it only matters that it was created.           *)
LEMMA StaleKeeps ==
    ASSUME OneInstance, AccountInv, Inv', CheckOK', NEW i \in Instance, NEW j \in Job, j \in stale,
           Consumes(i, j), job'[j] # None
    PROVE  AccountInv'
<1>1. scan' = scan /\ request' = request /\ stale' = stale
  BY DEF Consumes
<1>2. Account(i, j)'
  BY <1>1 DEF Account, Known
<1>3. \A k \in Job : Account(i, k)'
  BY <1>2, OthersKept
<1>4. Order(i)'
  BY <1>1 DEF AccountInv, Order, Consumes
<1>5. CountOK'
  BY DEF Consumes, AccountInv, CountOK
<1>6. QED
  BY <1>3, <1>4, <1>5 DEF AccountInv, OneInstance

(* What is known of the job a consumer holds.                                *)
LEMMA OnHolds ==
    ASSUME AccountInv, NEW i \in Instance, worker[i].at \notin Idling, NEW j, worker[i].job = j
    PROVE  /\ j \in Job /\ On(i, j) /\ job[j] # None /\ job[j] \in Data /\ worker[i].copy \in Data
           /\ (j \notin stale => HeadTally(i, j) /\ CopyTally(i, j) /\ RunsLeft(i, j))
           /\ (~Readable(j) => j \in deleted)
<1>1. j \in Job /\ On(i, j)
  BY Holds DEF AccountInv, On
<1>2. Account(i, j) /\ Order(i)
  BY <1>1 DEF AccountInv
<1>3. job[j] # None
  BY <1>1, <1>2 DEF Account, Known
<1>4. QED
  BY <1>1, <1>2, <1>3, Numbers DEF Account, Order, Idling, Readable

(* A step that leaves the schedule and the failures alone.                   *)
LEMMA ConsumesWith ==
    ASSUME AccountInv, NEW i \in Instance, NEW j \in Job,
           UNCHANGED <<deleted, scan, request, stale, bounds, attempts>>, sched' \in [Instance -> SUBSET Job],
           \A k \in Job \ {j} : k \in sched'[i] => k \in sched[i],
           worker[i].at # "start", worker[i].at \in Idling \/ worker[i].job = j,
           worker'[i].at \in Idling \/ worker'[i].job = j,
           \A k \in Job \ {j} : job'[k] = job[k]
    PROVE  Consumes(i, j)
BY DEF AccountInv, CountOK, Consumes, bounds

LEMMA ScheduleStays == ASSUME AccountInv, sched' = sched PROVE sched' \in [Instance -> SUBSET Job]
BY DEF AccountInv, CountOK

LEMMA WakeReadCounts ==
    ASSUME OneInstance, AccountInv, Inv', CheckOK', NEW i \in Instance, NEW j \in Job, j \notin stale,
           WakeRead(i, j), Readable(j)
    PROVE  AccountInv'
<1> DEFINE d == [job[j] EXCEPT !.status = "pending"]
<1>1. job[j] # None /\ job[j] \in Data /\ Account(i, j)
  BY Stored DEF AccountInv, Inv
<1>2. d \in Data /\ Fields(d, job[j], "pending")
  BY <1>1, StatusFields DEF TaskStatus
<1>3. Step(i, "wake", j, d, None)
  BY DEF WakeRead
<1>4. worker'[i].at = "wake" /\ worker'[i].job = j /\ worker'[i].copy = d
  BY <1>3, StepSets DEF AccountInv
<1> HIDE DEF d
<1>5. worker[i].at = "loop" /\ j \in sched[i] /\ ~On(i, j)
  BY DEF WakeRead, On, Idling
<1>6. /\ sched' = [sched EXCEPT ![i] = @ \ {j}] /\ sched \in [Instance -> SUBSET Job]
      /\ UNCHANGED <<job, deleted, scan, request, stale, bounds, attempts>>
  BY DEF WakeRead, store, history, AccountInv, CountOK
<1>7. sched' \in [Instance -> SUBSET Job] /\ sched'[i] = sched[i] \ {j}
  BY <1>6
<1>8. Consumes(i, j)
  BY <1>4, <1>5, <1>6, <1>7, ConsumesWith DEF Idling
<1>9. /\ HeadTally(i, j) /\ RunsLeft(i, j) /\ Faults \in Nat /\ Faults' = Faults /\ attempts[j] \in Nat
      /\ Chances(i, j) \in Nat /\ Allowed \in Nat
  BY <1>1, <1>8, Unhurried, Numbers DEF Account
<1>10. Uncounted(i, j) = Faults /\ Uncounted(i, j)' = Faults
  BY <1>4, <1>5, <1>9 DEF Uncounted, Raised
<1>11. HeadTally(i, j)'
  BY <1>4, <1>6, <1>9, <1>10 DEF HeadTally, Executed, Executing
<1>12. CopyTally(i, j)'
  BY <1>4 DEF CopyTally
<1>13. Chances(i, j)' = Chances(i, j)
  BY <1>4, <1>5, <1>6, <1>7 DEF Chances, Queued, Engaged, Executed, Executing, On, Idling, One, Asking
<1>14. job[j].runs + Chances(i, j) <= Allowed
  BY <1>9 DEF RunsLeft, Within
<1>15. QED
  BY <1>1, <1>2, <1>4, <1>6, <1>8, <1>9, <1>11, <1>12, <1>13, <1>14, ConsumesKeeps DEF Fields

(* A step about the job the consumer holds, which it may record.             *)
LEMMA CarriedOn ==
    ASSUME OneInstance, AccountInv, Inv', CheckOK', NEW i \in Instance, NEW j, worker[i].job = j, j \notin stale,
           worker[i].at \notin Idling, UNCHANGED <<deleted, scan, request, stale, sched, bounds>>,
           job'[j] \in {job[j], worker[i].copy}, \A k \in Job \ {j} : job'[k] = job[k],
           attempts' \in [Job -> Nat], \A k \in Job \ {j} : attempts'[k] = attempts[k],
           \/ worker'[i].at \in Idling
           \/ worker'[i].job = j /\ worker'[i].copy.runs \in {job[j].runs, worker[i].copy.runs},
           HeadTally(i, j)', CopyTally(i, j)',
           Engaged(i, j)' \/ Queued(i, j)' => Engaged(i, j) \/ Queued(i, j),
           Engaged(i, j)' /\ Queued(i, j)' => Engaged(i, j) /\ Queued(i, j)
    PROVE  AccountInv'
<1>1. /\ j \in Job /\ On(i, j) /\ job[j] # None /\ job[j] \in Data /\ worker[i].copy \in Data
      /\ RunsLeft(i, j)
  BY OnHolds
<1>2. job'[j] # None
  BY <1>1, NoneAssumption
<1>3. Consumes(i, j)
  <2>1. sched' \in [Instance -> SUBSET Job] /\ worker[i].at # "start"
    BY DEF AccountInv, CountOK, Idling
  <2>2. worker'[i].at \in Idling \/ worker'[i].job = j
    OBVIOUS
  <2>3. QED
    BY <2>1, <2>2 DEF Consumes, bounds
<1>4. Allowed \in Nat /\ Chances(i, j) \in Nat
  BY <1>1, Numbers
<1>5. Chances(i, j)' <= Chances(i, j) /\ Chances(i, j)' \in Nat
  <2>1. One(j \in sched'[i]) = One(j \in sched[i]) /\ One(Asking(i, j)') = One(Asking(i, j))
    BY DEF Asking
  <2>2. /\ One(Queued(i, j)') + One(Engaged(i, j)')
           <= One(Queued(i, j)) + One(Engaged(i, j))
        /\ One(Queued(i, j)') \in Nat /\ One(Engaged(i, j)') \in Nat
        /\ One(Queued(i, j)) \in Nat /\ One(Engaged(i, j)) \in Nat
        /\ One(j \in sched[i]) \in Nat /\ One(Asking(i, j)) \in Nat
    BY DEF One
  <2>3. QED
    BY <2>1, <2>2 DEF Chances
<1>6. job[j].runs + Chances(i, j) <= Allowed /\ worker[i].copy.runs + Chances(i, j) <= Allowed
  BY <1>1 DEF RunsLeft, Within
<1>7. job[j].runs \in Nat /\ worker[i].copy.runs \in Nat
  BY <1>1 DEF Data
<1>8. \A n \in {job[j].runs, worker[i].copy.runs} : n + Chances(i, j)' <= Allowed
  BY <1>4, <1>5, <1>6, <1>7
<1>9. job'[j].runs \in {job[j].runs, worker[i].copy.runs}
  OBVIOUS
<1>10. On(i, j)' => worker'[i].copy.runs \in {job[j].runs, worker[i].copy.runs}
  BY DEF On
<1>11. job'[j].runs + Chances(i, j)' <= Allowed
  BY <1>8, <1>9
<1>12. On(i, j)' => worker'[i].copy.runs + Chances(i, j)' <= Allowed
  BY <1>8, <1>10
<1>13. QED
  BY <1>1, <1>2, <1>3, <1>5, <1>11, <1>12, ConsumesKeeps

LEMMA Carried ==
    ASSUME OneInstance, AccountInv, Inv', CheckOK', NEW i \in Instance, NEW j, worker[i].job = j,
           j \notin stale, worker[i].at \notin Idling \cup {"claim"}, worker'[i].at # "claim",
           UNCHANGED <<deleted, scan, request, stale, sched, bounds>>,
           job'[j] \in {job[j], worker[i].copy}, \A k \in Job \ {j} : job'[k] = job[k],
           attempts' \in [Job -> Nat], \A k \in Job \ {j} : attempts'[k] = attempts[k],
           \/ worker'[i].at \in Idling
           \/ worker'[i].job = j /\ worker'[i].copy.runs \in {job[j].runs, worker[i].copy.runs},
           HeadTally(i, j)', CopyTally(i, j)',
           Engaged(i, j)' \/ job'[j].status = "pending" => Engaged(i, j) \/ job[j].status = "pending",
           Engaged(i, j)' /\ job'[j].status = "pending" => Engaged(i, j) /\ job[j].status = "pending"
    PROVE  AccountInv'
<1>1. (Queued(i, j)' <=> job'[j].status = "pending") /\ (Queued(i, j) <=> job[j].status = "pending")
  BY DEF Queued
<1>2. worker[i].at \notin Idling
  OBVIOUS
<1>3. QED
  BY <1>1, <1>2, CarriedOn

(* The numbers such a step starts from.                                      *)
LEMMA Before ==
    ASSUME AccountInv, NEW i \in Instance, NEW j, worker[i].job = j, j \notin stale, worker[i].at \notin Idling
    PROVE  /\ j \in Job /\ On(i, j) /\ job[j] # None /\ job[j] \in Data /\ worker[i].copy \in Data
           /\ HeadTally(i, j) /\ CopyTally(i, j) /\ (~Readable(j) => j \in deleted)
           /\ (Readable(j) => j \notin deleted)
           /\ attempts \in [Job -> Nat] /\ attempts[j] \in Nat /\ Faults \in Nat /\ MaxRetries \in Nat
           /\ job[j].retries \in Nat /\ worker[i].copy.retries \in Nat
           /\ (deleted # {} => Faults > 0)
<1>1. /\ j \in Job /\ On(i, j) /\ job[j] # None /\ job[j] \in Data /\ worker[i].copy \in Data
      /\ HeadTally(i, j) /\ CopyTally(i, j) /\ (~Readable(j) => j \in deleted)
  BY OnHolds
<1>2. /\ attempts \in [Job -> Nat] /\ crashes \in Nat /\ deletes \in Nat
      /\ (deleted # {} => deletes > 0)
  BY DEF AccountInv, CountOK
<1>3. attempts[j] \in Nat /\ Faults \in Nat /\ MaxRetries \in Nat
  BY <1>1, Numbers
<1>4. deleted # {} => Faults > 0
  BY <1>2 DEF Faults
<1>5. job[j].retries \in Nat /\ worker[i].copy.retries \in Nat
  BY <1>1 DEF Data
<1>6. QED
  BY <1>1, <1>2, <1>3, <1>4, <1>5 DEF Readable

(* The store after the consumer tried to write its copy.                     *)
LEMMA TryHeads ==
    ASSUME Inv, NEW j \in Job, NEW d, TryWrite(j, d)
    PROVE  /\ job'[j] = (IF Readable(j) THEN d ELSE job[j])
           /\ (\A k \in Job \ {j} : job'[k] = job[k]) /\ deleted' = deleted
<1>1. CASE Readable(j)
  BY <1>1, WriteSets DEF TryWrite
<1>2. CASE ~Readable(j)
  BY <1>2 DEF TryWrite, store
<1>3. QED
  BY <1>1, <1>2

LEMMA SameFaults == ASSUME UNCHANGED bounds PROVE Faults' = Faults /\ Allowed' = Allowed
BY DEF bounds, Faults, Allowed

LEMMA WakeWriteCounts ==
    ASSUME OneInstance, AccountInv, Inv', CheckOK', NEW i \in Instance, NEW j, worker[i].job = j, j \notin stale, WakeWrite(i)
    PROVE  AccountInv'
<1>1. worker[i].at = "wake" /\ worker[i].at \notin Idling /\ UNCHANGED <<scan, request, stale, sched, bounds>>
  BY DEF WakeWrite, Idling
<1>2. /\ j \in Job /\ On(i, j) /\ job[j] \in Data /\ worker[i].copy \in Data /\ attempts \in [Job -> Nat]
      /\ Faults \in Nat /\ MaxRetries \in Nat
  BY <1>1, Before
<1>3. worker'[i].at = "loop" /\ ~On(i, j)'
  BY LoopSets DEF WakeWrite, AccountInv
<1>4. attempts' = [attempts EXCEPT ![j] = 0]
  BY DEF WakeWrite
<1>5. attempts' \in [Job -> Nat] /\ attempts'[j] = 0 /\ \A k \in Job \ {j} : attempts'[k] = attempts[k]
  BY <1>2, <1>4
<1>6. /\ job'[j] \in {job[j], worker[i].copy} /\ (\A k \in Job \ {j} : job'[k] = job[k])
      /\ deleted' = deleted
  BY <1>2, TryHeads DEF WakeWrite, AccountInv
<1>7. job'[j].retries \in Nat
  BY <1>2, <1>6 DEF Data
<1>8. Uncounted(i, j)' = Faults
  BY <1>1, <1>3, SameFaults DEF Uncounted
<1>9. HeadTally(i, j)'
  BY <1>1, <1>2, <1>3, <1>5, <1>7, <1>8, SameFaults DEF HeadTally, Executed
<1>10. CopyTally(i, j)' /\ ~Engaged(i, j)' /\ Engaged(i, j)
  BY <1>1, <1>2, <1>3 DEF CopyTally, Engaged, Executed
<1>11. worker'[i].at \in Idling
  BY <1>3 DEF Idling
<1>12. QED
  BY <1>1, <1>3, <1>5, <1>6, <1>9, <1>10, <1>11, Carried

LEMMA PopCounts ==
    ASSUME OneInstance, AccountInv, Inv', CheckOK', NEW i \in Instance, NEW j \in Job, j \notin stale,
           IsNext(j), Readable(j),
           worker[i].at = "loop", Step(i, "claim", j, [job[j] EXCEPT !.status = "processing"], None),
           UNCHANGED <<store, beat, scan, request, sched, history, bounds>>
    PROVE  AccountInv'
<1> DEFINE d == [job[j] EXCEPT !.status = "processing"]
<1>1. job[j] # None /\ job[j] \in Data /\ Account(i, j) /\ job[j].status = "pending"
  BY Stored DEF AccountInv, Inv, IsNext, With
<1>2. d \in Data /\ Fields(d, job[j], "processing")
  BY <1>1, StatusFields DEF TaskStatus
<1>3. worker'[i].at = "claim" /\ worker'[i].job = j /\ worker'[i].copy = d
  BY StepSets DEF AccountInv
<1> HIDE DEF d
<1>4. ~On(i, j) /\ UNCHANGED <<job, deleted, scan, request, stale, sched, attempts>>
  BY DEF On, Idling, store, history
<1>5. Consumes(i, j)
  BY <1>3, <1>4, ScheduleStays, ConsumesWith DEF Idling, bounds
<1>6. /\ HeadTally(i, j) /\ RunsLeft(i, j) /\ Faults \in Nat /\ Faults' = Faults /\ attempts[j] \in Nat
      /\ Chances(i, j) \in Nat /\ Allowed \in Nat /\ MaxRetries \in Nat
  BY <1>1, <1>5, Unhurried, Numbers DEF Account
<1>7. Uncounted(i, j) = Faults /\ Uncounted(i, j)' = Faults /\ ~Executed(i, j)'
  BY <1>3, <1>4, <1>6 DEF Uncounted, Raised, Executed, Executing
<1>8. HeadTally(i, j)'
  BY <1>1, <1>4, <1>6, <1>7 DEF HeadTally
<1>9. CopyTally(i, j)'
  <2>1. attempts[j] <= d.retries + Faults
    BY <1>2, <1>6, <1>7 DEF HeadTally, Fields
  <2>2. d.retries \in Nat
    BY <1>2 DEF Data
  <2>3. One(worker'[i].at = "finish" /\ Raised(i)') = 0
    BY <1>3 DEF One
  <2>4. QED
    BY <1>1, <1>3, <1>4, <1>6, <1>7, <2>1, <2>2, <2>3 DEF CopyTally, HeadTally
<1>10. Chances(i, j)' = Chances(i, j)
  <2>1. Queued(i, j) /\ Queued(i, j)' /\ ~Engaged(i, j) /\ ~Engaged(i, j)'
    BY <1>1, <1>3, <1>4, <1>7 DEF Queued, Engaged, Executed
  <2>2. QED
    BY <1>4, <2>1 DEF Chances, One, Asking
<1>11. job[j].runs + Chances(i, j) <= Allowed
  BY <1>6 DEF RunsLeft, Within
<1>12. QED
  BY <1>1, <1>2, <1>3, <1>4, <1>5, <1>6, <1>8, <1>9, <1>10, <1>11, ConsumesKeeps DEF Fields

LEMMA ClaimCounts ==
    ASSUME OneInstance, AccountInv, Inv', CheckOK', NEW i \in Instance, NEW j, worker[i].job = j, j \notin stale, Claim(i)
    PROVE  AccountInv'
<1>1. /\ worker[i].at = "claim" /\ worker[i].at \notin Idling
      /\ UNCHANGED <<scan, request, stale, sched, attempts, bounds>>
  BY DEF Claim, Idling
<1>2. /\ j \in Job /\ On(i, j) /\ job[j] \in Data /\ worker[i].copy \in Data
      /\ HeadTally(i, j) /\ CopyTally(i, j) /\ attempts \in [Job -> Nat] /\ attempts[j] \in Nat
      /\ Faults \in Nat /\ MaxRetries \in Nat /\ worker[i].copy.retries \in Nat /\ job[j].retries \in Nat
      /\ (Readable(j) => j \notin deleted)
  BY <1>1, Before
<1>3. Faults' = Faults /\ attempts'[j] = attempts[j] /\ Queued(i, j)
  BY <1>1, <1>2, SameFaults DEF Queued
<1>4. Uncounted(i, j) = Faults /\ ~Engaged(i, j) /\ One(worker[i].at = "finish" /\ Raised(i)) = 0
  BY <1>1 DEF Uncounted, Raised, Engaged, Executed, Executing, One
<1>5. /\ attempts[j] <= MaxRetries + Faults /\ attempts[j] <= worker[i].copy.retries + Faults
      /\ attempts[j] <= job[j].retries + Faults /\ attempts[j] <= MaxRetries + 1 + Faults
  BY <1>1, <1>2, <1>3, <1>4 DEF HeadTally, CopyTally
<1>6. CASE Readable(j)
  <2>1. Write(j, worker[i].copy, TRUE) /\ Goto(i, "run")
    BY <1>6 DEF Claim
  <2>2. job'[j] = worker[i].copy /\ (\A k \in Job \ {j} : job'[k] = job[k]) /\ deleted' = deleted
    BY <1>2, <2>1, WriteSets DEF AccountInv
  <2>3. worker'[i].at = "run" /\ worker'[i].job = j /\ worker'[i].copy = worker[i].copy
    BY <2>1, GotoSets DEF AccountInv
  <2>4. Uncounted(i, j)' = Faults
    <3>1. One(Raised(i)') = 0 /\ One(j \in deleted') = 0
      BY <1>2, <1>6, <2>2, <2>3 DEF Raised, One
    <3>2. QED
      BY <1>2, <1>3, <3>1 DEF Uncounted
  <2>5. HeadTally(i, j)'
    BY <1>2, <1>3, <1>5, <2>2, <2>4 DEF HeadTally
  <2>6. CopyTally(i, j)'
    <3>1. One(worker'[i].at = "finish" /\ Raised(i)') = 0
      BY <2>3 DEF One
    <3>2. QED
      BY <1>2, <1>3, <1>5, <2>3, <3>1 DEF CopyTally
  <2>7. worker[i].copy.status = "processing"
    BY <1>1, Holds DEF AccountInv
  <2>8. ~Queued(i, j)'
    BY <2>2, <2>3, <2>7 DEF Queued
  <2>9. QED
    BY <1>1, <1>2, <1>3, <2>2, <2>3, <2>5, <2>6, <2>8, CarriedOn
<1>7. CASE ~Readable(j)
  <2>1. worker' = [worker EXCEPT ![i] = Loop] /\ UNCHANGED <<job, deleted>>
    BY <1>7 DEF Claim, store
  <2>2. worker'[i].at = "loop" /\ ~On(i, j)' /\ worker'[i].at \in Idling
    BY <2>1, LoopSets DEF AccountInv, Idling
  <2>3. Uncounted(i, j)' = Faults /\ CopyTally(i, j)' /\ ~Engaged(i, j)'
    BY <1>3, <2>2 DEF Uncounted, CopyTally, Engaged, Executed
  <2>4. HeadTally(i, j)'
    BY <1>2, <1>3, <1>5, <2>1, <2>3 DEF HeadTally
  <2>5. QED
    BY <1>1, <1>2, <1>3, <2>1, <2>2, <2>3, <2>4, CarriedOn
<1>8. QED
  BY <1>6, <1>7

LEMMA RunCounts ==
    ASSUME OneInstance, AccountInv, Inv', CheckOK', NEW i \in Instance, NEW j, worker[i].job = j, j \notin stale, NEW out, Run(i, out)
    PROVE  AccountInv'
<1>1. /\ worker[i].at = "run" /\ worker[i].at \notin Idling
      /\ UNCHANGED <<job, deleted, scan, request, stale, sched, bounds>>
  BY DEF Run, Idling, store
<1>2. /\ j \in Job /\ On(i, j) /\ job[j] \in Data /\ worker[i].copy \in Data
      /\ HeadTally(i, j) /\ CopyTally(i, j) /\ attempts \in [Job -> Nat] /\ attempts[j] \in Nat
      /\ Faults \in Nat /\ MaxRetries \in Nat /\ worker[i].copy.retries \in Nat /\ job[j].retries \in Nat
  BY <1>1, Before
<1>3. worker'[i].at = "finish" /\ worker'[i].job = j /\ worker'[i].copy = worker[i].copy /\ worker'[i].out = out
  <2>1. worker' = [worker EXCEPT ![i].at = "finish", ![i].out = out]
    BY DEF Run
  <2>2. worker[i] \in WorkerState /\ worker'[i] = [worker[i] EXCEPT !.at = "finish", !.out = out]
    BY <2>1 DEF AccountInv, Inv, WorkerOK
  <2>3. QED
    BY <2>2 DEF WorkerState
<1>4. attempts' = [attempts EXCEPT ![j] = IF out \in {"error", "noretry"} /\ j \notin stale THEN @ + 1 ELSE @]
  BY DEF Run
<1>5. /\ attempts' \in [Job -> Nat] /\ attempts'[j] = attempts[j] + One(Raised(i)')
      /\ \A k \in Job \ {j} : attempts'[k] = attempts[k]
  BY <1>2, <1>3, <1>4 DEF Raised, One
<1>6. Executed(i, j) /\ On(i, j)' /\ Engaged(i, j) /\ Faults' = Faults
  BY <1>1, <1>2, <1>3, SameFaults DEF Executed, Engaged, Executing, On, Idling
<1>7. One(Raised(i)') \in {0, 1} /\ One(Raised(i)) = 0 /\ One(j \in deleted) \in {0, 1}
  BY <1>1 DEF One, Raised
<1>8. Uncounted(i, j) = Faults - One(j \in deleted)
  BY <1>1, <1>2, <1>7 DEF Uncounted
<1>9. Uncounted(i, j)' >= Uncounted(i, j) + One(Raised(i)') /\ Uncounted(i, j)' \in Int
  <2>1. CASE Raised(i)'
    <3>1. Uncounted(i, j)' = Faults + 1 - One(j \in deleted) /\ One(Raised(i)') = 1
      BY <1>1, <1>6, <2>1 DEF Uncounted, One
    <3>2. QED
      BY <1>2, <1>7, <1>8, <3>1
  <2>2. CASE ~Raised(i)'
    <3>1. Uncounted(i, j)' = Faults /\ One(Raised(i)') = 0
      BY <1>3, <1>6, <2>2 DEF Uncounted, One
    <3>2. QED
      BY <1>2, <1>7, <1>8, <3>1
  <2>3. QED
    BY <2>1, <2>2
<1>10. /\ attempts[j] <= job[j].retries + Uncounted(i, j) /\ attempts[j] <= MaxRetries + Uncounted(i, j)
       /\ Uncounted(i, j) \in Int /\ Uncounted(i, j) <= Faults
  BY <1>2, <1>6, <1>7, <1>8 DEF HeadTally
<1>11. /\ attempts'[j] <= job[j].retries + Uncounted(i, j)'
       /\ attempts'[j] <= MaxRetries + Uncounted(i, j)' /\ attempts'[j] <= MaxRetries + 1 + Faults
  BY <1>2, <1>5, <1>7, <1>9, <1>10
<1>12. HeadTally(i, j)'
  BY <1>1, <1>6, <1>11 DEF HeadTally
<1>13. attempts[j] <= worker[i].copy.retries + Faults
  BY <1>1, <1>2, <1>7 DEF CopyTally, One
<1>14. CopyTally(i, j)'
  <2>1. One(worker'[i].at = "finish" /\ Raised(i)') = One(Raised(i)')
    BY <1>3 DEF One
  <2>2. attempts'[j] <= worker[i].copy.retries + Faults + One(Raised(i)')
    BY <1>2, <1>5, <1>7, <1>13
  <2>3. QED
    BY <1>3, <1>6, <2>1, <2>2 DEF CopyTally
<1>15. QED
  BY <1>1, <1>2, <1>3, <1>5, <1>6, <1>12, <1>14, Carried

(* Recording raised: at most a failure is about to be counted, of a job that *)
(* is deleted.                                                               *)
LEMMA RaiseCounts ==
    ASSUME OneInstance, AccountInv, Inv', CheckOK', NEW i \in Instance, NEW j, worker[i].job = j, j \notin stale,
           worker[i].at \in {"finish", "complete", "periodic", "delay"}, ~Raised(i), j \in deleted, Raise(i),
           UNCHANGED <<job, deleted, scan, request, stale, sched, attempts, bounds>>
    PROVE  AccountInv'
<1>1. worker[i].at \notin Idling
  BY DEF Idling
<1>2. /\ j \in Job /\ On(i, j) /\ job[j] \in Data /\ worker[i].copy \in Data
      /\ HeadTally(i, j) /\ CopyTally(i, j) /\ attempts \in [Job -> Nat] /\ attempts[j] \in Nat
      /\ Faults \in Nat /\ MaxRetries \in Nat /\ worker[i].copy.retries \in Nat /\ job[j].retries \in Nat
  BY <1>1, Before
<1>3. Faults' = Faults /\ Engaged(i, j) /\ Executed(i, j)
  BY <1>2, SameFaults DEF Engaged, Executed, Executing
<1>4. /\ worker'[i].job = j /\ worker'[i].copy = worker[i].copy
      /\ (worker'[i].at = "join" \/ (worker'[i].at = "finish" /\ worker'[i].out = "error"))
  BY RaiseSets DEF AccountInv
<1>5. Uncounted(i, j) = Faults
  BY DEF Uncounted
<1>6. Uncounted(i, j)' = Faults
  <2>1. One(j \in deleted') = 1 /\ (Raised(i)' => One(Raised(i)') = 1) /\ (Raised(i)' => On(i, j)')
    BY <1>4 DEF One, Raised, On, Idling
  <2>2. CASE Raised(i)'
    <3>1. Uncounted(i, j)' = Faults' + One(Raised(i)') - One(j \in deleted')
      BY <2>1, <2>2 DEF Uncounted
    <3>2. One(Raised(i)') = 1
      BY <2>1, <2>2
    <3>3. QED
      BY <1>2, <1>3, <2>1, <3>1, <3>2
  <2>3. CASE ~Raised(i)'
    BY <1>3, <1>4, <2>3 DEF Uncounted
  <2>4. QED
    BY <2>2, <2>3
<1>7. HeadTally(i, j)'
  BY <1>2, <1>3, <1>5, <1>6 DEF HeadTally
<1>8. CopyTally(i, j)'
  <2>1. attempts[j] <= worker[i].copy.retries + Faults
    <3>1. One(worker[i].at = "finish" /\ Raised(i)) = 0
      BY DEF One
    <3>2. QED
      BY <1>2, <3>1 DEF CopyTally
  <2>2. worker'[i].at = "finish" => One(worker'[i].at = "finish" /\ Raised(i)') = 1
    BY <1>4 DEF One, Raised
  <2>3. QED
    BY <1>2, <1>3, <1>4, <2>1, <2>2 DEF CopyTally
<1>9. QED
  BY <1>1, <1>2, <1>3, <1>4, <1>7, <1>8, Carried

LEMMA CompleteReadCounts ==
    ASSUME OneInstance, AccountInv, Inv', CheckOK', NEW i \in Instance, NEW j, worker[i].job = j, j \notin stale, CompleteRead(i)
    PROVE  AccountInv'
<1>1. /\ worker[i].at = "finish" /\ worker[i].out \in {"ok", "stop", "delay"}
      /\ worker[i].at \notin Idling /\ ~Raised(i)
      /\ UNCHANGED <<job, deleted, scan, request, stale, sched, attempts, bounds>>
  BY DEF CompleteRead, Idling, store, history, Raised
<1>2. /\ j \in Job /\ On(i, j) /\ job[j] \in Data /\ worker[i].copy \in Data
      /\ HeadTally(i, j) /\ CopyTally(i, j) /\ attempts \in [Job -> Nat] /\ attempts[j] \in Nat
      /\ Faults \in Nat /\ MaxRetries \in Nat /\ worker[i].copy.retries \in Nat /\ job[j].retries \in Nat
      /\ (~Readable(j) => j \in deleted)
  BY <1>1, Before
<1>3. CASE Readable(j)
  <2> DEFINE d == [job[j] EXCEPT !.status = "completed"]
  <2>1. d \in Data /\ Fields(d, job[j], "completed")
    BY <1>2, StatusFields DEF TaskStatus
  <2>2. Step(i, "complete", j, d, worker[i].out)
    BY <1>3 DEF CompleteRead
  <2>3. worker'[i].at = "complete" /\ worker'[i].job = j /\ worker'[i].copy = d
    BY <2>2, StepSets DEF AccountInv
  <2>4. d.retries = job[j].retries /\ d.runs = job[j].runs /\ d.status = "completed"
    BY <2>1 DEF Fields
  <2> HIDE DEF d
  <2>5. Uncounted(i, j) = Faults /\ Uncounted(i, j)' = Faults /\ Faults' = Faults
    BY <1>1, <2>3, SameFaults DEF Uncounted, Raised
  <2>6. Engaged(i, j) /\ Executed(i, j)
    BY <1>1, <1>2 DEF Engaged, Executed, Executing
  <2>7. HeadTally(i, j)'
    BY <1>1, <1>2, <2>5, <2>6 DEF HeadTally
  <2>8. CopyTally(i, j)'
    <3>1. One(worker'[i].at = "finish" /\ Raised(i)') = 0
      BY <2>3 DEF One
    <3>2. attempts[j] <= job[j].retries + Faults
      BY <1>2, <2>5 DEF HeadTally
    <3>3. QED
      BY <1>1, <1>2, <2>3, <2>4, <2>5, <3>1, <3>2 DEF CopyTally
  <2>9. QED
    BY <1>1, <1>2, <2>3, <2>4, <2>6, <2>7, <2>8, Carried
<1>4. CASE ~Readable(j)
  <2>1. Raise(i)
    BY <1>4 DEF CompleteRead
  <2>2. QED
    BY <1>1, <1>2, <1>4, <2>1, RaiseCounts
<1>5. QED
  BY <1>3, <1>4

LEMMA CompleteWriteCounts ==
    ASSUME OneInstance, AccountInv, Inv', CheckOK', NEW i \in Instance, NEW j, worker[i].job = j, j \notin stale, CompleteWrite(i)
    PROVE  AccountInv'
<1>1. /\ worker[i].at = "complete" /\ worker[i].at \notin Idling /\ ~Raised(i)
      /\ UNCHANGED <<scan, request, stale, sched, bounds>>
  BY DEF CompleteWrite, Idling, Raised
<1>2. /\ j \in Job /\ On(i, j) /\ job[j] \in Data /\ worker[i].copy \in Data
      /\ CopyTally(i, j) /\ attempts \in [Job -> Nat]
      /\ Faults \in Nat /\ MaxRetries \in Nat /\ worker[i].copy.retries \in Nat
      /\ (~Readable(j) => j \in deleted)
  BY <1>1, Before
<1>3. CASE Readable(j)
  <2>1. /\ Write(j, worker[i].copy, FALSE) /\ attempts' = [attempts EXCEPT ![j] = 0]
        /\ \E at \in {"delay", "periodic", "join"} : Goto(i, at)
    BY <1>3 DEF CompleteWrite
  <2>2. PICK at \in {"delay", "periodic", "join"} : Goto(i, at)
    BY <2>1
  <2>3. worker'[i].at = at /\ worker'[i].job = j /\ worker'[i].copy = worker[i].copy
    BY <2>2, GotoSets DEF AccountInv
  <2>4. job'[j] = worker[i].copy /\ (\A k \in Job \ {j} : job'[k] = job[k]) /\ deleted' = deleted
    BY <1>2, <2>1, WriteSets DEF AccountInv
  <2>5. attempts' \in [Job -> Nat] /\ attempts'[j] = 0 /\ \A k \in Job \ {j} : attempts'[k] = attempts[k]
    BY <1>2, <2>1
  <2>6. Uncounted(i, j)' = Faults /\ Faults' = Faults
    BY <1>1, <2>3, SameFaults DEF Uncounted, Raised
  <2>7. HeadTally(i, j)'
    BY <1>2, <2>4, <2>5, <2>6 DEF HeadTally
  <2>8. worker[i].copy.status = "completed"
    BY <1>1, <1>2 DEF CopyTally
  <2>9. CopyTally(i, j)'
    BY <2>3, <2>5, <2>8 DEF CopyTally
  <2>10. Engaged(i, j)
    BY <1>1, <1>2 DEF Engaged, Executed, Executing
  <2>11. QED
    BY <1>1, <1>2, <2>3, <2>4, <2>5, <2>7, <2>8, <2>9, <2>10, Carried
<1>4. CASE ~Readable(j)
  <2>1. Raise(i) /\ UNCHANGED <<job, deleted, attempts>>
    BY <1>4 DEF CompleteWrite, store
  <2>2. QED
    BY <1>1, <1>2, <1>4, <2>1, RaiseCounts
<1>5. QED
  BY <1>3, <1>4

(* A periodic or delayed job: the run that follows is among those left.      *)
LEMMA AgainCounts ==
    ASSUME OneInstance, AccountInv, Inv', CheckOK', NEW i \in Instance, NEW j, worker[i].job = j, j \notin stale,
           worker[i].at \in {"periodic", "delay"}, Readable(j), NEW d \in Data, d.status = "completed",
           Write(j, d, FALSE), Goto(i, "join"), UNCHANGED <<scan, request, stale, attempts, bounds>>,
           \/ sched' = sched /\ d.runs = worker[i].copy.runs + 1
           \/ sched' = [sched EXCEPT ![i] = @ \cup {j}] /\ d.runs = worker[i].copy.runs
           \/ /\ sched' = [sched EXCEPT ![i] = @ \cup {j}] /\ d.runs = worker[i].copy.runs + 1
              /\ worker[i].copy.runs + 1 < MaxRuns
    PROVE  AccountInv'
<1>1. worker[i].at \notin Idling /\ ~Raised(i)
  BY DEF Idling, Raised
<1>2. /\ j \in Job /\ On(i, j) /\ job[j] # None /\ job[j] \in Data /\ worker[i].copy \in Data
      /\ CopyTally(i, j) /\ Faults \in Nat /\ MaxRetries \in Nat
  BY <1>1, Before
<1>3. /\ job'[j] = d /\ (\A k \in Job \ {j} : job'[k] = job[k]) /\ deleted' = deleted
  BY <1>2, WriteSets DEF AccountInv
<1>4. worker'[i].at = "join" /\ worker'[i].job = j /\ worker'[i].copy = worker[i].copy
  BY GotoSets DEF AccountInv
<1>5. sched \in [Instance -> SUBSET Job]
  BY DEF AccountInv, CountOK
<1>6. sched' \in [Instance -> SUBSET Job] /\ sched'[i] \subseteq sched[i] \cup {j}
  BY <1>2, <1>5
<1>7. Consumes(i, j)
  <2>1. UNCHANGED <<deleted, scan, request, stale, bounds, attempts>>
    BY <1>3
  <2>2. \A k \in Job \ {j} : k \in sched'[i] => k \in sched[i]
    BY <1>6
  <2>3. worker[i].at # "start"
    BY <1>1 DEF Idling
  <2>4. QED
    BY <1>2, <1>3, <1>4, <1>6, <2>1, <2>2, <2>3, ConsumesWith
<1>8. attempts'[j] = 0
  BY <1>2 DEF CopyTally
<1>9. Faults' = Faults /\ Uncounted(i, j)' = Faults /\ ~Engaged(i, j)' /\ ~Executed(i, j)'
  BY <1>4, SameFaults DEF Uncounted, Raised, Engaged, Executed, Executing
<1>10. d.retries \in Nat /\ d.runs \in Nat /\ worker[i].copy.runs \in Nat
  BY <1>2 DEF Data
<1>11. HeadTally(i, j)' /\ CopyTally(i, j)'
  BY <1>2, <1>3, <1>4, <1>8, <1>9, <1>10 DEF HeadTally, CopyTally
<1> DEFINE p == One(Queued(i, j))
           s == One(j \in sched[i])
           t == One(j \in sched'[i])
           a == One(Asking(i, j))
<1>12. p \in {0, 1} /\ s \in {0, 1} /\ t \in {0, 1} /\ a \in {0, 1}
  BY DEF One
<1>13. Chances(i, j) = p + 1 + s + a
  <2>1. Engaged(i, j)
    BY <1>2 DEF Engaged, Executed, Executing
  <2>2. One(Engaged(i, j)) = 1
    BY <2>1 DEF One
  <2>3. QED
    BY <2>2 DEF Chances
<1>14. Chances(i, j)' = t + a
  <2>1. One(Queued(i, j)') = 0 /\ One(Engaged(i, j)') = 0
    BY <1>3, <1>4, <1>9 DEF One, Queued
  <2>2. One(Asking(i, j)') = a
    BY DEF Asking
  <2>3. Chances(i, j)' = 0 + 0 + t + a
    BY <2>1, <2>2 DEF Chances
  <2>4. QED
    BY <1>12, <2>3
<1>15. sched' = sched => t = s
  OBVIOUS
<1>16. a <= reruns /\ reruns \in Nat /\ MaxRuns \in Nat /\ Allowed \in Nat /\ Allowed = MaxRuns + reruns
  <2>1. Asking(i, j) => reruns > 0
    BY DEF AccountInv, Order, Asking
  <2>2. reruns \in Nat /\ MaxRuns \in Nat /\ Allowed \in Nat
    BY <1>2, Numbers, JobQueueAssumption DEF JobQueueAssumption
  <2>3. QED
    BY <2>1, <2>2 DEF One, Allowed
<1>17. worker[i].copy.runs + Chances(i, j) <= Allowed
  BY <1>1, OnHolds DEF RunsLeft, Within
<1> HIDE DEF p, s, t, a
<1>18. Chances(i, j)' <= Chances(i, j) /\ Chances(i, j)' \in Nat /\ Chances(i, j) \in Nat
  BY <1>12, <1>13, <1>14
<1>19. d.runs + Chances(i, j)' <= Allowed
  <2>1. CASE sched' = sched /\ d.runs = worker[i].copy.runs + 1
    BY <1>10, <1>12, <1>13, <1>14, <1>15, <1>16, <1>17, <2>1
  <2>2. CASE d.runs = worker[i].copy.runs
    BY <1>10, <1>16, <1>17, <1>18, <2>2
  <2>3. CASE d.runs = worker[i].copy.runs + 1 /\ worker[i].copy.runs + 1 < MaxRuns
    BY <1>10, <1>12, <1>14, <1>16, <2>3
  <2>4. QED
    BY <2>1, <2>2, <2>3
<1>20. worker[i].copy.runs + Chances(i, j)' <= Allowed
  BY <1>10, <1>16, <1>17, <1>18
<1>21. job'[j] # None
  BY <1>3, NoneAssumption
<1>22. QED
  BY <1>2, <1>3, <1>4, <1>7, <1>11, <1>18, <1>19, <1>20, <1>21, ConsumesKeeps

LEMMA PeriodicWriteCounts ==
    ASSUME OneInstance, AccountInv, Inv', CheckOK', NEW i \in Instance, NEW j, worker[i].job = j, j \notin stale, PeriodicWrite(i)
    PROVE  AccountInv'
<1>1. /\ worker[i].at = "periodic" /\ worker[i].at \notin Idling /\ ~Raised(i)
      /\ UNCHANGED <<scan, request, stale, attempts, bounds>>
  BY DEF PeriodicWrite, Idling, Raised
<1>2. /\ worker[i].copy \in Data /\ CopyTally(i, j) /\ On(i, j) /\ (~Readable(j) => j \in deleted)
  BY <1>1, Before
<1>3. worker[i].copy.status = "completed"
  BY <1>1, <1>2 DEF CopyTally
<1> DEFINE d == [worker[i].copy EXCEPT !.runs = @ + 1]
           e == [d EXCEPT !.retries = 0]
<1>4. /\ d \in Data /\ d.status = "completed" /\ d.runs = worker[i].copy.runs + 1
      /\ e \in Data /\ e.status = "completed" /\ e.runs = worker[i].copy.runs + 1
  <2>1. d \in Data /\ d.status = worker[i].copy.status /\ d.runs = worker[i].copy.runs + 1
    BY <1>2 DEF Data
  <2> HIDE DEF d
  <2>2. e \in Data /\ e.status = d.status /\ e.runs = d.runs
    BY <2>1 DEF Data
  <2>3. QED
    BY <1>3, <2>1, <2>2
<1>5. CASE Readable(j) /\ Continues(i)
  <2>1. /\ Write(j, e, FALSE) /\ sched' = [sched EXCEPT ![i] = @ \cup {j}] /\ Goto(i, "join")
        /\ worker[i].copy.runs + 1 < MaxRuns
    BY <1>5 DEF PeriodicWrite, Reschedule, Continues
  <2> HIDE DEF d, e
  <2>2. QED
    BY <1>1, <1>4, <1>5, <2>1, AgainCounts
<1>6. CASE Readable(j) /\ ~Continues(i)
  <2>1. Write(j, d, FALSE) /\ sched' = sched /\ Goto(i, "join")
    BY <1>6 DEF PeriodicWrite
  <2> HIDE DEF d, e
  <2>2. QED
    BY <1>1, <1>4, <1>6, <2>1, AgainCounts
<1>7. CASE ~Readable(j)
  <2>1. Raise(i) /\ UNCHANGED <<job, deleted, sched>>
    BY <1>7 DEF PeriodicWrite, store
  <2>2. QED
    BY <1>1, <1>2, <1>7, <2>1, RaiseCounts
<1>8. QED
  BY <1>5, <1>6, <1>7

LEMMA DelayWriteCounts ==
    ASSUME OneInstance, AccountInv, Inv', CheckOK', NEW i \in Instance, NEW j, worker[i].job = j, j \notin stale, DelayWrite(i)
    PROVE  AccountInv'
<1>1. /\ worker[i].at = "delay" /\ worker[i].at \notin Idling /\ ~Raised(i)
      /\ UNCHANGED <<scan, request, stale, attempts, bounds>>
  BY DEF DelayWrite, Idling, Raised
<1>2. /\ worker[i].copy \in Data /\ CopyTally(i, j) /\ On(i, j) /\ (~Readable(j) => j \in deleted)
  BY <1>1, Before
<1>3. worker[i].copy.status = "completed"
  BY <1>1, <1>2 DEF CopyTally
<1> DEFINE d == [worker[i].copy EXCEPT !.retries = 0]
<1>4. d \in Data /\ d.status = "completed" /\ d.runs = worker[i].copy.runs
  <2>1. d \in Data /\ d.status = worker[i].copy.status
    BY <1>2, Counted
  <2>2. d.runs = worker[i].copy.runs
    BY <1>2 DEF Data
  <2>3. QED
    BY <1>3, <2>1, <2>2
<1>5. CASE Readable(j)
  <2>1. Write(j, d, FALSE) /\ sched' = [sched EXCEPT ![i] = @ \cup {j}] /\ Goto(i, "join")
    BY <1>5 DEF DelayWrite, Reschedule
  <2> HIDE DEF d
  <2>2. QED
    BY <1>1, <1>4, <1>5, <2>1, AgainCounts
<1>6. CASE ~Readable(j)
  <2>1. Raise(i) /\ UNCHANGED <<job, deleted, sched>>
    BY <1>6 DEF DelayWrite, store
  <2>2. QED
    BY <1>1, <1>2, <1>6, <2>1, RaiseCounts
<1>7. QED
  BY <1>5, <1>6

LEMMA FailureFields ==
    ASSUME NEW d \in Data, NEW out
    PROVE  /\ Failure(d, out).retries = d.retries + 1 /\ Failure(d, out).runs = d.runs
           /\ Failure(d, out) \in Data
           /\ Failure(d, out).status = "pending" => d.retries + 1 <= MaxRetries
<1>1. CASE out # "noretry" /\ d.retries + 1 <= MaxRetries
  <2>1. Failure(d, out) = [d EXCEPT !.retries = d.retries + 1, !.status = "pending"]
    BY <1>1 DEF Failure, Data
  <2>2. QED
    BY <1>1, <2>1, Failed DEF Data
<1>2. CASE ~(out # "noretry" /\ d.retries + 1 <= MaxRetries)
  <2>1. Failure(d, out) = [d EXCEPT !.retries = d.retries + 1, !.status = "failed"]
    BY <1>2 DEF Failure, Data
  <2>2. QED
    BY <1>2, <2>1, Failed DEF Data
<1>3. QED
  BY <1>1, <1>2

LEMMA ErrorReadCounts ==
    ASSUME OneInstance, AccountInv, Inv', CheckOK', NEW i \in Instance, NEW j, worker[i].job = j, j \notin stale, ErrorRead(i)
    PROVE  AccountInv'
<1>1. /\ worker[i].at = "finish" /\ worker[i].out \in {"error", "noretry"}
      /\ worker[i].at \notin Idling /\ Raised(i)
      /\ UNCHANGED <<job, deleted, scan, request, stale, sched, attempts, bounds>>
  BY DEF ErrorRead, Idling, store, history, Raised
<1>2. /\ j \in Job /\ On(i, j) /\ job[j] \in Data /\ worker[i].copy \in Data
      /\ HeadTally(i, j) /\ CopyTally(i, j) /\ attempts \in [Job -> Nat] /\ attempts[j] \in Nat
      /\ Faults \in Nat /\ MaxRetries \in Nat /\ worker[i].copy.retries \in Nat /\ job[j].retries \in Nat
      /\ (Readable(j) => j \notin deleted)
  BY <1>1, Before
<1> DEFINE d == IF Readable(j) THEN job[j] ELSE worker[i].copy
           e == Failure(d, worker[i].out)
<1>3. d \in Data /\ d \in {job[j], worker[i].copy}
  BY <1>2
<1>4. Step(i, "save", j, e, worker[i].out)
  BY DEF ErrorRead
<1>5. worker'[i].at = "save" /\ worker'[i].job = j /\ worker'[i].copy = e /\ worker'[i].out = worker[i].out
  BY <1>4, StepSets DEF AccountInv
<1>6. One(worker[i].at = "finish" /\ Raised(i)) = 1 /\ One(Raised(i)) = 1 /\ One(j \in deleted) \in {0, 1}
  BY <1>1 DEF One
<1>7. Uncounted(i, j) = Faults + 1 - One(j \in deleted)
  BY <1>1, <1>2, <1>6 DEF Uncounted
<1>8. Raised(i)' /\ Executed(i, j) /\ Engaged(i, j) /\ On(i, j)'
  BY <1>1, <1>2, <1>5 DEF Raised, Executed, Engaged, Executing, On, Idling
<1>9. Faults' = Faults /\ Uncounted(i, j)' = Uncounted(i, j)
  <2>1. One(Raised(i)') = 1 /\ One(j \in deleted') = One(j \in deleted) /\ Faults' = Faults
    BY <1>1, <1>8, SameFaults DEF One
  <2>2. Uncounted(i, j)' = Faults' + One(Raised(i)') - One(j \in deleted')
    BY <1>8 DEF Uncounted
  <2>3. QED
    BY <1>2, <1>7, <2>1, <2>2
<1>10. attempts[j] <= d.retries + 1 + Faults
  <2>1. CASE Readable(j)
    <3>1. One(j \in deleted) = 0
      BY <1>2, <2>1 DEF One
    <3>2. QED
      BY <1>2, <1>7, <2>1, <3>1 DEF HeadTally
  <2>2. CASE ~Readable(j)
    BY <1>1, <1>2, <1>6, <2>2 DEF CopyTally
  <2>3. QED
    BY <2>1, <2>2
<1>11. d.retries \in Nat /\ d.runs \in {job[j].runs, worker[i].copy.runs}
  BY <1>3 DEF Data
<1> HIDE DEF d
<1>12. /\ e.retries = d.retries + 1 /\ e.runs = d.runs
       /\ (e.status = "pending" => d.retries + 1 <= MaxRetries)
  BY <1>3, FailureFields
<1> HIDE DEF e
<1>13. HeadTally(i, j)'
  <2>1. Uncounted(i, j) \in Int
    BY <1>2, <1>6, <1>7
  <2>2. QED
    BY <1>1, <1>2, <1>8, <1>9, <2>1 DEF HeadTally
<1>14. CopyTally(i, j)'
  <2>1. One(worker'[i].at = "finish" /\ Raised(i)') = 0
    BY <1>5 DEF One
  <2>2. attempts[j] <= e.retries + Faults /\ (e.status = "pending" => e.retries <= MaxRetries)
    BY <1>2, <1>10, <1>11, <1>12
  <2>3. attempts'[j] <= worker'[i].copy.retries + Faults' + One(worker'[i].at = "finish" /\ Raised(i)')
    BY <1>1, <1>2, <1>5, <1>9, <1>11, <1>12, <2>1, <2>2
  <2>4. QED
    BY <1>1, <1>5, <2>2, <2>3 DEF CopyTally
<1>15. worker'[i].copy.runs \in {job[j].runs, worker[i].copy.runs}
  BY <1>5, <1>11, <1>12
<1>16. QED
  BY <1>1, <1>2, <1>5, <1>8, <1>13, <1>14, <1>15, Carried

LEMMA ErrorWriteCounts ==
    ASSUME OneInstance, AccountInv, Inv', CheckOK', NEW i \in Instance, NEW j, worker[i].job = j, j \notin stale, ErrorWrite(i)
    PROVE  AccountInv'
<1>1. /\ worker[i].at = "save" /\ worker[i].at \notin Idling
      /\ UNCHANGED <<scan, request, stale, sched, attempts, bounds>>
  BY DEF ErrorWrite, Idling
<1>2. /\ j \in Job /\ On(i, j) /\ job[j] \in Data /\ worker[i].copy \in Data
      /\ HeadTally(i, j) /\ CopyTally(i, j) /\ attempts \in [Job -> Nat] /\ attempts[j] \in Nat
      /\ Faults \in Nat /\ MaxRetries \in Nat /\ worker[i].copy.retries \in Nat /\ job[j].retries \in Nat
      /\ (~Readable(j) => j \in deleted)
  BY <1>1, Before
<1>3. /\ job'[j] = (IF Readable(j) THEN worker[i].copy ELSE job[j])
      /\ (\A k \in Job \ {j} : job'[k] = job[k]) /\ deleted' = deleted
  BY <1>2, TryHeads DEF ErrorWrite, AccountInv
<1>4. PICK at : at = IF Readable(j) /\ worker[i].copy.status = "pending" THEN "join" ELSE "fail"
  OBVIOUS
<1>5. Goto(i, at)
  BY <1>4 DEF ErrorWrite
<1>6. /\ worker'[i].at = at /\ worker'[i].job = j /\ worker'[i].copy = worker[i].copy
      /\ at \in {"join", "fail"}
  BY <1>4, <1>5, GotoSets DEF AccountInv
<1>7. Faults' = Faults /\ Uncounted(i, j)' = Faults /\ ~Executed(i, j)' /\ ~Engaged(i, j)'
  BY <1>1, <1>6, SameFaults DEF Uncounted, Raised, Executed, Engaged, Executing
<1>8. Raised(i) /\ Engaged(i, j) /\ Executed(i, j)
  BY <1>1, <1>2 DEF CopyTally, Raised, Engaged, Executed, Executing
<1>9. /\ attempts[j] <= worker[i].copy.retries + Faults /\ attempts[j] <= MaxRetries + 1 + Faults
      /\ (worker[i].copy.status = "pending" => worker[i].copy.retries <= MaxRetries)
  <2>1. One(worker[i].at = "finish" /\ Raised(i)) = 0
    BY <1>1 DEF One
  <2>2. QED
    BY <1>1, <1>2, <2>1 DEF HeadTally, CopyTally
<1>10. HeadTally(i, j)'
  <2>1. CASE Readable(j)
    <3>1. job'[j].status = "pending" => attempts[j] <= MaxRetries + Faults
      BY <1>2, <1>3, <1>9, <2>1
    <3>2. QED
      BY <1>1, <1>2, <1>3, <1>7, <1>9, <2>1, <3>1 DEF HeadTally
  <2>2. CASE ~Readable(j)
    <3>1. One(Raised(i)) = 1 /\ One(j \in deleted) = 1
      BY <1>2, <1>8, <2>2 DEF One
    <3>2. Uncounted(i, j) = Faults
      <4>1. Uncounted(i, j) = Faults + One(Raised(i)) - One(j \in deleted)
        BY <1>2, <1>8 DEF Uncounted
      <4>2. QED
        BY <1>2, <3>1, <4>1
    <3>3. QED
      BY <1>1, <1>2, <1>3, <1>7, <1>9, <2>2, <3>2 DEF HeadTally
  <2>3. QED
    BY <2>1, <2>2
<1>11. CopyTally(i, j)'
  BY <1>6 DEF CopyTally
<1>12. job'[j] \in {job[j], worker[i].copy}
  BY <1>3
<1>13. QED
  BY <1>1, <1>2, <1>3, <1>6, <1>7, <1>8, <1>10, <1>11, <1>12, Carried

(* A step at the end of an execution: it is not counted any more, and HEAD   *)
(* keeps its failures or has those of a copy that failed.                    *)
LEMMA EndCounts ==
    ASSUME OneInstance, AccountInv, Inv', CheckOK', NEW i \in Instance, NEW j, worker[i].job = j, j \notin stale,
           worker[i].at \in {"fail", "failing", "join"},
           UNCHANGED <<deleted, scan, request, stale, sched, attempts, bounds>>,
           job'[j] = job[j] \/ (worker[i].at = "failing" /\ job'[j] = worker[i].copy),
           \A k \in Job \ {j} : job'[k] = job[k],
           \/ worker'[i].at = "loop"
           \/ /\ worker'[i].at \in {"fail", "join"} /\ worker'[i].job = j
              /\ worker'[i].copy = worker[i].copy
    PROVE  AccountInv'
<1>1. worker[i].at \notin Idling /\ ~Raised(i) /\ worker[i].at # "finish" /\ worker[i].at # "run"
  BY DEF Idling, Raised
<1>2. /\ j \in Job /\ job[j] \in Data /\ worker[i].copy \in Data /\ On(i, j)
      /\ HeadTally(i, j) /\ CopyTally(i, j) /\ attempts \in [Job -> Nat] /\ attempts[j] \in Nat
      /\ Faults \in Nat /\ MaxRetries \in Nat /\ worker[i].copy.retries \in Nat /\ job[j].retries \in Nat
  BY <1>1, Before
<1>3. worker'[i].at \in {"fail", "join", "loop"}
  OBVIOUS
<1>4. /\ Faults' = Faults /\ Uncounted(i, j) = Faults /\ Uncounted(i, j)' = Faults
      /\ ~Executed(i, j)' /\ ~Engaged(i, j)' /\ CopyTally(i, j)'
  BY <1>1, <1>3, SameFaults DEF Uncounted, Raised, Executed, Engaged, Executing, CopyTally
<1>5. HeadTally(i, j)'
  <2>1. CASE job'[j] = job[j]
    BY <1>2, <1>4, <2>1 DEF HeadTally
  <2>2. CASE worker[i].at = "failing" /\ job'[j] = worker[i].copy
    <3>1. attempts[j] <= worker[i].copy.retries + Faults /\ worker[i].copy.status = "failed"
      <4>1. One(worker[i].at = "finish" /\ Raised(i)) = 0
        BY <1>1 DEF One
      <4>2. QED
        BY <1>2, <2>2, <4>1 DEF CopyTally
    <3>2. QED
      BY <1>2, <1>4, <2>2, <3>1 DEF HeadTally
  <2>3. QED
    BY <2>1, <2>2
<1>6. job'[j].status = "pending" => job[j].status = "pending"
  BY <1>2 DEF CopyTally
<1>7. worker'[i].at \in Idling \/ (worker'[i].job = j /\ worker'[i].copy = worker[i].copy)
  BY DEF Idling
<1>8. QED
  BY <1>1, <1>2, <1>4, <1>5, <1>6, <1>7, Carried

LEMMA FailReadCounts ==
    ASSUME OneInstance, AccountInv, Inv', CheckOK', NEW i \in Instance, NEW j, worker[i].job = j, j \notin stale, FailRead(i)
    PROVE  AccountInv'
<1>1. /\ worker[i].at = "fail" /\ worker[i].at \notin Idling
      /\ UNCHANGED <<job, deleted, scan, request, stale, sched, attempts, bounds>>
  BY DEF FailRead, Idling, store, history
<1>2. /\ j \in Job /\ On(i, j) /\ job[j] \in Data /\ worker[i].copy \in Data
      /\ HeadTally(i, j) /\ CopyTally(i, j) /\ attempts \in [Job -> Nat] /\ attempts[j] \in Nat
      /\ Faults \in Nat /\ MaxRetries \in Nat /\ worker[i].copy.retries \in Nat /\ job[j].retries \in Nat
  BY <1>1, Before
<1>3. CASE Readable(j)
  <2> DEFINE d == [job[j] EXCEPT !.status = "failed"]
  <2>1. d \in Data /\ Fields(d, job[j], "failed")
    BY <1>2, StatusFields DEF TaskStatus
  <2>2. Step(i, "failing", j, d, worker[i].out)
    BY <1>3 DEF FailRead
  <2>3. worker'[i].at = "failing" /\ worker'[i].job = j /\ worker'[i].copy = d
    BY <2>2, StepSets DEF AccountInv
  <2>4. d.retries = job[j].retries /\ d.runs = job[j].runs /\ d.status = "failed"
    BY <2>1 DEF Fields
  <2> HIDE DEF d
  <2>5. /\ Uncounted(i, j) = Faults /\ Uncounted(i, j)' = Faults /\ Faults' = Faults
        /\ ~Executed(i, j)' /\ ~Engaged(i, j)'
    BY <1>1, <2>3, SameFaults DEF Uncounted, Raised, Executed, Engaged, Executing
  <2>6. HeadTally(i, j)'
    BY <1>1, <1>2, <2>5 DEF HeadTally
  <2>7. CopyTally(i, j)'
    <3>1. One(worker'[i].at = "finish" /\ Raised(i)') = 0
      BY <2>3 DEF One
    <3>2. attempts[j] <= job[j].retries + Faults
      BY <1>2, <2>5 DEF HeadTally
    <3>3. QED
      BY <1>1, <1>2, <2>3, <2>4, <2>5, <3>1, <3>2 DEF CopyTally
  <2>8. QED
    BY <1>1, <1>2, <2>3, <2>4, <2>5, <2>6, <2>7, Carried
<1>4. CASE ~Readable(j)
  <2>1. Goto(i, "join")
    BY <1>4 DEF FailRead
  <2>2. worker'[i].at = "join" /\ worker'[i].job = j /\ worker'[i].copy = worker[i].copy
    BY <2>1, GotoSets DEF AccountInv
  <2>3. QED
    BY <1>1, <2>2, EndCounts
<1>5. QED
  BY <1>3, <1>4

LEMMA FailWriteCounts ==
    ASSUME OneInstance, AccountInv, Inv', CheckOK', NEW i \in Instance, NEW j, worker[i].job = j, j \notin stale, FailWrite(i)
    PROVE  AccountInv'
<1>1. /\ worker[i].at = "failing" /\ worker[i].at \notin Idling /\ Goto(i, "join")
      /\ UNCHANGED <<scan, request, stale, sched, attempts, bounds>> /\ TryWrite(j, worker[i].copy)
  BY DEF FailWrite, Idling, history
<1>2. j \in Job
  BY <1>1, Before
<1>3. /\ job'[j] = (IF Readable(j) THEN worker[i].copy ELSE job[j])
      /\ (\A k \in Job \ {j} : job'[k] = job[k]) /\ deleted' = deleted
  BY <1>1, <1>2, TryHeads DEF AccountInv
<1>4. worker'[i].at = "join" /\ worker'[i].job = j /\ worker'[i].copy = worker[i].copy
  BY <1>1, GotoSets DEF AccountInv
<1>5. QED
  BY <1>1, <1>3, <1>4, EndCounts

LEMMA JoinCounts ==
    ASSUME OneInstance, AccountInv, Inv', CheckOK', NEW i \in Instance, NEW j, worker[i].job = j, j \notin stale, Join(i)
    PROVE  AccountInv'
<1>1. worker[i].at = "join" /\ UNCHANGED <<job, deleted, scan, request, stale, sched, attempts, bounds>>
  BY DEF Join, store, history
<1>2. CASE worker[i].out = "escaped"
  <2>1. worker' = [worker EXCEPT ![i].at = "fail", ![i].out = "caught"]
    BY <1>2 DEF Join
  <2>2. worker'[i].at = "fail" /\ worker'[i].job = j /\ worker'[i].copy = worker[i].copy
    BY <2>1, OutSets DEF AccountInv
  <2>3. QED
    BY <1>1, <2>2, EndCounts
<1>3. CASE worker[i].out # "escaped"
  <2>1. worker' = [worker EXCEPT ![i] = Loop]
    BY <1>3 DEF Join
  <2>2. worker'[i].at = "loop"
    BY <2>1, LoopSets DEF AccountInv
  <2>3. QED
    BY <1>1, <2>2, EndCounts
<1>4. QED
  BY <1>2, <1>3

(* The steps about a job with stale counts.                                  *)
LEMMA StaleCarried ==
    ASSUME OneInstance, AccountInv, Inv', CheckOK', NEW i \in Instance, NEW j, worker[i].job = j,
           j \in stale, worker[i].at \notin Idling, UNCHANGED <<deleted, scan, request, stale, bounds>>,
           \A k \in Job \ {j} : job'[k] = job[k], job'[j] # None,
           attempts' \in [Job -> Nat], \A k \in Job \ {j} : attempts'[k] = attempts[k],
           sched' = sched \/ sched' = [sched EXCEPT ![i] = @ \cup {j}],
           worker'[i].at \in Idling \/ worker'[i].job = j
    PROVE  AccountInv'
<1>1. j \in Job /\ worker[i].at # "start"
  BY OnHolds DEF Idling
<1>2. sched \in [Instance -> SUBSET Job]
  BY DEF AccountInv, CountOK
<1>3. sched' \in [Instance -> SUBSET Job] /\ \A k \in Job \ {j} : k \in sched'[i] => k \in sched[i]
  BY <1>1, <1>2
<1>4. Consumes(i, j)
  BY <1>1, <1>3 DEF Consumes, bounds
<1>5. QED
  BY <1>1, <1>4, StaleKeeps

LEMMA StaleReads ==
    ASSUME OneInstance, AccountInv, Inv', CheckOK', NEW i \in Instance, NEW j, worker[i].job = j,
           j \in stale,
           \/ (\E out \in Outcome : Run(i, out)) \/ CompleteRead(i) \/ ErrorRead(i) \/ FailRead(i)
           \/ Join(i)
    PROVE  AccountInv'
<1>1. /\ worker[i].at \notin Idling /\ UNCHANGED <<store, scan, request, sched, stale, bounds>>
      /\ \E b \in Nat : attempts' = attempts \/ attempts' = [attempts EXCEPT ![j] = b]
  <2>1. worker[i].at \notin Idling /\ UNCHANGED <<store, scan, request, sched, stale, bounds>>
    BY DEF Run, CompleteRead, ErrorRead, FailRead, Join, Idling, history
  <2>2. j \in Job /\ attempts \in [Job -> Nat]
    BY <2>1, OnHolds DEF AccountInv, CountOK
  <2>3. attempts' = attempts \/ attempts' = [attempts EXCEPT ![j] = attempts[j]]
    BY DEF Run, CompleteRead, ErrorRead, FailRead, Join, history
  <2>4. QED
    BY <2>1, <2>2, <2>3
<1>2. j \in Job /\ job[j] # None /\ attempts \in [Job -> Nat]
  BY <1>1, OnHolds DEF AccountInv, CountOK
<1>3. attempts' \in [Job -> Nat] /\ \A k \in Job \ {j} : attempts'[k] = attempts[k]
  BY <1>1, <1>2
<1>4. worker'[i].at \in Idling \/ worker'[i].job = j
  <2>1. CASE \E out \in Outcome : Run(i, out)
    <3>1. PICK out \in Outcome : worker' = [worker EXCEPT ![i].at = "finish", ![i].out = out]
      BY <2>1 DEF Run
    <3>2. QED
      BY <3>1, OutSets DEF AccountInv
  <2>2. CASE CompleteRead(i)
    <3>1. CASE Raise(i)
      BY <3>1, RaiseSets DEF AccountInv
    <3>2. CASE ~Raise(i)
      BY <2>2, <3>2, StepSets DEF CompleteRead, AccountInv
    <3>3. QED
      BY <3>1, <3>2
  <2>3. CASE ErrorRead(i)
    BY <2>3, StepSets DEF ErrorRead, AccountInv
  <2>4. CASE FailRead(i)
    BY <2>4, StepSets, GotoSets DEF FailRead, AccountInv
  <2>5. CASE Join(i)
    <3>1. CASE worker[i].out = "escaped"
      BY <2>5, <3>1, OutSets DEF Join, AccountInv
    <3>2. CASE worker[i].out # "escaped"
      BY <2>5, <3>2, LoopSets DEF Join, AccountInv, Idling
    <3>3. QED
      BY <3>1, <3>2
  <2>6. QED
    BY <2>1, <2>2, <2>3, <2>4, <2>5
<1>5. QED
  BY <1>1, <1>2, <1>3, <1>4, StaleCarried DEF store

LEMMA StaleWrites ==
    ASSUME OneInstance, AccountInv, Inv', CheckOK', NEW i \in Instance, NEW j, worker[i].job = j,
           j \in stale,
           \/ WakeWrite(i) \/ Claim(i) \/ CompleteWrite(i) \/ PeriodicWrite(i) \/ DelayWrite(i)
           \/ ErrorWrite(i) \/ FailWrite(i)
    PROVE  AccountInv'
<1>1. worker[i].at \notin Idling /\ UNCHANGED <<scan, request, stale, bounds>>
  BY DEF WakeWrite, Claim, CompleteWrite, PeriodicWrite, DelayWrite, ErrorWrite, FailWrite, Idling, history
<1>2. j \in Job /\ job[j] # None /\ attempts \in [Job -> Nat]
  BY <1>1, OnHolds DEF AccountInv, CountOK
<1>3. attempts' = attempts \/ attempts' = [attempts EXCEPT ![j] = 0]
  BY DEF WakeWrite, Claim, CompleteWrite, PeriodicWrite, DelayWrite, ErrorWrite, FailWrite, history
<1>4. attempts' \in [Job -> Nat] /\ \A k \in Job \ {j} : attempts'[k] = attempts[k]
  BY <1>2, <1>3
<1>5. sched' = sched \/ sched' = [sched EXCEPT ![i] = @ \cup {j}]
  BY DEF WakeWrite, Claim, CompleteWrite, PeriodicWrite, DelayWrite, ErrorWrite, FailWrite, Reschedule
<1>6. UNCHANGED store \/ \E d \in Data, b \in BOOLEAN : Write(j, d, b)
  <2>1. worker[i].copy \in Data
    BY <1>1, OnHolds
  <2>2. CASE WakeWrite(i) \/ Claim(i) \/ CompleteWrite(i) \/ ErrorWrite(i) \/ FailWrite(i)
    BY <2>1, <2>2 DEF WakeWrite, Claim, CompleteWrite, ErrorWrite, FailWrite, TryWrite
  <2>3. CASE PeriodicWrite(i)
    <3> DEFINE d == [worker[i].copy EXCEPT !.runs = @ + 1]
               e == [d EXCEPT !.retries = 0]
    <3>1. d \in Data
      BY <2>1, Counted
    <3>2. UNCHANGED store \/ Write(j, d, FALSE) \/ Write(j, e, FALSE)
      BY <2>3 DEF PeriodicWrite, Reschedule
    <3> HIDE DEF d
    <3>3. e \in Data
      BY <3>1, Counted
    <3> HIDE DEF e
    <3>4. QED
      BY <3>1, <3>2, <3>3
  <2>4. CASE DelayWrite(i)
    <3> DEFINE d == [worker[i].copy EXCEPT !.retries = 0]
    <3>1. d \in Data
      BY <2>1, Counted
    <3>2. UNCHANGED store \/ Write(j, d, FALSE)
      BY <2>4 DEF DelayWrite, Reschedule
    <3> HIDE DEF d
    <3>3. QED
      BY <3>1, <3>2
  <2>5. QED
    BY <2>2, <2>3, <2>4
<1>7. (\A k \in Job \ {j} : job'[k] = job[k]) /\ deleted' = deleted /\ job'[j] # None
  <2>1. CASE UNCHANGED store
    BY <1>2, <2>1 DEF store
  <2>2. CASE \E d \in Data, b \in BOOLEAN : Write(j, d, b)
    BY <1>2, <2>2, WriteSets, NoneAssumption DEF AccountInv
  <2>3. QED
    BY <1>6, <2>1, <2>2
<1>8. worker'[i].at \in Idling \/ worker'[i].job = j
  <2>1. \/ Raise(i) \/ worker' = [worker EXCEPT ![i] = Loop] \/ \E at : Goto(i, at)
    BY DEF WakeWrite, Claim, CompleteWrite, PeriodicWrite, DelayWrite, ErrorWrite, FailWrite, Reschedule
  <2>2. CASE Raise(i)
    BY <2>2, RaiseSets DEF AccountInv
  <2>3. CASE worker' = [worker EXCEPT ![i] = Loop]
    BY <2>3, LoopSets DEF AccountInv, Idling
  <2>4. CASE \E at : Goto(i, at)
    BY <2>4, GotoSets DEF AccountInv
  <2>5. QED
    BY <2>1, <2>2, <2>3, <2>4
<1>9. QED
  BY <1>1, <1>2, <1>4, <1>5, <1>7, <1>8, StaleCarried

(* A job with stale counts that comes due, or is popped.                     *)
LEMMA StaleTaken ==
    ASSUME OneInstance, AccountInv, Inv', CheckOK', NEW i \in Instance, NEW j \in Job, j \in stale,
           Readable(j), NEW at, NEW copy, Step(i, at, j, copy, None), WakeRead(i, j) \/ Pop(i)
    PROVE  AccountInv'
<1>1. worker[i].at = "loop" /\ worker'[i].job = j
  BY StepSets DEF AccountInv, WakeRead, Pop
<1>2. /\ UNCHANGED <<job, deleted, scan, request, stale, attempts, bounds>>
      /\ sched' = sched \/ sched' = [sched EXCEPT ![i] = @ \ {j}]
  BY DEF WakeRead, Pop, store, history
<1>3. sched \in [Instance -> SUBSET Job] /\ attempts \in [Job -> Nat]
  BY DEF AccountInv, CountOK
<1>4. sched' \in [Instance -> SUBSET Job] /\ \A k \in Job \ {j} : k \in sched'[i] => k \in sched[i]
  BY <1>2, <1>3
<1>5. Consumes(i, j)
  BY <1>1, <1>2, <1>3, <1>4 DEF Consumes, bounds, Idling
<1>6. QED
  BY <1>2, <1>5, StaleKeeps DEF Readable

-----------------------------------------------------------------------------
(* Steps outside of the consumer.                                            *)
LEMMA AllKept ==
    ASSUME OneInstance, AccountInv, Inv', CheckOK', CountOK', NEW i \in Instance, Order(i)',
           \A k \in Job : Account(i, k)'
    PROVE  AccountInv'
BY DEF AccountInv, OneInstance

(* Whatever is written to a job keeps its counts, or makes them stale; and   *)
(* what is under way may only end.                                           *)
Quiet(i) ==
    /\ UNCHANGED <<attempts, crashes, deletes, reruns, request>>
    /\ deleted' \subseteq deleted /\ stale \subseteq stale'
    /\ \A k \in Job :
         /\ job'[k] = None <=> job[k] = None
         /\ job[k] # None /\ k \notin stale' => NoMore(job'[k], job[k])
         /\ (On(i, k) <=> On(i, k)') /\ (On(i, k) => worker'[i] = worker[i])
         /\ k \in sched'[i] => k \in sched[i]
    /\ sched' \in [Instance -> SUBSET Job]
    /\ scan'[i] # None /\ scan'[i].copy # None => scan'[i].copy.status = "failed"

LEMMA QuietKeeps ==
    ASSUME OneInstance, AccountInv, Inv', CheckOK', NEW i \in Instance, Quiet(i)
    PROVE  AccountInv'
<1>1. CountOK'
  BY DEF Quiet, AccountInv, CountOK
<1>2. Order(i)'
  BY DEF Quiet, AccountInv, Order
<1>3. ASSUME NEW k \in Job PROVE Account(i, k)'
  <2>1. Faults' = Faults /\ Allowed' = Allowed /\ Faults \in Nat /\ Allowed \in Nat
    BY Numbers DEF Quiet, Faults, Allowed
  <2>2. Untouched(i, k)
    BY <2>1 DEF Quiet, Untouched, Spared, Asking
  <2>3. QED
    BY <2>2, UntouchedKeeps
<1>4. QED
  BY <1>1, <1>2, <1>3, AllKept

LEMMA SameCounts == \A d : NoMore(d, d)
BY DEF NoMore

(* A step that leaves the jobs and the consumer alone.                       *)
LEMMA StillQuiet ==
    ASSUME AccountInv, NEW i \in Instance,
           UNCHANGED <<deleted, stale, attempts, crashes, deletes, reruns, request, job, worker, sched>>,
           scan'[i] = None \/ scan'[i].copy = None \/ scan'[i].copy.status = "failed"
    PROVE  Quiet(i)
<1>1. sched' \in [Instance -> SUBSET Job]
  BY DEF AccountInv, CountOK
<1>2. \A k \in Job : On(i, k) <=> On(i, k)'
  BY DEF On
<1>3. QED
  BY <1>1, <1>2, SameCounts DEF Quiet

LEMMA SameScan ==
    ASSUME AccountInv, NEW i \in Instance, scan' = scan
    PROVE  scan'[i] = None \/ scan'[i].copy = None \/ scan'[i].copy.status = "failed"
BY DEF AccountInv, Order

LEMMA StartConsumeCounts ==
    ASSUME OneInstance, AccountInv, Inv', CheckOK', NEW i \in Instance, StartConsume(i) \/ EnterLoop(i)
    PROVE  AccountInv'
<1>1. UNCHANGED <<deleted, stale, attempts, crashes, deletes, reruns, request, job, sched>>
  BY DEF StartConsume, EnterLoop, store, history, bounds
<1>2. \A k \in Job : ~On(i, k)
  BY DEF StartConsume, EnterLoop, On, Idling
<1>3. PICK at \in {"start", "loop"} : Goto(i, at)
  BY DEF StartConsume, EnterLoop
<1>4. worker'[i].at = at
  BY <1>3, GotoSets DEF AccountInv
<1>5. \A k \in Job : ~On(i, k)'
  BY <1>4 DEF On, Idling
<1>6. scan'[i] = None \/ scan'[i].copy = None
  BY DEF StartConsume, EnterLoop, NewScan, AccountInv, Inv, ScanOK
<1>7. sched' \in [Instance -> SUBSET Job]
  BY <1>1 DEF AccountInv, CountOK
<1>8. Quiet(i)
  BY <1>1, <1>2, <1>5, <1>6, <1>7, SameCounts DEF Quiet
<1>9. QED
  BY <1>8, QuietKeeps

LEMMA WakeLostCounts ==
    ASSUME OneInstance, AccountInv, Inv', CheckOK', NEW i \in Instance, NEW j \in Job, WakeRead(i, j),
           ~Readable(j)
    PROVE  AccountInv'
<1>1. /\ UNCHANGED <<deleted, stale, attempts, crashes, deletes, reruns, request, job, scan, worker>>
      /\ sched' = [sched EXCEPT ![i] = @ \ {j}]
  BY DEF WakeRead, store, history, bounds
<1>2. sched' \in [Instance -> SUBSET Job] /\ sched'[i] \subseteq sched[i]
  BY <1>1 DEF AccountInv, CountOK
<1>3. \A k \in Job : On(i, k) <=> On(i, k)'
  BY <1>1 DEF On
<1>4. Quiet(i)
  BY <1>1, <1>2, <1>3, SameCounts, SameScan DEF Quiet
<1>5. QED
  BY <1>4, QuietKeeps

(* Any write that keeps a job's counts, or makes them stale.                 *)
LEMMA WrittenCounts ==
    ASSUME OneInstance, AccountInv, Inv', CheckOK', NEW i \in Instance, NEW j \in Job,
           UNCHANGED <<attempts, crashes, deletes, reruns, request, worker, sched>>,
           deleted' \subseteq deleted, stale \subseteq stale',
           \A k \in Job \ {j} : job'[k] = job[k], job'[j] = None <=> job[j] = None,
           job[j] # None /\ j \notin stale' => NoMore(job'[j], job[j]),
           scan'[i] = None \/ scan'[i].copy = None \/ scan'[i].copy.status = "failed"
    PROVE  AccountInv'
<1>1. \A k \in Job : On(i, k) <=> On(i, k)'
  BY DEF On
<1>2. sched' \in [Instance -> SUBSET Job]
  BY DEF AccountInv, CountOK
<1>3. \A k \in Job : /\ job'[k] = None <=> job[k] = None
                     /\ job[k] # None /\ k \notin stale' => NoMore(job'[k], job[k])
  BY SameCounts
<1>4. Quiet(i)
  BY <1>1, <1>2, <1>3 DEF Quiet
<1>5. QED
  BY <1>4, QuietKeeps

(* The heartbeat, and time passing.                                          *)
LEMMA TickCounts ==
    ASSUME OneInstance, AccountInv, Inv', CheckOK', NEW i \in Instance,
           TickRead(i) \/ TickCheck(i) \/ TickWrite(i)
    PROVE  AccountInv'
<1>1. CASE TickRead(i) \/ TickCheck(i)
  <2>1. UNCHANGED <<deleted, stale, attempts, crashes, deletes, reruns, request, job, worker, sched, scan>>
    BY <1>1 DEF TickRead, TickCheck, store, history, bounds
  <2>2. QED
    BY <2>1, SameScan, StillQuiet, QuietKeeps
<1>2. CASE TickWrite(i)
  <2> DEFINE j == worker[i].job
  <2>1. /\ UNCHANGED <<attempts, crashes, deletes, reruns, request, worker, sched, scan>>
        /\ deleted' = deleted \ {j}
        /\ stale' = stale \cup {k \in Job : k = j /\ (beat[i].retries # job[j].retries \/ beat[i].runs # job[j].runs)}
    BY <1>2 DEF TickWrite, bounds
  <2>2. /\ j \in Job /\ beat[i] \in Data /\ beat[i].status = "processing" /\ job'[j] = beat[i]
        /\ \A k \in Job \ {j} : job'[k] = job[k]
    BY <1>2, TickWrites DEF AccountInv
  <2>3. job[j] # None
    <3>1. worker[i].at \notin Idling
      BY <2>2, NoneAssumption DEF AccountInv, Inv, BeatOK, Beating, Executing, Idling
    <3>2. QED
      BY <3>1, OnHolds
  <2>4. j \notin stale' => beat[i].retries = job[j].retries /\ beat[i].runs = job[j].runs
    BY <2>1, <2>2
  <2>5. job'[j] # None /\ (j \notin stale' => NoMore(job'[j], job[j]))
    BY <2>2, <2>4, NoneAssumption DEF NoMore
  <2>6. deleted' \subseteq deleted /\ stale \subseteq stale'
    BY <2>1
  <2>7. QED
    BY <2>1, <2>2, <2>3, <2>5, <2>6, SameScan, WrittenCounts
<1>3. QED
  BY <1>1, <1>2

LEMMA HeartbeatAgesCounts ==
    ASSUME OneInstance, AccountInv, Inv', CheckOK', NEW i \in Instance, NEW j \in Job, HeartbeatAges(j)
    PROVE  AccountInv'
<1>1. UNCHANGED <<deleted, stale, attempts, crashes, deletes, reruns, request, scan, worker, sched>>
  BY DEF HeartbeatAges, store, history, bounds
<1> DEFINE d == [job[j] EXCEPT !.hb = "old"]
<1>2. job[j] # None /\ job[j] \in Data /\ job' = [job EXCEPT ![j] = d] /\ job \in [Job -> Data \cup {None}]
  BY DEF HeartbeatAges, AccountInv, Inv, StoreOK
<1>3. d \in Data /\ Like(d, job[j])
  BY <1>2, Beats
<1> HIDE DEF d
<1>4. job'[j] = d /\ (\A k \in Job \ {j} : job'[k] = job[k]) /\ d # None /\ NoMore(d, job[j])
  BY <1>2, <1>3, NoneAssumption DEF Like, NoMore
<1>5. QED
  BY <1>1, <1>2, <1>4, SameScan, WrittenCounts

-----------------------------------------------------------------------------
(* Recovery.                                                                 *)
LEMMA ScanReadCounts ==
    ASSUME OneInstance, AccountInv, Inv', CheckOK', NEW i \in Instance, NEW j \in Job, ScanRead(i, j)
    PROVE  AccountInv'
<1>1. /\ scan[i] # None /\ scan[i].copy = None /\ scan[i] \in ScanState
      /\ UNCHANGED <<deleted, stale, attempts, crashes, deletes, reruns, request, job, worker, sched>>
  BY DEF ScanRead, store, history, bounds, AccountInv, Inv, ScanOK
<1>2. CASE ~(Readable(j) /\ job[j].hb # "recent")
  <2>1. scan'[i] = [scan[i] EXCEPT !.todo = scan[i].todo \ {j}]
    BY <1>2 DEF ScanRead, AccountInv, Inv, ScanOK
  <2>2. scan'[i].copy = None
    BY <1>1, <2>1 DEF ScanState
  <2>3. QED
    BY <1>1, <2>2, StillQuiet, QuietKeeps
<1>3. CASE Readable(j) /\ job[j].hb # "recent"
  <2> DEFINE d == [job[j] EXCEPT !.status = "failed"]
  <2>1. job[j] \in Data
    BY <1>3, Stored DEF AccountInv, Inv
  <2>2. d \in Data /\ Fields(d, job[j], "failed")
    BY <2>1, StatusFields DEF TaskStatus
  <2>3. scan'[i] = [todo |-> scan[i].todo \ {j}, job |-> j, copy |-> d]
    BY <1>3 DEF ScanRead, AccountInv, Inv, ScanOK
  <2> HIDE DEF d
  <2>4. scan'[i].copy.status = "failed"
    BY <2>2, <2>3 DEF Fields
  <2>5. QED
    BY <1>1, <2>4, StillQuiet, QuietKeeps
<1>4. QED
  BY <1>2, <1>3

LEMMA ScanWriteCounts ==
    ASSUME OneInstance, AccountInv, Inv', CheckOK', NEW i \in Instance, NEW j, scan[i].job = j, ScanWrite(i)
    PROVE  AccountInv'
<1>1. /\ scan[i] # None /\ scan[i].copy # None /\ scan[i] \in ScanState /\ j \in Job
      /\ scan[i].copy \in Data /\ scan[i].copy.status = "failed"
      /\ UNCHANGED <<attempts, crashes, deletes, reruns, request, worker, sched>>
  BY DEF ScanWrite, bounds, AccountInv, Inv, ScanOK, ScanState, Order
<1>2. scan'[i] = [scan[i] EXCEPT !.job = None, !.copy = None]
  BY DEF ScanWrite, AccountInv, Inv, ScanOK
<1>3. scan'[i].copy = None
  BY <1>1, <1>2 DEF ScanState
<1>4. /\ job'[j] = (IF Readable(j) THEN scan[i].copy ELSE job[j])
      /\ (\A k \in Job \ {j} : job'[k] = job[k]) /\ deleted' = deleted
  BY <1>1, TryHeads DEF ScanWrite, AccountInv
<1>5. stale' = stale \cup Recounted(j, scan[i].copy)
  BY DEF ScanWrite
<1>6. job'[j] = None <=> job[j] = None
  BY <1>1, <1>4, NoneAssumption DEF Readable
<1>7. job[j] # None /\ j \notin stale' => NoMore(job'[j], job[j])
  <2>1. CASE Readable(j)
    BY <1>1, <1>4, <1>5, <2>1 DEF Recounted, NoMore
  <2>2. CASE ~Readable(j)
    BY <1>4, <2>2, SameCounts
  <2>3. QED
    BY <2>1, <2>2
<1>8. deleted' \subseteq deleted /\ stale \subseteq stale'
  BY <1>4, <1>5
<1>9. QED
  BY <1>1, <1>3, <1>4, <1>6, <1>7, <1>8, WrittenCounts

LEMMA ScanEdgeCounts ==
    ASSUME OneInstance, AccountInv, Inv', CheckOK', NEW i \in Instance, ScanStart(i) \/ ScanEnd(i)
    PROVE  AccountInv'
<1>1. scan'[i] = None \/ scan'[i].copy = None
  BY DEF ScanStart, ScanEnd, NewScan, AccountInv, Inv, ScanOK
<1>2. UNCHANGED <<deleted, stale, attempts, crashes, deletes, reruns, request, job, worker, sched>>
  BY DEF ScanStart, ScanEnd, store, history, bounds
<1>3. QED
  BY <1>1, <1>2, StillQuiet, QuietKeeps

-----------------------------------------------------------------------------
(* Requests.                                                                 *)
LEMMA CreateCounts ==
    ASSUME OneInstance, Delayed = {}, AccountInv, Inv', CheckOK', NEW i \in Instance, NEW j \in Job, Create(i, j)
    PROVE  AccountInv'
<1> DEFINE d == [status |-> "pending", retries |-> 0, runs |-> 0, hb |-> "none"]
<1>1. /\ job[j] = None /\ request[i] = None /\ job' = [job EXCEPT ![j] = d]
      /\ UNCHANGED <<deleted, stale, worker, scan, sched, attempts, crashes, deletes, reruns>>
  BY DEF Create, Free, bounds
<1>2. request'[i] = None
  BY DEF Create, AccountInv, Inv, RequestOK
<1>3. Known(i, j) /\ Account(i, j)
  BY DEF AccountInv, Account
<1>4. /\ attempts[j] = 0 /\ ~On(i, j) /\ j \notin sched[i] /\ ~Asking(i, j)
  BY <1>1, <1>3 DEF Known
<1>5. d.status = "pending" /\ d.retries = 0 /\ d.runs = 0 /\ d \in Data
  BY DEF Data, TaskStatus
<1> HIDE DEF d
<1>6. job'[j] = d /\ \A k \in Job \ {j} : job'[k] = job[k]
  BY <1>1 DEF AccountInv, Inv, StoreOK
<1>7. \A k : (On(i, k)' <=> On(i, k)) /\ ~Asking(i, k)'
  BY <1>1, <1>2 DEF On, Asking
<1>8. /\ Faults \in Nat /\ Allowed \in Nat /\ Faults' = Faults /\ Allowed' = Allowed /\ MaxRetries \in Nat
      /\ Allowed >= 1
  <2>1. reruns \in Nat /\ MaxRuns \in Nat \ {0}
    BY Numbers, JobQueueAssumption DEF JobQueueAssumption
  <2>2. Allowed >= 1
    BY <2>1 DEF Allowed
  <2>3. QED
    BY <1>1, <2>2, Numbers DEF Faults, Allowed
<1>9. Uncounted(i, j)' = Faults /\ ~Executed(i, j)' /\ ~Engaged(i, j)'
  BY <1>4, <1>7, <1>8 DEF Uncounted, Executed, Engaged
<1>10. HeadTally(i, j)' /\ CopyTally(i, j)'
  BY <1>1, <1>4, <1>5, <1>6, <1>7, <1>8, <1>9 DEF HeadTally, CopyTally
<1>11. Chances(i, j)' = 1
  <2>1. /\ One(Queued(i, j)') = 1 /\ One(Engaged(i, j)') = 0 /\ One(j \in sched'[i]) = 0
        /\ One(Asking(i, j)') = 0
    BY <1>1, <1>4, <1>5, <1>6, <1>7, <1>9 DEF One, Queued
  <2>2. QED
    BY <2>1 DEF Chances
<1>12. RunsLeft(i, j)'
  BY <1>4, <1>5, <1>6, <1>7, <1>8, <1>11 DEF RunsLeft, Within
<1>13. Account(i, j)'
  BY <1>5, <1>6, <1>10, <1>12, NoneAssumption DEF Account, Known
<1>14. ASSUME NEW k \in Job \ {j} PROVE Account(i, k)'
  <2>1. job'[k] = job[k] /\ NoMore(job'[k], job[k])
    BY <1>6, SameCounts
  <2>2. Untouched(i, k)
    BY <1>1, <1>7, <1>8, <2>1 DEF Untouched, Spared
  <2>3. QED
    BY <2>2, UntouchedKeeps
<1>15. CountOK' /\ Order(i)'
  BY <1>1, <1>2 DEF AccountInv, CountOK, Order
<1>16. \A k \in Job : Account(i, k)'
  BY <1>13, <1>14
<1>17. QED
  BY <1>15, <1>16, AllKept

LEMMA RerunCounts ==
    ASSUME OneInstance, AccountInv, Inv', CheckOK', NEW i \in Instance, NEW j \in Job, Rerun(i, j)
    PROVE  AccountInv'
<1> DEFINE d == [job[j] EXCEPT !.status = "pending", !.retries = 0]
<1>1. /\ Readable(j) /\ request[i] = None /\ reruns' = reruns + 1
      /\ UNCHANGED <<job, deleted, stale, worker, scan, sched, attempts, crashes, deletes>>
  BY DEF Rerun, Free, store, history
<1>2. job[j] # None /\ job[j] \in Data /\ Account(i, j)
  BY <1>1, Stored DEF AccountInv, Inv
<1>3. request'[i] = [at |-> "rerun", job |-> j, copy |-> d]
  BY DEF Rerun, AccountInv, Inv, RequestOK
<1>4. d.status = "pending" /\ d.runs = job[j].runs
  BY <1>2 DEF Data
<1> HIDE DEF d
<1>5. request'[i].at = "rerun" /\ request'[i].job = j /\ request'[i].copy = d
  BY <1>3
<1>6. j \notin stale => HeadTally(i, j) /\ CopyTally(i, j) /\ RunsLeft(i, j)
  BY <1>2 DEF Account
<1>7. /\ Faults \in Nat /\ Faults' = Faults /\ Allowed \in Nat /\ Chances(i, j) \in Nat
      /\ job[j].runs \in Nat /\ reruns \in Nat
      /\ (On(i, j) => worker[i].copy.runs \in Nat)
  BY <1>1, <1>2, Numbers DEF Faults
<1>8. Allowed' = Allowed + 1
  BY <1>1, <1>7, JobQueueAssumption DEF Allowed, JobQueueAssumption
<1>9. \A k : /\ (On(i, k)' <=> On(i, k)) /\ (Queued(i, k)' <=> Queued(i, k))
             /\ (Executed(i, k)' <=> Executed(i, k)) /\ (Engaged(i, k)' <=> Engaged(i, k))
             /\ (Raised(i)' <=> Raised(i))
  BY <1>1 DEF On, Queued, Executed, Engaged, Raised
<1>10. Uncounted(i, j)' = Uncounted(i, j)
  BY <1>1, <1>7, <1>9 DEF Uncounted, One
<1>11. j \notin stale => HeadTally(i, j)' /\ CopyTally(i, j)'
  BY <1>1, <1>6, <1>7, <1>9, <1>10 DEF HeadTally, CopyTally, One
<1>12. Chances(i, j)' <= Chances(i, j) + 1 /\ Chances(i, j)' \in Nat
  <2>1. One(Asking(i, j)) = 0 /\ One(Asking(i, j)') \in {0, 1}
    BY <1>1 DEF Asking, One
  <2>2. One(Engaged(i, j)') = One(Engaged(i, j)) /\ One(Queued(i, j)') = One(Queued(i, j))
    BY <1>9 DEF One
  <2>3. QED
    BY <1>1, <2>1, <2>2 DEF Chances, One
<1>13. j \notin stale => RunsLeft(i, j)'
  <2>1. \A n \in Nat : Within(i, j, n) => n + Chances(i, j)' <= Allowed'
    BY <1>7, <1>8, <1>12 DEF Within
  <2>2. QED
    BY <1>1, <1>4, <1>5, <1>6, <1>7, <1>9, <2>1 DEF RunsLeft, Within
<1>14. Account(i, j)'
  BY <1>1, <1>2, <1>11, <1>13 DEF Account, Known
<1>15. ASSUME NEW k \in Job \ {j} PROVE Account(i, k)'
  <2>1. ~Asking(i, k)' /\ NoMore(job'[k], job[k]) /\ Allowed' >= Allowed /\ Allowed' \in Nat
    BY <1>1, <1>5, <1>7, <1>8, SameCounts DEF Asking
  <2>2. Untouched(i, k)
    BY <1>1, <1>7, <1>9, <2>1 DEF Untouched, Spared
  <2>3. QED
    BY <2>2, UntouchedKeeps
<1>16. CountOK' /\ Order(i)'
  <2>1. reruns' \in Nat /\ reruns' > 0
    BY <1>1, <1>7
  <2>2. QED
    BY <1>1, <1>4, <1>5, <2>1 DEF AccountInv, CountOK, Order
<1>17. \A k \in Job : Account(i, k)'
  BY <1>14, <1>15
<1>18. QED
  BY <1>16, <1>17, AllKept

LEMMA RerunWriteCounts ==
    ASSUME OneInstance, Delayed = {}, AccountInv, Inv', CheckOK', NEW i \in Instance, NEW j, request[i].job = j,
           RerunWrite(i)
    PROVE  AccountInv'
<1>1. /\ request[i] # None /\ request[i] \in RequestState /\ j \in Job
      /\ UNCHANGED <<worker, scan, sched, stale, crashes, deletes, reruns>>
      /\ attempts' = [attempts EXCEPT ![j] = 0] /\ attempts \in [Job -> Nat]
  BY DEF RerunWrite, bounds, AccountInv, Inv, RequestOK, RequestState, CountOK
<1>2. request'[i] = None
  BY DEF RerunWrite, AccountInv, Inv, RequestOK
<1>3. attempts' \in [Job -> Nat] /\ attempts'[j] = 0 /\ \A k \in Job \ {j} : attempts'[k] = attempts[k]
  BY <1>1
<1>4. /\ job'[j] = (IF Readable(j) THEN request[i].copy ELSE job[j])
      /\ (\A k \in Job \ {j} : job'[k] = job[k]) /\ deleted' = deleted
  BY <1>1, TryHeads DEF RerunWrite, AccountInv
<1>5. Asking(i, j) /\ Account(i, j) /\ request[i].copy.status = "pending"
  BY <1>1 DEF Asking, AccountInv, Order
<1>6. job[j] # None /\ (j \notin stale => HeadTally(i, j) /\ CopyTally(i, j) /\ RunsLeft(i, j))
  BY <1>5 DEF Account, Known
<1>7. /\ Faults \in Nat /\ Allowed \in Nat /\ Chances(i, j) \in Nat /\ MaxRetries \in Nat
      /\ Faults' = Faults /\ Allowed' = Allowed
      /\ request[i].copy \in Data /\ request[i].copy.retries \in Nat /\ request[i].copy.runs \in Nat
      /\ job[j].retries \in Nat /\ job[j].runs \in Nat
      /\ (On(i, j) => worker[i].copy.runs \in Nat /\ worker[i].copy.retries \in Nat)
  BY <1>1, <1>5, <1>6, Numbers DEF Faults, Allowed
<1>8. \A k : /\ (On(i, k)' <=> On(i, k)) /\ ~Asking(i, k)'
             /\ (Executed(i, k)' <=> Executed(i, k)) /\ (Engaged(i, k)' <=> Engaged(i, k))
             /\ (Raised(i)' <=> Raised(i))
  BY <1>1, <1>2 DEF On, Executed, Engaged, Raised, Asking
<1>9. job'[j].retries \in Nat /\ job'[j].runs \in Nat /\ job'[j] # None
  BY <1>4, <1>6, <1>7, NoneAssumption
<1>10. Uncounted(i, j)' \in Int /\ Uncounted(i, j)' >= 0
  <2>1. j \in deleted => Faults > 0
    <3>1. deleted # {} => deletes > 0
      BY DEF AccountInv, CountOK
    <3>2. crashes \in Nat /\ deletes \in Nat
      BY DEF AccountInv, CountOK
    <3>3. QED
      BY <3>1, <3>2 DEF Faults
  <2>2. One(Raised(i)') \in {0, 1} /\ One(j \in deleted') \in {0, 1} /\ (One(j \in deleted') = 1 => Faults > 0)
    BY <1>4, <2>1 DEF One
  <2>3. Uncounted(i, j)' \in {Faults' + One(Raised(i)') - One(j \in deleted'), Faults'}
    BY DEF Uncounted
  <2>4. QED
    BY <1>7, <2>2, <2>3
<1>11. HeadTally(i, j)'
  BY <1>3, <1>7, <1>9, <1>10 DEF HeadTally
<1>12. j \notin stale => CopyTally(i, j)'
  <2>1. Faults' \in Nat /\ MaxRetries \in Nat
    BY <1>7
  <2>2. One(worker'[i].at = "finish" /\ Raised(i)') \in {0, 1}
    BY DEF One
  <2>3. QED
    BY <1>1, <1>3, <1>6, <1>7, <1>8, <2>1, <2>2 DEF CopyTally
<1>13. Chances(i, j)' <= Chances(i, j) /\ Chances(i, j)' \in Nat
  <2>1. /\ One(Asking(i, j)) = 1 /\ One(Asking(i, j)') = 0 /\ One(Engaged(i, j)') = One(Engaged(i, j))
        /\ One(j \in sched'[i]) = One(j \in sched[i]) /\ One(j \in sched[i]) \in {0, 1}
        /\ One(Queued(i, j)') \in {0, 1} /\ One(Queued(i, j)) \in {0, 1}
        /\ One(Engaged(i, j)) \in {0, 1}
    BY <1>1, <1>5, <1>8 DEF One
  <2>2. QED
    BY <2>1 DEF Chances
<1>14. j \notin stale => RunsLeft(i, j)'
  <2>1. \A n \in Nat : Within(i, j, n) => n + Chances(i, j)' <= Allowed'
    BY <1>7, <1>13 DEF Within
  <2>2. j \notin stale => Within(i, j, request[i].copy.runs) /\ Within(i, j, job[j].runs)
    BY <1>5, <1>6 DEF RunsLeft
  <2>3. j \notin stale => job'[j].runs + Chances(i, j)' <= Allowed'
    BY <1>4, <1>7, <2>1, <2>2
  <2>4. QED
    BY <1>1, <1>6, <1>7, <1>8, <2>1, <2>3 DEF RunsLeft, Within
<1>15. Account(i, j)'
  BY <1>1, <1>9, <1>11, <1>12, <1>14 DEF Account, Known
<1>16. ASSUME NEW k \in Job \ {j} PROVE Account(i, k)'
  <2>1. job'[k] = job[k] /\ NoMore(job'[k], job[k]) /\ attempts'[k] = attempts[k]
    BY <1>3, <1>4, SameCounts
  <2>2. Untouched(i, k)
    BY <1>1, <1>4, <1>7, <1>8, <2>1 DEF Untouched, Spared
  <2>3. QED
    BY <2>2, UntouchedKeeps
<1>17. CountOK' /\ Order(i)'
  BY <1>1, <1>2, <1>3, <1>4 DEF AccountInv, CountOK, Order
<1>18. \A k \in Job : Account(i, k)'
  BY <1>15, <1>16
<1>19. QED
  BY <1>17, <1>18, AllKept

(* A deletion may hide a failure that is about to be counted; restoring the  *)
(* job brings it back.                                                       *)
LEMMA DeletionCounts ==
    ASSUME OneInstance, AccountInv, Inv', CheckOK', NEW i \in Instance, NEW j \in Job, Delete(j) \/ Restore(j)
    PROVE  AccountInv'
<1>1. UNCHANGED <<job, worker, scan, request, sched, stale, attempts, crashes, reruns>>
  BY DEF Delete, Restore, history, bounds
<1>2. crashes \in Nat /\ deletes \in Nat /\ Faults \in Nat /\ Allowed \in Nat
  BY Numbers
<1>3. \/ deleted' = deleted \cup {j} /\ Faults' = Faults + 1 /\ deletes' = deletes + 1 /\ job[j] # None
      \/ deleted' = deleted \ {j} /\ j \in deleted /\ Faults' = Faults /\ deletes' = deletes
  BY <1>1, <1>2 DEF Delete, Restore, Readable, Faults, bounds
<1>4. Faults' \in Nat /\ Faults' >= Faults /\ Allowed' = Allowed
  BY <1>1, <1>2, <1>3 DEF Allowed
<1>5. ASSUME NEW k \in Job PROVE Account(i, k)'
  <2>1. /\ (On(i, k)' <=> On(i, k))
        /\ (Asking(i, k)' <=> Asking(i, k)) /\ (Raised(i)' <=> Raised(i)) /\ NoMore(job[k], job[k])
    BY <1>1, SameCounts DEF On, Asking, Raised
  <2>2. Spared(i, k)
    BY <1>1, <1>2, <1>4, <2>1 DEF Spared
  <2>3. Uncounted(i, k)' >= Uncounted(i, k) /\ Uncounted(i, k)' \in Int
    <3>1. /\ One(Raised(i)') = One(Raised(i)) /\ One(Raised(i)) \in {0, 1}
          /\ One(k \in deleted) \in {0, 1} /\ One(k \in deleted') \in {0, 1}
      BY <2>1 DEF One
    <3>2. Faults' - One(k \in deleted') >= Faults - One(k \in deleted)
      <4>1. CASE Faults' = Faults + 1
        BY <1>2, <3>1, <4>1
      <4>2. CASE deleted' = deleted \ {j} /\ Faults' = Faults
        <5>1. k \in deleted' => k \in deleted
          BY <4>2
        <5>2. One(k \in deleted') <= One(k \in deleted)
          BY <5>1 DEF One
        <5>3. QED
          BY <1>2, <3>1, <4>2, <5>2
      <4>3. QED
        BY <1>3, <4>1, <4>2
    <3>3. CASE On(i, k) /\ (Raised(i) \/ worker[i].at = "run")
      <4>1. /\ Uncounted(i, k) = Faults + One(Raised(i)) - One(k \in deleted)
            /\ Uncounted(i, k)' = Faults' + One(Raised(i)') - One(k \in deleted')
        BY <1>1, <2>1, <3>3 DEF Uncounted
      <4>2. QED
        BY <1>2, <1>4, <3>1, <3>2, <4>1
    <3>4. CASE ~(On(i, k) /\ (Raised(i) \/ worker[i].at = "run"))
      <4>1. Uncounted(i, k) = Faults /\ Uncounted(i, k)' = Faults'
        BY <1>1, <2>1, <3>4 DEF Uncounted
      <4>2. QED
        BY <1>2, <1>4, <4>1
    <3>5. QED
      BY <3>3, <3>4
  <2>4. job[k] = None => k \notin deleted'
    <3>1. job[k] = None => k \notin deleted
      BY DEF AccountInv, Account, Known
    <3>2. QED
      BY <1>3, <3>1
  <2>5. QED
    BY <2>2, <2>3, <2>4, SparedKeeps
<1>6. CountOK'
  <2>1. deletes' \in Nat /\ (deleted' # {} => deletes' > 0)
    <3>1. deleted # {} => deletes > 0
      BY DEF AccountInv, CountOK
    <3>2. QED
      BY <1>2, <1>3, <3>1
  <2>2. QED
    BY <1>1, <2>1 DEF AccountInv, CountOK
<1>7. Order(i)'
  BY <1>1 DEF AccountInv, Order
<1>8. QED
  BY <1>5, <1>6, <1>7, AllKept

LEMMA CrashCounts ==
    ASSUME OneInstance, AccountInv, Inv', CheckOK', NEW i \in Instance, Crash(i)
    PROVE  AccountInv'
<1>1. /\ UNCHANGED <<job, deleted, attempts, stale, reruns, deletes>> /\ crashes' = crashes + 1
  BY DEF Crash, store, history
<1>2. worker'[i] = Down /\ scan'[i] = None /\ request'[i] = None /\ sched'[i] = {}
      /\ sched' \in [Instance -> SUBSET Job]
  BY DEF Crash, AccountInv, Inv, WorkerOK, ScanOK, RequestOK, CountOK
<1>3. crashes \in Nat /\ deletes \in Nat /\ Faults \in Nat /\ Allowed \in Nat /\ MaxRetries \in Nat
  BY Numbers, JobQueueAssumption DEF AccountInv, CountOK, Faults, Allowed, JobQueueAssumption
<1>4. Faults' = Faults + 1 /\ Allowed' = Allowed
  BY <1>1, <1>3 DEF Faults, Allowed
<1>5. \A k : ~On(i, k)' /\ ~Asking(i, k)'
  BY <1>2 DEF On, Asking, Down, Idling
<1>6. ASSUME NEW k \in Job PROVE Account(i, k)'
  <2>1. Account(i, k) /\ attempts[k] \in Nat /\ Uncounted(i, k) \in Int /\ Chances(i, k) \in Nat
    BY Numbers DEF AccountInv
  <2>2. Known(i, k)'
    BY <1>1, <1>2, <1>5, <2>1 DEF Account, Known
  <2>3. ASSUME job[k] # None, k \notin stale
        PROVE  HeadTally(i, k)' /\ CopyTally(i, k)' /\ RunsLeft(i, k)'
    <3>1. HeadTally(i, k) /\ RunsLeft(i, k) /\ job[k].retries \in Nat /\ job[k].runs \in Nat
      BY <2>1, <2>3, Numbers DEF Account
    <3>2. Uncounted(i, k)' = Faults + 1 /\ ~Executed(i, k)' /\ ~Engaged(i, k)'
      BY <1>4, <1>5 DEF Uncounted, Executed, Engaged
    <3>3. Uncounted(i, k) <= Faults + 1
      <4>1. One(Raised(i)) \in {0, 1} /\ One(k \in deleted) \in {0, 1}
        BY DEF One
      <4>2. QED
        BY <1>3, <4>1 DEF Uncounted
    <3>4. HeadTally(i, k)'
      BY <1>1, <1>3, <1>4, <2>1, <3>1, <3>2, <3>3 DEF HeadTally
    <3>5. Chances(i, k)' <= Chances(i, k) /\ Chances(i, k)' \in Nat
      <4>1. /\ One(Engaged(i, k)') = 0 /\ One(Asking(i, k)') = 0 /\ One(k \in sched'[i]) = 0
            /\ One(Engaged(i, k)) \in Nat /\ One(Asking(i, k)) \in Nat /\ One(k \in sched[i]) \in Nat
            /\ One(Queued(i, k)) \in Nat /\ One(Queued(i, k)') \in Nat
            /\ One(Queued(i, k)') <= One(Queued(i, k))
        BY <1>1, <1>2, <1>5, <3>2 DEF One, Queued
      <4>2. QED
        BY <4>1 DEF Chances
    <3>6. job[k].runs + Chances(i, k) <= Allowed
      BY <3>1 DEF RunsLeft, Within
    <3>7. job[k].runs + Chances(i, k)' <= Allowed
      BY <1>3, <2>1, <3>1, <3>5, <3>6
    <3>8. RunsLeft(i, k)'
      BY <1>1, <1>4, <1>5, <3>7 DEF RunsLeft, Within
    <3>9. QED
      BY <1>5, <3>4, <3>8 DEF CopyTally
  <2>4. QED
    BY <1>1, <2>2, <2>3 DEF Account
<1>7. CountOK' /\ Order(i)'
  BY <1>1, <1>2, <1>3 DEF AccountInv, CountOK, Order
<1>8. QED
  BY <1>6, <1>7, AllKept

-----------------------------------------------------------------------------
LEMMA AccountInit == ASSUME Init PROVE AccountInv
<1>1. Inv
  BY InvInit
<1>2. CountOK /\ CheckOK
  BY DEF Init, CountOK, CheckOK
<1>3. ASSUME NEW i \in Instance PROVE Order(i) /\ \A j \in Job : Account(i, j)
  <2>1. \A j \in Job : ~On(i, j) /\ ~Asking(i, j)
    BY DEF Init, On, Asking, Down, Idling
  <2>2. QED
    BY <2>1 DEF Init, Order, Account, Known
<1>4. QED
  BY <1>1, <1>2, <1>3 DEF AccountInv

LEMMA TakeCounts ==
    ASSUME OneInstance, AccountInv, Inv', CheckOK', NEW i \in Instance, NEW j \in Job, WakeRead(i, j)
    PROVE  AccountInv'
<1>1. CASE ~Readable(j)
  BY <1>1, WakeLostCounts
<1>2. CASE Readable(j) /\ j \notin stale
  BY <1>2, WakeReadCounts
<1>3. CASE Readable(j) /\ j \in stale
  BY <1>3, StaleTaken DEF WakeRead
<1>4. QED
  BY <1>1, <1>2, <1>3

LEMMA ConsumeCounts ==
    ASSUME OneInstance, AccountInv, Inv', CheckOK', NEW i \in Instance, Consume(i)
    PROVE  AccountInv'
<1>1. PICK j : j = worker[i].job
  OBVIOUS
<1>2. CASE EnterLoop(i)
  BY <1>2, StartConsumeCounts
<1>3. CASE Pop(i)
  <2>1. PICK k \in Job :
          IsNext(k) /\ Readable(k) /\ Step(i, "claim", k, [job[k] EXCEPT !.status = "processing"], None)
    BY <1>3 DEF Pop
  <2>2. worker[i].at = "loop" /\ UNCHANGED <<store, beat, scan, request, sched, history, bounds>>
    BY <1>3 DEF Pop
  <2>3. CASE k \notin stale
    BY <2>1, <2>2, <2>3, PopCounts
  <2>4. CASE k \in stale
    BY <1>3, <2>1, <2>4, StaleTaken
  <2>5. QED
    BY <2>3, <2>4
<1>4. CASE j \in stale /\ ~EnterLoop(i) /\ ~Pop(i)
  BY <1>1, <1>4, StaleReads, StaleWrites DEF Consume
<1>5. ASSUME NEW out \in Outcome, Run(i, out), j \notin stale PROVE AccountInv'
  BY <1>1, <1>5, RunCounts
<1>6. CASE j \notin stale /\ (WakeWrite(i) \/ Claim(i))
  BY <1>1, <1>6, WakeWriteCounts, ClaimCounts
<1>7. CASE j \notin stale /\ (CompleteRead(i) \/ CompleteWrite(i) \/ PeriodicWrite(i) \/ DelayWrite(i))
  BY <1>1, <1>7, CompleteReadCounts, CompleteWriteCounts, PeriodicWriteCounts, DelayWriteCounts
<1>8. CASE j \notin stale /\ (ErrorRead(i) \/ ErrorWrite(i) \/ FailRead(i) \/ FailWrite(i) \/ Join(i))
  BY <1>1, <1>8, ErrorReadCounts, ErrorWriteCounts, FailReadCounts, FailWriteCounts, JoinCounts
<1>9. QED
  BY <1>2, <1>3, <1>4, <1>5, <1>6, <1>7, <1>8 DEF Consume

LEMMA AnswerCounts ==
    ASSUME OneInstance, Delayed = {}, AccountInv, Inv', CheckOK', NEW i \in Instance, Answer(i)
    PROVE  AccountInv'
<1>1. ~PutRead(i) /\ ~PutWrite(i)
  BY DEF PutRead, PutWrite, AccountInv, Order
<1>2. PICK j : j = request[i].job
  OBVIOUS
<1>3. QED
  BY <1>1, <1>2, RerunWriteCounts DEF Answer

LEMMA RecoverCounts ==
    ASSUME OneInstance, AccountInv, Inv', CheckOK', NEW i \in Instance, Recover(i)
    PROVE  AccountInv'
<1>1. PICK j : j = scan[i].job
  OBVIOUS
<1>2. QED
  BY <1>1, ScanReadCounts, ScanWriteCounts, ScanEdgeCounts DEF Recover

LEMMA AccountSteps ==
    ASSUME OneInstance, Instance # {}, Delayed = {}, AccountInv, [Next]_vars
    PROVE  AccountInv'
<1>1. Inv' /\ CheckOK'
  BY InvSteps DEF AccountInv
<1>2. PICK i \in Instance : TRUE
  OBVIOUS
<1>3. ASSUME NEW k \in Instance, StartConsume(k) \/ Consume(k) \/ TickRead(k) \/ TickCheck(k) \/ TickWrite(k)
      PROVE  AccountInv'
  BY <1>1, <1>3, StartConsumeCounts, ConsumeCounts, TickCounts
<1>4. ASSUME NEW k \in Instance, Recover(k) \/ Answer(k) \/ Crash(k) PROVE AccountInv'
  BY <1>1, <1>4, RecoverCounts, AnswerCounts, CrashCounts
<1>5. ASSUME NEW k \in Instance, NEW j \in Job, WakeRead(k, j) \/ Create(k, j) \/ Rerun(k, j)
      PROVE  AccountInv'
  BY <1>1, <1>5, TakeCounts, CreateCounts, RerunCounts
<1>6. ASSUME NEW j \in Job, HeartbeatAges(j) \/ Delete(j) \/ Restore(j) PROVE AccountInv'
  BY <1>1, <1>2, <1>6, HeartbeatAgesCounts, DeletionCounts
<1>7. CASE UNCHANGED vars
  <2>1. UNCHANGED <<deleted, stale, attempts, crashes, deletes, reruns, request, job, worker, sched, scan>>
    BY <1>7 DEF vars, store, history, bounds
  <2>2. Quiet(i)
    BY <2>1, SameScan, StillQuiet
  <2>3. QED
    BY <1>1, <2>2, QuietKeeps
<1>8. QED
  BY <1>3, <1>4, <1>5, <1>6, <1>7 DEF Next

LEMMA AccountGivesBound == ASSUME Instance # {}, AccountInv PROVE RetryBound
<1>1. PICK i \in Instance : TRUE
  OBVIOUS
<1>2. ASSUME NEW j \in Job, j \notin stale
      PROVE  /\ attempts[j] <= MaxRetries + 1 + crashes + deletes
             /\ job[j] # None => job[j].runs <= MaxRuns + reruns
  <2>1. Account(i, j) /\ crashes \in Nat /\ deletes \in Nat /\ MaxRetries \in Nat
    BY JobQueueAssumption DEF AccountInv, CountOK, JobQueueAssumption
  <2>2. CASE job[j] = None
    <3>1. attempts[j] = 0
      BY <2>1, <2>2 DEF Account, Known
    <3>2. QED
      BY <2>1, <2>2, <3>1
  <2>3. CASE job[j] # None
    <3>1. attempts[j] <= MaxRetries + 1 + Faults /\ job[j].runs + Chances(i, j) <= Allowed
      BY <1>2, <2>1, <2>3 DEF Account, HeadTally, RunsLeft, Within
    <3>2. job[j].runs \in Nat /\ Chances(i, j) \in Nat /\ Allowed \in Nat /\ attempts[j] \in Nat
      BY <2>3, Numbers
    <3>3. job[j].runs <= Allowed
      BY <3>1, <3>2
    <3>4. QED
      BY <2>1, <3>1, <3>2, <3>3 DEF Faults, Allowed
  <2>4. QED
    BY <2>2, <2>3
<1>3. QED
  BY <1>2 DEF RetryBound

(* A job whose handler keeps failing is executed at most max_retries + 1     *)
(* times after it was enqueued, and a periodic job completes at most         *)
(* periodic_max_runs times, but for crashes, deletions and reruns: in spite  *)
(* of recovery and heartbeats running all the while, for every job on which  *)
(* these have not written back counts that another thread had changed.  For  *)
(* one instance whose jobs have no initial delay (put() writes a copy of     *)
(* such a job that may be stale).                                            *)
THEOREM RetriesAreBounded ==
    ASSUME OneInstance, Instance # {}, Delayed = {}
    PROVE  Spec => []RetryBound
<1>1. Init => AccountInv
  BY AccountInit
<1>2. AccountInv /\ [Next]_vars => AccountInv'
  BY AccountSteps
<1>3. AccountInv => RetryBound
  BY AccountGivesBound
<1>4. QED
  BY <1>1, <1>2, <1>3, PTL DEF Spec

-----------------------------------------------------------------------------
(* Types, for any number of instances.                                       *)
Typed ==
    /\ job \in [Job -> Data \cup {None}] /\ draft \in [Job -> BOOLEAN]
    /\ deleted \subseteq Job /\ created \in Seq(Job)
    /\ beat \in [Instance -> Data \cup {None}] /\ sched \in [Instance -> SUBSET Job]
    /\ attempts \in [Job -> Nat] /\ owed \subseteq Job /\ stale \subseteq Job
    /\ passed \subseteq Instance /\ \A i \in passed : beat[i] \in Data

TypeInv == Typed /\ WorkerOK /\ ScanOK /\ RequestOK

LEMMA TypedHolds ==
    ASSUME TypeInv, NEW i \in Instance
    PROVE  /\ worker[i] \in WorkerState /\ worker[i].out \in Outs /\ worker[i].at \in Places
           /\ worker[i].at \notin Idling => worker[i].job \in Job /\ worker[i].copy \in Data
           /\ worker[i].at = "claim" => worker[i].copy.status = "processing"
           /\ worker[i].at \in Recording => worker[i].copy.status \in Settled
BY DEF TypeInv, WorkerOK, WorkerState, Carries, Idling, Recording, Outs, Places

LEMMA TypedStored ==
    ASSUME Typed, NEW j \in Job, Readable(j) PROVE job[j] \in Data /\ job[j] # None
BY DEF Typed, Readable

LEMMA WriteTyped ==
    ASSUME Typed, NEW j \in Job, NEW d \in Data, NEW isDraft \in BOOLEAN, Write(j, d, isDraft)
    PROVE  /\ job' \in [Job -> Data \cup {None}] /\ draft' \in [Job -> BOOLEAN]
           /\ UNCHANGED <<deleted, created>>
BY DEF Typed, Write

LEMMA TryTyped ==
    ASSUME Typed, NEW j \in Job, NEW d \in Data, TryWrite(j, d)
    PROVE  /\ job' \in [Job -> Data \cup {None}] /\ draft' \in [Job -> BOOLEAN]
           /\ UNCHANGED <<deleted, created>>
<1>1. CASE Readable(j)
  BY <1>1, WriteTyped DEF TryWrite
<1>2. CASE ~Readable(j)
  BY <1>2 DEF TryWrite, store, Typed
<1>3. QED
  BY <1>1, <1>2

(* What a step does not touch.                                               *)
LEMMA RestTyped ==
    ASSUME Typed, UNCHANGED <<store, beat, passed, sched, history>> PROVE Typed'
BY DEF Typed, store, history

LEMMA KeptTyped ==
    ASSUME TypeInv, UNCHANGED <<scan, request>> PROVE ScanOK' /\ RequestOK'
BY DEF TypeInv, ScanOK, RequestOK

-----------------------------------------------------------------------------
LEMMA StartConsumeTyped == ASSUME TypeInv, NEW i \in Instance, StartConsume(i) PROVE TypeInv'
<1>1. WorkerOK'
  BY GotoMoves DEF StartConsume, TypeInv, Places, Idling, Recording, Moved
<1>2. NewScan \in ScanState /\ NewScan.copy = None
  BY DEF NewScan, ScanState, With
<1>3. ScanOK' /\ RequestOK'
  BY <1>2 DEF StartConsume, TypeInv, ScanOK, RequestOK
<1>4. QED
  BY <1>1, <1>3, RestTyped DEF StartConsume, TypeInv

LEMMA EnterLoopTyped == ASSUME TypeInv, NEW i \in Instance, EnterLoop(i) PROVE TypeInv'
<1>1. WorkerOK'
  BY GotoMoves DEF EnterLoop, TypeInv, Places, Idling, Recording, Moved
<1>2. QED
  BY <1>1, KeptTyped, RestTyped DEF EnterLoop, TypeInv

LEMMA WakeReadTyped == ASSUME TypeInv, NEW i \in Instance, NEW j \in Job, WakeRead(i, j) PROVE TypeInv'
<1>1. ScanOK' /\ RequestOK'
  BY KeptTyped DEF WakeRead
<1>2. Typed'
  BY DEF WakeRead, TypeInv, Typed, store, history
<1>3. CASE Readable(j)
  <2> DEFINE d == [job[j] EXCEPT !.status = "pending"]
  <2>1. d \in Data /\ d.status \in Settled
    BY <1>3, TypedStored, Statuses, SettledIs DEF TypeInv
  <2>2. Step(i, "wake", j, d, None)
    BY <1>3 DEF WakeRead
  <2> HIDE DEF d
  <2>3. WorkerOK'
    BY <2>1, <2>2, StepMoves DEF TypeInv, Places, Outs, Moved
  <2>4. QED
    BY <1>1, <1>2, <2>3 DEF TypeInv
<1>4. CASE ~Readable(j)
  BY <1>1, <1>2, <1>4 DEF WakeRead, TypeInv, WorkerOK
<1>5. QED
  BY <1>3, <1>4

LEMMA WakeWriteTyped == ASSUME TypeInv, NEW i \in Instance, WakeWrite(i) PROVE TypeInv'
<1>1. worker[i].job \in Job /\ worker[i].copy \in Data
  BY TypedHolds DEF WakeWrite, Idling
<1>2. job' \in [Job -> Data \cup {None}] /\ draft' \in [Job -> BOOLEAN] /\ UNCHANGED <<deleted, created>>
  BY <1>1, TryTyped DEF WakeWrite, TypeInv
<1>3. Typed'
  BY <1>2 DEF WakeWrite, TypeInv, Typed
<1>4. WorkerOK'
  BY LoopMoves DEF WakeWrite, TypeInv, Moved
<1>5. QED
  BY <1>3, <1>4, KeptTyped DEF WakeWrite, TypeInv

LEMMA PopTyped == ASSUME TypeInv, NEW i \in Instance, Pop(i) PROVE TypeInv'
<1>1. PICK j \in Job : Readable(j) /\ Step(i, "claim", j, [job[j] EXCEPT !.status = "processing"], None)
  BY DEF Pop
<1> DEFINE d == [job[j] EXCEPT !.status = "processing"]
<1>2. d \in Data /\ d.status = "processing" /\ Step(i, "claim", j, d, None)
  BY <1>1, TypedStored, Statuses DEF TypeInv, TaskStatus
<1> HIDE DEF d
<1>3. WorkerOK'
  BY <1>2, StepMoves DEF TypeInv, Places, Outs, Recording, Moved
<1>4. QED
  BY <1>3, KeptTyped, RestTyped DEF Pop, TypeInv

LEMMA ClaimTyped == ASSUME TypeInv, NEW i \in Instance, Claim(i) PROVE TypeInv'
<1>1. worker[i].job \in Job /\ worker[i].copy \in Data
  BY TypedHolds DEF Claim, Idling
<1>2. CASE Readable(worker[i].job)
  <2>1. job' \in [Job -> Data \cup {None}] /\ draft' \in [Job -> BOOLEAN] /\ UNCHANGED <<deleted, created>>
    BY <1>1, <1>2, WriteTyped DEF Claim, TypeInv
  <2>2. Typed'
    BY <1>2, <2>1 DEF Claim, TypeInv, Typed
  <2>3. WorkerOK'
    BY <1>2, GotoMoves DEF Claim, TypeInv, Places, Executing, Idling, Recording, Moved
  <2>4. QED
    BY <2>2, <2>3, KeptTyped DEF Claim, TypeInv
<1>3. CASE ~Readable(worker[i].job)
  <2>1. WorkerOK'
    BY <1>3, LoopMoves DEF Claim, TypeInv, Moved
  <2>2. Typed'
    BY <1>3, RestTyped DEF Claim, TypeInv, history
  <2>3. QED
    BY <2>1, <2>2, KeptTyped DEF Claim, TypeInv
<1>4. QED
  BY <1>2, <1>3

LEMMA RunTyped ==
    ASSUME JobQueueAssumption, TypeInv, NEW i \in Instance, NEW out \in Outcome, Run(i, out) PROVE TypeInv'
<1>1. out \in Outs /\ worker[i].at \notin Idling
  BY DEF JobQueueAssumption, Outs, Run, Idling
<1>2. WorkerOK'
  BY <1>1, FinishMoves DEF Run, TypeInv, Moved
<1>3. attempts' \in [Job -> Nat]
  <2>1. worker[i].job \in Job
    BY <1>1, TypedHolds
  <2>2. attempts[worker[i].job] \in Nat /\ attempts[worker[i].job] + 1 \in Nat
    BY <2>1 DEF TypeInv, Typed
  <2> DEFINE a == IF out \in {"error", "noretry"} /\ worker[i].job \notin stale
                    THEN attempts[worker[i].job] + 1 ELSE attempts[worker[i].job]
  <2>3. a \in Nat /\ attempts' = [attempts EXCEPT ![worker[i].job] = a]
    BY <2>2 DEF Run
  <2> HIDE DEF a
  <2>4. QED
    BY <2>3 DEF TypeInv, Typed
<1>4. Typed'
  BY <1>3 DEF Run, TypeInv, Typed, store
<1>5. QED
  BY <1>2, <1>4, KeptTyped DEF Run, TypeInv

(* Recording raised.                                                         *)
LEMMA RaiseTyped ==
    ASSUME TypeInv, NEW i \in Instance, worker[i].at \notin Idling, Raise(i),
           UNCHANGED <<store, beat, passed, sched, history, scan, request>>
    PROVE  TypeInv'
<1>1. WorkerOK'
  BY RaiseMoves DEF TypeInv, Moved
<1>2. QED
  BY <1>1, KeptTyped, RestTyped DEF TypeInv

LEMMA CompleteReadTyped == ASSUME TypeInv, NEW i \in Instance, CompleteRead(i) PROVE TypeInv'
<1> DEFINE j == worker[i].job
           d == [job[j] EXCEPT !.status = "completed"]
<1>1. j \in Job /\ worker[i].out \in Outs /\ worker[i].at \notin Idling
  BY TypedHolds DEF CompleteRead, Idling
<1>2. CASE Readable(j)
  <2>1. d \in Data /\ d.status \in Settled
    BY <1>1, <1>2, TypedStored, Statuses, SettledIs DEF TypeInv
  <2>2. Step(i, "complete", j, d, worker[i].out)
    BY <1>2 DEF CompleteRead
  <2> HIDE DEF d
  <2>3. WorkerOK'
    BY <1>1, <2>1, <2>2, StepMoves DEF TypeInv, Places, Executing, Moved
  <2>4. QED
    BY <2>3, KeptTyped, RestTyped DEF CompleteRead, TypeInv
<1>3. CASE ~Readable(j)
  BY <1>1, <1>3, RaiseTyped DEF CompleteRead
<1>4. QED
  BY <1>2, <1>3

LEMMA CompleteWriteTyped == ASSUME TypeInv, NEW i \in Instance, CompleteWrite(i) PROVE TypeInv'
<1> DEFINE j == worker[i].job
<1>1. j \in Job /\ worker[i].copy \in Data /\ worker[i].copy.status \in Settled /\ worker[i].at \notin Idling
  BY TypedHolds DEF CompleteWrite, Idling, Recording
<1>2. CASE Readable(j)
  <2>1. job' \in [Job -> Data \cup {None}] /\ draft' \in [Job -> BOOLEAN] /\ UNCHANGED <<deleted, created>>
    BY <1>1, <1>2, WriteTyped DEF CompleteWrite, TypeInv
  <2>2. Typed'
    <3>1. attempts' = [attempts EXCEPT ![j] = 0] /\ UNCHANGED <<beat, passed, sched, owed, stale>>
      BY <1>2 DEF CompleteWrite
    <3>2. QED
      BY <2>1, <3>1 DEF TypeInv, Typed
  <2>3. PICK at \in {"delay", "periodic", "join"} : Goto(i, at)
    BY <1>2 DEF CompleteWrite
  <2>4. WorkerOK'
    BY <1>1, <2>3, GotoMoves DEF TypeInv, Places, Executing, Idling, Moved
  <2>5. QED
    BY <2>2, <2>4, KeptTyped DEF CompleteWrite, TypeInv
<1>3. CASE ~Readable(j)
  BY <1>1, <1>3, RaiseTyped DEF CompleteWrite, history
<1>4. QED
  BY <1>2, <1>3

LEMMA RescheduleTyped ==
    ASSUME TypeInv, NEW i \in Instance, worker[i].at \in Executing, NEW d \in Data, Reschedule(i, d),
           UNCHANGED <<beat, passed, attempts, stale>>
    PROVE  Typed' /\ WorkerOK'
<1>1. worker[i].job \in Job /\ worker[i].at \notin Idling
  BY TypedHolds DEF Executing, Idling
<1>2. job' \in [Job -> Data \cup {None}] /\ draft' \in [Job -> BOOLEAN] /\ UNCHANGED <<deleted, created>>
  BY <1>1, WriteTyped DEF Reschedule, TypeInv
<1>3. Typed'
  BY <1>1, <1>2 DEF Reschedule, TypeInv, Typed
<1>4. WorkerOK'
  BY <1>1, GotoMoves DEF Reschedule, TypeInv, Places, Recording, Moved
<1>5. QED
  BY <1>3, <1>4

LEMMA PeriodicWriteTyped == ASSUME TypeInv, NEW i \in Instance, PeriodicWrite(i) PROVE TypeInv'
<1> DEFINE j == worker[i].job
           d == [worker[i].copy EXCEPT !.runs = @ + 1]
<1>1. j \in Job /\ d \in Data /\ worker[i].at \notin Idling /\ worker[i].at \in Executing
  BY TypedHolds, Counted DEF PeriodicWrite, Idling, Executing
<1>2. CASE Readable(j) /\ Continues(i)
  <2> DEFINE e == [d EXCEPT !.retries = 0]
  <2>1. e \in Data /\ Reschedule(i, e)
    BY <1>1, <1>2, Counted DEF PeriodicWrite
  <2> HIDE DEF e
  <2>2. QED
    BY <1>1, <2>1, RescheduleTyped, KeptTyped DEF PeriodicWrite, TypeInv
<1>3. CASE Readable(j) /\ ~Continues(i)
  <2>1. Write(j, d, FALSE) /\ Goto(i, "join") /\ UNCHANGED <<sched, owed>>
    BY <1>3 DEF PeriodicWrite
  <2> HIDE DEF d
  <2>2. job' \in [Job -> Data \cup {None}] /\ draft' \in [Job -> BOOLEAN] /\ UNCHANGED <<deleted, created>>
    BY <1>1, <2>1, WriteTyped DEF TypeInv
  <2>3. Typed'
    BY <2>1, <2>2 DEF PeriodicWrite, TypeInv, Typed
  <2>4. WorkerOK'
    BY <1>1, <2>1, GotoMoves DEF TypeInv, Places, Recording, Moved
  <2>5. QED
    BY <2>3, <2>4, KeptTyped DEF PeriodicWrite, TypeInv
<1>4. CASE ~Readable(j)
  BY <1>1, <1>4, RaiseTyped DEF PeriodicWrite, history
<1>5. QED
  BY <1>2, <1>3, <1>4

LEMMA DelayWriteTyped == ASSUME TypeInv, NEW i \in Instance, DelayWrite(i) PROVE TypeInv'
<1>1. worker[i].job \in Job /\ worker[i].copy \in Data /\ worker[i].at \notin Idling /\ worker[i].at \in Executing
  BY TypedHolds DEF DelayWrite, Idling, Executing
<1>2. CASE Readable(worker[i].job)
  <2> DEFINE d == [worker[i].copy EXCEPT !.retries = 0]
  <2>1. d \in Data /\ Reschedule(i, d)
    BY <1>1, <1>2, Counted DEF DelayWrite
  <2> HIDE DEF d
  <2>2. QED
    BY <1>1, <2>1, RescheduleTyped, KeptTyped DEF DelayWrite, TypeInv
<1>3. CASE ~Readable(worker[i].job)
  BY <1>1, <1>3, RaiseTyped DEF DelayWrite, history
<1>4. QED
  BY <1>2, <1>3

LEMMA ErrorReadTyped == ASSUME TypeInv, NEW i \in Instance, ErrorRead(i) PROVE TypeInv'
<1> DEFINE j == worker[i].job
           c == IF Readable(j) THEN job[j] ELSE worker[i].copy
           d == Failure(c, worker[i].out)
<1>1. j \in Job /\ worker[i].copy \in Data /\ worker[i].out \in Outs
  BY TypedHolds DEF ErrorRead, Idling
<1>2. c \in Data
  BY <1>1, TypedStored DEF TypeInv
<1>3. Step(i, "save", j, d, worker[i].out)
  BY DEF ErrorRead
<1> HIDE DEF c
<1>4. d \in Data /\ d.status \in Settled
  BY <1>2, Failed
<1> HIDE DEF d
<1>5. WorkerOK'
  BY <1>1, <1>3, <1>4, StepMoves DEF TypeInv, Places, Executing, Moved
<1>6. QED
  BY <1>5, KeptTyped, RestTyped DEF ErrorRead, TypeInv

LEMMA ErrorWriteTyped == ASSUME TypeInv, NEW i \in Instance, ErrorWrite(i) PROVE TypeInv'
<1>1. worker[i].job \in Job /\ worker[i].copy \in Data /\ worker[i].at \notin Idling
  BY TypedHolds DEF ErrorWrite, Idling
<1>2. job' \in [Job -> Data \cup {None}] /\ draft' \in [Job -> BOOLEAN] /\ UNCHANGED <<deleted, created>>
  BY <1>1, TryTyped DEF ErrorWrite, TypeInv
<1>3. Typed'
  BY <1>1, <1>2 DEF ErrorWrite, TypeInv, Typed
<1>4. PICK at \in {"join", "fail"} : Goto(i, at)
  BY DEF ErrorWrite
<1>5. WorkerOK'
  BY <1>1, <1>4, GotoMoves DEF TypeInv, Places, Executing, Idling, Recording, Moved
<1>6. QED
  BY <1>3, <1>5, KeptTyped DEF ErrorWrite, TypeInv

LEMMA FailReadTyped == ASSUME TypeInv, NEW i \in Instance, FailRead(i) PROVE TypeInv'
<1> DEFINE j == worker[i].job
           d == [job[j] EXCEPT !.status = "failed"]
<1>1. j \in Job /\ worker[i].out \in Outs /\ worker[i].at \notin Idling
  BY TypedHolds DEF FailRead, Idling
<1>2. CASE Readable(j)
  <2>1. d \in Data /\ d.status \in Settled
    BY <1>1, <1>2, TypedStored, Statuses, SettledIs DEF TypeInv
  <2>2. Step(i, "failing", j, d, worker[i].out)
    BY <1>2 DEF FailRead
  <2> HIDE DEF d
  <2>3. WorkerOK'
    BY <1>1, <2>1, <2>2, StepMoves DEF TypeInv, Places, Executing, Moved
  <2>4. QED
    BY <2>3, KeptTyped, RestTyped DEF FailRead, TypeInv
<1>3. CASE ~Readable(j)
  <2>1. WorkerOK'
    BY <1>1, <1>3, GotoMoves DEF FailRead, TypeInv, Places, Recording, Moved
  <2>2. QED
    BY <2>1, KeptTyped, RestTyped DEF FailRead, TypeInv
<1>4. QED
  BY <1>2, <1>3

LEMMA FailWriteTyped == ASSUME TypeInv, NEW i \in Instance, FailWrite(i) PROVE TypeInv'
<1>1. worker[i].job \in Job /\ worker[i].copy \in Data /\ worker[i].at \notin Idling
  BY TypedHolds DEF FailWrite, Idling
<1>2. job' \in [Job -> Data \cup {None}] /\ draft' \in [Job -> BOOLEAN] /\ UNCHANGED <<deleted, created>>
  BY <1>1, TryTyped DEF FailWrite, TypeInv
<1>3. Typed'
  BY <1>2 DEF FailWrite, TypeInv, Typed, history
<1>4. WorkerOK'
  BY <1>1, GotoMoves DEF FailWrite, TypeInv, Places, Recording, Moved
<1>5. QED
  BY <1>3, <1>4, KeptTyped DEF FailWrite, TypeInv

LEMMA JoinTyped == ASSUME TypeInv, NEW i \in Instance, Join(i) PROVE TypeInv'
<1>1. WorkerOK'
  <2>1. CASE worker[i].out = "escaped"
    BY <2>1, FinishMoves DEF Join, TypeInv, Outs, Idling, Moved
  <2>2. CASE worker[i].out # "escaped"
    BY <2>2, LoopMoves DEF Join, TypeInv, Moved
  <2>3. QED
    BY <2>1, <2>2
<1>2. QED
  BY <1>1, KeptTyped, RestTyped DEF Join, TypeInv

-----------------------------------------------------------------------------
(* The other threads and requests: no worker moves.                          *)
LEMMA TickTyped ==
    ASSUME TypeInv, NEW i \in Instance, TickRead(i) \/ TickCheck(i) \/ TickWrite(i) PROVE TypeInv'
<1>1. UNCHANGED <<worker, scan, request, sched, attempts, created>>
  BY DEF TickRead, TickCheck, TickWrite, store, history
<1>2. WorkerOK' /\ ScanOK' /\ RequestOK'
  BY <1>1, KeptTyped DEF TypeInv, WorkerOK
<1>3. CASE TickRead(i)
  <2>1. worker[i].job \in Job
    BY <1>3, TypedHolds DEF TickRead, Executing, Idling
  <2> DEFINE d == [job[worker[i].job] EXCEPT !.hb = "recent"]
  <2>2. d \in Data
    BY <1>3, <2>1, TypedStored, Beats DEF TickRead, TypeInv
  <2>3. beat' = [beat EXCEPT ![i] = d] /\ UNCHANGED <<job, draft, deleted, passed, owed, stale>>
    BY <1>3 DEF TickRead, store, history
  <2> HIDE DEF d
  <2>4. Typed'
    BY <1>1, <2>2, <2>3 DEF TypeInv, Typed
  <2>5. QED
    BY <1>2, <2>4 DEF TypeInv
<1>4. CASE TickCheck(i)
  <2>1. beat[i] \in Data /\ i \notin passed /\ UNCHANGED <<job, draft, deleted, owed, stale>>
    BY <1>4 DEF TickCheck, TypeInv, Typed, store, history
  <2>2. \/ passed' = passed \cup {i} /\ beat' = beat
        \/ passed' = passed /\ beat' = [beat EXCEPT ![i] = None]
    BY <1>4 DEF TickCheck
  <2>3. Typed'
    BY <1>1, <2>1, <2>2 DEF TypeInv, Typed
  <2>4. QED
    BY <1>2, <2>3 DEF TypeInv
<1>5. CASE TickWrite(i)
  <2>1. beat[i] \in Data /\ deleted' \subseteq deleted /\ owed' \subseteq owed /\ stale' \subseteq stale \cup Job
    BY <1>5 DEF TickWrite, TypeInv, Typed
  <2>2. job' \in [Job -> Data \cup {None}] /\ draft' \in [Job -> BOOLEAN]
    BY <1>5, <2>1 DEF TickWrite, TypeInv, Typed
  <2>3. beat' = [beat EXCEPT ![i] = None] /\ passed' = passed \ {i}
    BY <1>5 DEF TickWrite
  <2>4. beat' \in [Instance -> Data \cup {None}] /\ passed' \subseteq Instance /\ \A k \in passed' : beat'[k] \in Data
    BY <2>3 DEF TypeInv, Typed
  <2>5. Typed'
    BY <1>1, <2>1, <2>2, <2>4 DEF TypeInv, Typed
  <2>6. QED
    BY <1>2, <2>5 DEF TypeInv
<1>6. QED
  BY <1>3, <1>4, <1>5

LEMMA HeartbeatAgesTyped == ASSUME TypeInv, NEW j \in Job, HeartbeatAges(j) PROVE TypeInv'
<1> DEFINE d == [job[j] EXCEPT !.hb = "old"]
<1>1. d \in Data /\ job' = [job EXCEPT ![j] = d]
  BY Beats DEF HeartbeatAges, TypeInv, Typed
<1> HIDE DEF d
<1>2. Typed'
  BY <1>1 DEF HeartbeatAges, TypeInv, Typed, history
<1>3. QED
  BY <1>2, KeptTyped DEF HeartbeatAges, TypeInv, WorkerOK

LEMMA RecoverTyped == ASSUME TypeInv, NEW i \in Instance, Recover(i) PROVE TypeInv'
<1>1. UNCHANGED <<worker, beat, passed, request, sched, attempts>>
  BY DEF Recover, ScanStart, ScanRead, ScanWrite, ScanEnd, history
<1>2. WorkerOK' /\ RequestOK'
  BY <1>1 DEF TypeInv, WorkerOK, RequestOK
<1>3. CASE ScanStart(i) \/ ScanEnd(i)
  <2>1. NewScan \in ScanState /\ NewScan.copy = None
    BY DEF NewScan, ScanState, With
  <2>2. ScanOK'
    BY <1>3, <2>1 DEF ScanStart, ScanEnd, TypeInv, ScanOK
  <2>3. QED
    BY <1>1, <1>2, <1>3, <2>2, RestTyped DEF ScanStart, ScanEnd, TypeInv
<1>4. ASSUME NEW j \in Job, ScanRead(i, j) PROVE TypeInv'
  <2>1. scan[i] \in ScanState /\ scan[i] # None /\ scan[i].copy = None
    BY <1>4 DEF ScanRead, TypeInv, ScanOK
  <2>2. ScanOK'
    <3>1. CASE Readable(j) /\ job[j].hb # "recent"
      <4> DEFINE d == [job[j] EXCEPT !.status = "failed"]
                 s == [todo |-> scan[i].todo \ {j}, job |-> j, copy |-> d]
      <4>1. d \in Data /\ d.status \in Settled /\ scan' = [scan EXCEPT ![i] = s]
        BY <1>4, <3>1, TypedStored, Statuses, SettledIs DEF ScanRead, TypeInv
      <4> HIDE DEF d
      <4>2. s \in ScanState
        BY <2>1, <4>1 DEF ScanState
      <4>3. s.job \in Job /\ s.copy.status \in Settled
        BY <4>1
      <4> HIDE DEF s
      <4>4. QED
        BY <4>1, <4>2, <4>3 DEF TypeInv, ScanOK
    <3>2. CASE ~(Readable(j) /\ job[j].hb # "recent")
      <4> DEFINE s == [scan[i] EXCEPT !.todo = @ \ {j}]
      <4>1. s \in ScanState /\ s.copy = None
        BY <2>1 DEF ScanState
      <4>2. scan' = [scan EXCEPT ![i] = s]
        BY <1>4, <3>2 DEF ScanRead
      <4> HIDE DEF s
      <4>3. QED
        BY <4>1, <4>2 DEF TypeInv, ScanOK
    <3>3. QED
      BY <3>1, <3>2
  <2>3. QED
    BY <1>1, <1>2, <1>4, <2>2, RestTyped DEF ScanRead, TypeInv
<1>5. CASE ScanWrite(i)
  <2>1. scan[i] \in ScanState /\ scan[i].job \in Job /\ scan[i].copy \in Data
    BY <1>5 DEF ScanWrite, TypeInv, ScanOK, ScanState
  <2>2. job' \in [Job -> Data \cup {None}] /\ draft' \in [Job -> BOOLEAN] /\ UNCHANGED <<deleted, created>>
    BY <1>5, <2>1, TryTyped DEF ScanWrite, TypeInv
  <2>3. Typed'
    <3>1. stale' \subseteq Job /\ owed' \subseteq Job
      BY <1>5, <2>1 DEF ScanWrite, Recounted, TypeInv, Typed
    <3>2. QED
      BY <1>1, <2>2, <3>1 DEF TypeInv, Typed
  <2> DEFINE s == [scan[i] EXCEPT !.job = None, !.copy = None]
  <2>4. s \in ScanState /\ s.copy = None
    BY <2>1 DEF ScanState
  <2>5. scan' = [scan EXCEPT ![i] = s]
    BY <1>5 DEF ScanWrite
  <2> HIDE DEF s
  <2>6. ScanOK'
    BY <2>4, <2>5 DEF TypeInv, ScanOK
  <2>7. QED
    BY <1>2, <2>3, <2>6 DEF TypeInv
<1>6. QED
  BY <1>3, <1>4, <1>5 DEF Recover

(* A request in progress is replaced by another one, or by none.             *)
LEMMA RequestTyped ==
    ASSUME TypeInv, NEW i \in Instance, NEW q \in RequestState \cup {None}, request' = [request EXCEPT ![i] = q],
           q # None /\ q.at \in {"putting", "rerun"} => q.copy \in Data /\ q.copy.status \in Settled,
           UNCHANGED <<worker, scan>>
    PROVE  WorkerOK' /\ ScanOK' /\ RequestOK'
<1>1. request' \in [Instance -> RequestState \cup {None}] /\ request'[i] = q
      /\ \A k \in Instance \ {i} : request'[k] = request[k]
  BY DEF TypeInv, RequestOK
<1>2. QED
  BY <1>1 DEF TypeInv, RequestOK, ScanOK, WorkerOK

LEMMA CreateTyped == ASSUME TypeInv, NEW i \in Instance, NEW j \in Job, Create(i, j) PROVE TypeInv'
<1> DEFINE q == IF j \in Delayed THEN [at |-> "put", job |-> j, copy |-> None] ELSE None
           d == [status |-> "pending", retries |-> 0, runs |-> 0, hb |-> "none"]
<1>1. d \in Data /\ job' = [job EXCEPT ![j] = d]
  BY DEF Create, Data, TaskStatus
<1>2. q \in RequestState \cup {None} /\ (q # None => q.at = "put") /\ request' = [request EXCEPT ![i] = q]
  BY DEF Create, RequestState
<1> HIDE DEF q, d
<1>3. Typed'
  BY <1>1 DEF Create, TypeInv, Typed
<1>4. WorkerOK' /\ ScanOK' /\ RequestOK'
  BY <1>2, RequestTyped DEF Create
<1>5. QED
  BY <1>3, <1>4 DEF TypeInv

LEMMA RerunTyped == ASSUME TypeInv, NEW i \in Instance, NEW j \in Job, Rerun(i, j) PROVE TypeInv'
<1> DEFINE d == [job[j] EXCEPT !.status = "pending", !.retries = 0]
           q == [at |-> "rerun", job |-> j, copy |-> d]
<1>1. d \in Data /\ d.status \in Settled
  BY TypedStored, Enqueued, SettledIs DEF Rerun, TypeInv
<1>2. request' = [request EXCEPT ![i] = q]
  BY DEF Rerun
<1> HIDE DEF d
<1>3. q \in RequestState /\ q.copy \in Data /\ q.copy.status \in Settled
  BY <1>1 DEF RequestState
<1> HIDE DEF q
<1>4. WorkerOK' /\ ScanOK' /\ RequestOK'
  BY <1>2, <1>3, RequestTyped DEF Rerun
<1>5. QED
  BY <1>4, RestTyped DEF Rerun, TypeInv

LEMMA AnswerTyped == ASSUME TypeInv, NEW i \in Instance, Answer(i) PROVE TypeInv'
<1> DEFINE j == request[i].job
<1>1. /\ request[i] \in RequestState /\ j \in Job
      /\ request[i].at \in {"putting", "rerun"} => request[i].copy \in Data
  BY DEF Answer, PutRead, PutWrite, RerunWrite, TypeInv, RequestOK, RequestState
<1>2. UNCHANGED <<worker, beat, passed, scan>>
  BY DEF Answer, PutRead, PutWrite, RerunWrite
<1>3. CASE PutRead(i)
  <2> DEFINE d == [job[j] EXCEPT !.status = "completed"]
             q == [at |-> "putting", job |-> j, copy |-> d]
  <2>1. CASE Readable(j) /\ job[j].runs = 0
    <3>1. d \in Data /\ d.status \in Settled
      BY <1>1, <2>1, TypedStored, Statuses, SettledIs DEF TypeInv
    <3>2. request' = [request EXCEPT ![i] = q]
      BY <1>3, <2>1 DEF PutRead
    <3> HIDE DEF d
    <3>3. q \in RequestState /\ q.copy \in Data /\ q.copy.status \in Settled
      BY <1>1, <3>1 DEF RequestState
    <3> HIDE DEF q
    <3>4. WorkerOK' /\ ScanOK' /\ RequestOK'
      BY <1>2, <3>2, <3>3, RequestTyped
    <3>5. QED
      BY <1>3, <3>4, RestTyped DEF PutRead, TypeInv
  <2>2. CASE ~(Readable(j) /\ job[j].runs = 0)
    <3>1. request' = [request EXCEPT ![i] = None]
      BY <1>3, <2>2 DEF PutRead
    <3>2. WorkerOK' /\ ScanOK' /\ RequestOK'
      BY <1>2, <3>1, RequestTyped
    <3>3. QED
      BY <1>3, <3>2, RestTyped DEF PutRead, TypeInv
  <2>3. QED
    BY <2>1, <2>2
<1>4. CASE PutWrite(i)
  <2>1. job' \in [Job -> Data \cup {None}] /\ draft' \in [Job -> BOOLEAN] /\ UNCHANGED <<deleted, created>>
    BY <1>1, <1>4, TryTyped DEF PutWrite, TypeInv
  <2>2. Typed'
    BY <1>1, <1>4, <2>1 DEF PutWrite, Recounted, TypeInv, Typed
  <2>3. WorkerOK' /\ ScanOK' /\ RequestOK'
    BY <1>2, <1>4, RequestTyped DEF PutWrite
  <2>4. QED
    BY <2>2, <2>3 DEF TypeInv
<1>5. CASE RerunWrite(i)
  <2>1. job' \in [Job -> Data \cup {None}] /\ draft' \in [Job -> BOOLEAN] /\ UNCHANGED <<deleted, created>>
    BY <1>1, <1>5, TryTyped DEF RerunWrite, TypeInv
  <2>2. Typed'
    BY <1>1, <1>5, <2>1 DEF RerunWrite, TypeInv, Typed
  <2> DEFINE q == IF Readable(j) /\ j \in Delayed THEN [at |-> "put", job |-> j, copy |-> None] ELSE None
  <2>3. q \in RequestState \cup {None} /\ (q # None => q.at = "put") /\ request' = [request EXCEPT ![i] = q]
    BY <1>1, <1>5 DEF RerunWrite, RequestState
  <2> HIDE DEF q
  <2>4. WorkerOK' /\ ScanOK' /\ RequestOK'
    BY <1>2, <2>3, RequestTyped
  <2>5. QED
    BY <2>2, <2>4 DEF TypeInv
<1>6. QED
  BY <1>3, <1>4, <1>5 DEF Answer

LEMMA DeletionTyped == ASSUME TypeInv, NEW j \in Job, Delete(j) \/ Restore(j) PROVE TypeInv'
<1>1. Typed'
  BY DEF Delete, Restore, TypeInv, Typed, history
<1>2. QED
  BY <1>1, KeptTyped DEF Delete, Restore, TypeInv, WorkerOK

LEMMA CrashTyped == ASSUME TypeInv, NEW i \in Instance, Crash(i) PROVE TypeInv'
<1>1. WorkerOK'
  BY LoopMoves DEF Crash, TypeInv, Moved
<1>2. Typed' /\ ScanOK' /\ RequestOK'
  BY DEF Crash, TypeInv, Typed, ScanOK, RequestOK, store, history
<1>3. QED
  BY <1>1, <1>2 DEF TypeInv

-----------------------------------------------------------------------------
LEMMA TypeInvInit == ASSUME Init PROVE TypeInv
<1>1. Down \in WorkerState /\ Carries(Down)
  BY DEF Down, WorkerState, Carries
<1>2. Typed /\ ScanOK /\ RequestOK
  BY DEF Init, Typed, ScanOK, RequestOK
<1>3. QED
  BY <1>1, <1>2 DEF Init, TypeInv, WorkerOK

LEMMA ConsumeTyped == ASSUME TypeInv, NEW i \in Instance, Consume(i) PROVE TypeInv'
BY JobQueueAssumption, EnterLoopTyped, WakeWriteTyped, PopTyped, ClaimTyped, RunTyped, CompleteReadTyped,
   CompleteWriteTyped, PeriodicWriteTyped, DelayWriteTyped, ErrorReadTyped, ErrorWriteTyped, FailReadTyped,
   FailWriteTyped, JoinTyped DEF Consume

LEMMA TypeInvSteps == ASSUME TypeInv, [Next]_vars PROVE TypeInv'
<1>1. CASE Next
  BY <1>1, StartConsumeTyped, ConsumeTyped, WakeReadTyped, TickTyped, RecoverTyped, CreateTyped, RerunTyped,
     AnswerTyped, CrashTyped, HeartbeatAgesTyped, DeletionTyped DEF Next
<1>2. CASE UNCHANGED vars
  <2>1. UNCHANGED <<store, beat, passed, sched, history, worker, scan, request>>
    BY <1>2 DEF vars
  <2>2. QED
    BY <2>1, RestTyped, KeptTyped DEF TypeInv, WorkerOK
<1>3. QED
  BY <1>1, <1>2

LEMMA TypeInvGives == ASSUME TypeInv PROVE TypeOK
<1>1. ASSUME NEW i \in Instance PROVE scan[i] # None => scan[i].todo \subseteq Job
  BY DEF TypeInv, ScanOK, ScanState
<1>2. ToSet(created) \subseteq Job
  BY DEF TypeInv, Typed, ToSet
<1>3. \A i \in Instance : worker[i].at \in Executing => worker[i].at \notin Idling
  BY DEF Executing, Idling
<1>4. QED
  BY <1>1, <1>2, <1>3, TypedHolds DEF TypeOK, TypeInv, Typed, Places

(* Jobs, threads, requests and schedules stay well typed, for any number of  *)
(* instances, whatever crashes; copies that are written back are job data    *)
(* (simple.py, basic.py, heartbeat.py).                                      *)
THEOREM TypeCorrect == Spec => []TypeOK
<1>1. Init => TypeInv
  BY TypeInvInit
<1>2. TypeInv /\ [Next]_vars => TypeInv'
  BY TypeInvSteps
<1>3. TypeInv => TypeOK
  BY TypeInvGives
<1>4. QED
  BY <1>1, <1>2, <1>3, PTL DEF Spec
=============================================================================

