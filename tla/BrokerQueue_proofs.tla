--------------------------- MODULE BrokerQueue_proofs ---------------------------
(***************************************************************************)
(* What the RabbitMQ queue guarantees, for any jobs, instances, threads    *)
(* and faults.  The order of acks, saves and publishes loses no job: each  *)
(* unfinished one has a carrier (HeldInv).  A job enqueued once has one    *)
(* carrier (OnceInv), which knows how often the handler failed.            *)
(***************************************************************************)
EXTENDS BrokerQueue, FiniteSetTheorems, SequenceTheorems, WellFoundedInduction, TLAPS

(* A worker thread and the callbacks of the thread that an unacknowledged    *)
(* delivery names are about its job.                                         *)
Linked(i) ==
    unacked[i] # None =>
        /\ \A t \in Thread :
              worker[t].at # "idle" /\ unacked[i].by = t => worker[t].job = unacked[i].job
        /\ \A n \in 1..Len(callbacks[i]) :
              callbacks[i][n].by = unacked[i].by => callbacks[i][n].job = unacked[i].job

TypeInv ==
    /\ TypeOK
    /\ \A i \in Instance : Linked(i)
    /\ \A t \in Thread : worker[t].open => consumer[worker[t].inst] # "down"

-----------------------------------------------------------------------------
(* Bags of messages *)

(* Adding a message.                                                         *)
LEMMA Added ==
    ASSUME NEW B, IsABag(B), NEW m, NEW C, C = B (+) SetToBag({m})
    PROVE  /\ IsABag(C) /\ BagToSet(C) = BagToSet(B) \cup {m}
           /\ m \notin BagToSet(B) => C[m] = 1
           /\ \A e \in BagToSet(B) : e # m => C[e] = B[e]
<1>1. DOMAIN SetToBag({m}) = {m} /\ SetToBag({m})[m] = 1
  BY DEF SetToBag
<1>2. C = [e \in (DOMAIN B) \cup {m} |->
              (IF e \in DOMAIN B THEN B[e] ELSE 0) + (IF e \in {m} THEN SetToBag({m})[e] ELSE 0)]
  BY <1>1 DEF (+)
<1>3. DOMAIN C = (DOMAIN B) \cup {m}
  BY <1>2
<1>4. \A e \in DOMAIN B : B[e] \in Nat /\ B[e] > 0
  BY DEF IsABag
<1>5. C[m] = (IF m \in DOMAIN B THEN B[m] ELSE 0) + 1
  BY <1>1, <1>2
<1>6. \A e \in DOMAIN B : e # m => C[e] = B[e]
  <2>. TAKE e \in DOMAIN B
  <2>1. HAVE e # m
  <2>2. C[e] = B[e] + 0
    BY <1>2, <2>1
  <2>. QED
    BY <1>4, <2>2
<1>7. \A e \in DOMAIN C : C[e] \in {n \in Nat : n > 0}
  BY <1>3, <1>4, <1>5, <1>6
<1>8. IsABag(C)
  BY <1>2, <1>3, <1>7 DEF IsABag
<1>. QED
  BY <1>3, <1>5, <1>6, <1>8 DEF BagToSet

LEMMA AddedCopies ==
    ASSUME NEW B, IsABag(B), NEW m
    PROVE  /\ m \notin BagToSet(B) => (B (+) SetToBag({m}))[m] = 1
           /\ \A e \in BagToSet(B) : e # m => (B (+) SetToBag({m}))[e] = B[e]
<1>. DEFINE C == B (+) SetToBag({m})
<1>1. C = B (+) SetToBag({m})
  OBVIOUS
<1>. HIDE DEF C
<1>2. /\ m \notin BagToSet(B) => C[m] = 1
      /\ \A e \in BagToSet(B) : e # m => C[e] = B[e]
  BY <1>1, Added
<1>. QED
  BY <1>2 DEF C

LEMMA AddedNothing ==
    ASSUME NEW B, IsABag(B)
    PROVE  B (+) EmptyBag = B
<1>1. DOMAIN EmptyBag = {}
  BY DEF EmptyBag, SetToBag
<1>2. B (+) EmptyBag = [e \in DOMAIN B |-> B[e] + 0]
  BY <1>1 DEF (+)
<1>3. \A e \in DOMAIN B : B[e] + 0 = B[e]
  BY DEF IsABag
<1>4. B = [e \in DOMAIN B |-> B[e]]
  BY DEF IsABag
<1>. QED
  BY <1>2, <1>3, <1>4

(* Taking one copy of a message away.                                        *)
LEMMA Removed ==
    ASSUME NEW B, IsABag(B), NEW m \in BagToSet(B), NEW C, C = B (-) SetToBag({m})
    PROVE  /\ IsABag(C) /\ BagToSet(C) \subseteq BagToSet(B)
           /\ \A e \in BagToSet(B) : e # m => e \in BagToSet(C)
           /\ B[m] = 1 => m \notin BagToSet(C)
           /\ \A e \in BagToSet(C) : e # m => C[e] = B[e]
<1>. DEFINE D == [e \in DOMAIN B |-> IF e \in DOMAIN SetToBag({m}) THEN B[e] - SetToBag({m})[e]
                                     ELSE B[e]]
<1>1. DOMAIN SetToBag({m}) = {m} /\ SetToBag({m})[m] = 1
  BY DEF SetToBag
<1>2. C = [e \in {d \in DOMAIN D : D[d] > 0} |-> D[e]]
  BY DEF (-)
<1>3. \A e \in DOMAIN B : B[e] \in Nat /\ B[e] > 0
  BY DEF IsABag
<1>4. DOMAIN D = DOMAIN B /\ D[m] = B[m] - 1 /\ \A e \in DOMAIN B : e # m => D[e] = B[e]
  BY <1>1 DEF BagToSet
<1>. HIDE DEF D
<1>5. DOMAIN C = {d \in DOMAIN B : D[d] > 0} /\ \A e \in DOMAIN C : C[e] = D[e]
  BY <1>2, <1>4
<1>6. \A e \in DOMAIN B : D[e] \in Int
  BY <1>3, <1>4
<1>7. \A e \in DOMAIN C : C[e] \in {n \in Nat : n > 0}
  BY <1>5, <1>6
<1>8. IsABag(C)
  BY <1>2, <1>5, <1>7 DEF IsABag
<1>9. m \in DOMAIN C => B[m] # 1
  BY <1>3, <1>4, <1>5
<1>10. \A e \in DOMAIN B : e # m => e \in DOMAIN C /\ C[e] = B[e]
  BY <1>3, <1>4, <1>5
<1>. QED
  BY <1>5, <1>8, <1>9, <1>10 DEF BagToSet

Typed(B) == IsABag(B) /\ BagToSet(B) \subseteq Message

LEMMA TypedAdded ==
    ASSUME NEW B, Typed(B), NEW j \in Job, NEW c \in Nat,
           NEW at \in {"main", "retry", "periodic", "dead"}
    PROVE  Typed(B (+) Msg(j, c, at))
<1>. DEFINE m == [job |-> j, count |-> c, at |-> at]
<1>1. m \in Message
  BY DEF Message
<1>2. Msg(j, c, at) = SetToBag({m})
  BY DEF Msg
<1>. HIDE DEF m
<1>3. /\ IsABag(B (+) SetToBag({m}))
      /\ BagToSet(B (+) SetToBag({m})) = BagToSet(B) \cup {m}
  BY Added DEF Typed
<1>. QED
  BY <1>1, <1>2, <1>3 DEF Typed

LEMMA TypedRemoved ==
    ASSUME NEW B, Typed(B), NEW m \in BagToSet(B)
    PROVE  Typed(B (-) SetToBag({m}))
BY Removed DEF Typed

(* What _send_to_retry_or_dead sends.                                        *)
LEMMA ResendIs ==
    ASSUME NEW j, NEW count \in Nat, NEW final \in BOOLEAN, NEW limit \in Nat
    PROVE  \E c \in Nat : \E at \in {"retry", "dead"} :
              /\ Resend(j, count, final, limit) = Msg(j, c, at)
              /\ at = "retry" => ~final /\ count < limit /\ c = count + 1
<1>1. CASE ~final /\ count < limit
  <2>. DEFINE c == count + 1
  <2>1. c \in Nat /\ Resend(j, count, final, limit) = Msg(j, c, "retry")
    BY <1>1 DEF Resend
  <2>. QED
    BY <1>1, <2>1
<1>2. CASE ~(~final /\ count < limit)
  <2>1. Resend(j, count, final, limit) = Msg(j, count, "dead")
    BY <1>2 DEF Resend
  <2>. QED
    BY <2>1
<1>. QED
  BY <1>1, <1>2

LEMMA TypedResend ==
    ASSUME NEW B, Typed(B), NEW j \in Job, NEW count \in Nat, NEW final \in BOOLEAN,
           NEW limit \in Nat
    PROVE  Typed(B (+) Resend(j, count, final, limit))
BY TypedAdded, ResendIs

-----------------------------------------------------------------------------
(* Types *)

LEMMA Types ==
    ASSUME TypeInv
    PROVE  /\ Typed(queue)
           /\ \A j \in Job : job[j] # None =>
                 job[j] \in Data /\ job[j].status \in {"pending", "processing", "completed", "failed"}
                     /\ job[j].runs \in Nat
           /\ \A t \in Thread : worker[t] \in Working \cup {Idle}
           /\ \A i \in Instance : unacked[i] # None =>
                 /\ unacked[i] \in Delivery /\ unacked[i].job \in Job
                 /\ unacked[i].count \in Nat /\ unacked[i].by \in Thread
BY DEF TypeInv, TypeOK, Typed, Data, Delivery

(* A worker thread that has something to do.                                 *)
LEMMA Busy ==
    ASSUME TypeInv, NEW t \in Thread, worker[t].at # "idle"
    PROVE  /\ worker[t] \in Working
           /\ worker[t].at \in {"run", "complete", "periodic", "schedule", "delay", "delaying",
                                "failing", "nack"}
           /\ worker[t].inst \in Instance /\ worker[t].job \in Job /\ worker[t].count \in Nat
           /\ worker[t].runs \in Nat /\ worker[t].out \in Outcome \cup {"error", None}
           /\ worker[t].open \in BOOLEAN
BY Types DEF Working, Idle

LEMMA IdleIs ==
    ASSUME BrokerQueueAssumption
    PROVE  /\ Idle.at = "idle" /\ Idle.inst = None /\ Idle.job = None /\ Idle.open = FALSE
           /\ None \notin Job /\ None \notin Instance
BY DEF Idle, BrokerQueueAssumption

LEMMA IdleOnly ==
    ASSUME TypeInv, BrokerQueueAssumption, NEW t \in Thread
    PROVE  /\ worker[t].at = "idle" => worker[t] = Idle
           /\ worker[t].open => worker[t].at # "idle"
           /\ worker[t].inst \in Instance => worker[t].at # "idle"
           /\ worker[t].job \in Job => worker[t].at # "idle"
<1>1. worker[t] \in Working => worker[t].at # "idle"
  BY DEF Working
<1>. QED
  BY <1>1, Types, IdleIs

(* A worker thread t ends, or goes on as w with the same delivery.           *)
Goes(t, w) ==
    /\ worker' = [worker EXCEPT ![t] = w]
    /\ w \in Working \cup {Idle}
    /\ w # Idle => /\ w.inst = worker[t].inst /\ w.job = worker[t].job
                   /\ w.count = worker[t].count /\ w.open = worker[t].open

LEMMA GoesIs ==
    ASSUME TypeInv, BrokerQueueAssumption, NEW t \in Thread, NEW w, Goes(t, w),
           worker[t].at # "idle"
    PROVE  /\ worker' \in [Thread -> Working \cup {Idle}]
           /\ worker'[t] = w
           /\ \A u \in Thread : u # t => worker'[u] = worker[u]
           /\ \A u \in Thread : worker'[u].open =>
                 worker[u].open /\ worker'[u].inst = worker[u].inst
           /\ \A u \in Thread : worker'[u].at # "idle" =>
                 worker[u].at # "idle" /\ worker'[u].job = worker[u].job
<1>1. worker \in [Thread -> Working \cup {Idle}]
  BY DEF TypeInv, TypeOK
<1>2. /\ worker' \in [Thread -> Working \cup {Idle}]
      /\ worker'[t] = w
      /\ \A u \in Thread : u # t => worker'[u] = worker[u]
  BY <1>1 DEF Goes
<1>3. w.open => worker[t].open /\ w.inst = worker[t].inst
  BY IdleIs DEF Goes
<1>4. w.at # "idle" => w.job = worker[t].job
  BY IdleIs DEF Goes
<1>. QED
  BY <1>2, <1>3, <1>4

(* What a worker thread leaves.                                              *)
LEMMA LeaveIs ==
    ASSUME TypeInv, NEW t \in Thread, worker[t].at # "idle",
           NEW kind \in {"ack", "nack", "settle"}, Leave(t, kind)
    PROVE  \E c \in Settlement :
              /\ c.kind = kind /\ c.by = t /\ c.job = worker[t].job /\ c.count = worker[t].count
              /\ callbacks' = IF worker[t].open
                              THEN [callbacks EXCEPT ![worker[t].inst] = Append(@, c)]
                              ELSE callbacks
<1>. DEFINE c == [kind |-> kind, by |-> t, job |-> worker[t].job, count |-> worker[t].count,
                  final |-> worker[t].out = "noretry"]
<1>1. c \in Settlement
  BY Busy DEF Settlement
<1>2. /\ c.kind = kind /\ c.by = t /\ c.job = worker[t].job /\ c.count = worker[t].count
  OBVIOUS
<1>3. callbacks' = IF worker[t].open
                   THEN [callbacks EXCEPT ![worker[t].inst] = Append(@, c)] ELSE callbacks
  BY DEF Leave
<1>. QED
  BY <1>1, <1>2, <1>3

(* Something more for the I/O thread of an instance.                         *)
LEMMA Appended ==
    ASSUME TypeInv, NEW i \in Instance, NEW c \in Settlement,
           callbacks' = [callbacks EXCEPT ![i] = Append(@, c)]
    PROVE  /\ callbacks' \in [Instance -> Seq(Settlement)]
           /\ \A k \in Instance : k # i => callbacks'[k] = callbacks[k]
           /\ Len(callbacks[i]) \in Nat /\ Len(callbacks'[i]) = Len(callbacks[i]) + 1
           /\ \A n \in 1..Len(callbacks[i]) : callbacks'[i][n] = callbacks[i][n]
           /\ callbacks'[i][Len(callbacks[i]) + 1] = c
<1>1. callbacks \in [Instance -> Seq(Settlement)]
  BY DEF TypeInv, TypeOK
<1>2. callbacks'[i] = Append(callbacks[i], c) /\ callbacks[i] \in Seq(Settlement)
  BY <1>1
<1>3. Append(callbacks[i], c) \in Seq(Settlement)
  BY <1>2
<1>. QED
  BY <1>1, <1>2, <1>3

(* How each step of a worker thread moves it.                                *)
LEMMA GotoGoes ==
    ASSUME TypeInv, NEW t \in Thread, worker[t].at # "idle", NEW at \in {"schedule", "delaying"},
           Goto(t, at)
    PROVE  \E w : Goes(t, w) /\ w.at = at
<1>. DEFINE w == [worker[t] EXCEPT !.at = at]
<1>1. w \in Working /\ w.at = at
  BY Busy DEF Working
<1>2. /\ w.inst = worker[t].inst /\ w.job = worker[t].job
      /\ w.count = worker[t].count /\ w.open = worker[t].open
  BY Busy DEF Working
<1>3. worker' = [worker EXCEPT ![t] = w]
  BY DEF Goto
<1>. HIDE DEF w
<1>. QED
  BY <1>1, <1>2, <1>3 DEF Goes

LEMMA EndsGoes ==
    ASSUME NEW t \in Thread, Ends(t)
    PROVE  Goes(t, Idle)
BY DEF Ends, Goes

LEMMA RaisesGoes ==
    ASSUME TypeInv, NEW t \in Thread, worker[t].at # "idle", Raises(t)
    PROVE  \E w : Goes(t, w) /\ w.at = "failing"
<1>. DEFINE w == [worker[t] EXCEPT !.at = "failing", !.out = "error"]
<1>1. w \in Working /\ w.at = "failing"
  BY Busy DEF Working
<1>2. /\ w.inst = worker[t].inst /\ w.job = worker[t].job
      /\ w.count = worker[t].count /\ w.open = worker[t].open
  BY Busy DEF Working
<1>3. worker' = [worker EXCEPT ![t] = w]
  BY DEF Raises
<1>. HIDE DEF w
<1>. QED
  BY <1>1, <1>2, <1>3 DEF Goes

LEMMA RunGoes ==
    ASSUME TypeInv, BrokerQueueAssumption, NEW t \in Thread, NEW out \in Outcome, Run(t, out)
    PROVE  /\ worker[t].at = "run"
           /\ \E w : /\ Goes(t, w) /\ w.at \in {"complete", "delay", "failing", "nack"}
                     /\ w.at = "failing" <=> out \in {"error", "noretry"}
<1>. DEFINE at == CASE out \in {"ok", "stop"} -> "complete"
                    [] out = "delay" -> "delay"
                    [] out \in {"error", "noretry"} -> "failing"
                    [] out = "abort" -> "nack"
            w == [worker[t] EXCEPT !.out = out, !.at = at]
<1>0. worker[t].at = "run"
  BY DEF Run
<1>1. worker' = [worker EXCEPT ![t] = w]
  BY DEF Run
<1>2. at \in {"complete", "delay", "failing", "nack"} /\ (at = "failing" <=> out \in {"error", "noretry"})
  BY DEF BrokerQueueAssumption
<1>. HIDE DEF at
<1>3. w \in Working /\ w.at = at
  BY <1>0, <1>2, Busy DEF Working
<1>4. /\ w.inst = worker[t].inst /\ w.job = worker[t].job
      /\ w.count = worker[t].count /\ w.open = worker[t].open
  BY <1>0, Busy DEF Working
<1>. HIDE DEF w
<1>. QED
  BY <1>0, <1>1, <1>2, <1>3, <1>4 DEF Goes

LEMMA CompleteGoes ==
    ASSUME TypeInv, BrokerQueueAssumption, NEW t \in Thread, Complete(t)
    PROVE  /\ worker[t].at = "complete"
           /\ \E w : Goes(t, w) /\ (w = Idle \/ w.at \in {"periodic", "failing"})
<1>. DEFINE j == worker[t].job
            w == [worker[t] EXCEPT !.at = "periodic", !.runs = job[j].runs]
<1>1. worker[t].at = "complete" /\ j \in Job /\ job[j] # None
  BY Busy DEF Complete, Readable
<1>2. w \in Working /\ w.at = "periodic"
  BY <1>1, Busy, Types DEF Working
<1>3. /\ w.inst = worker[t].inst /\ w.job = worker[t].job
      /\ w.count = worker[t].count /\ w.open = worker[t].open
  BY <1>1, Busy DEF Working
<1>4. worker' = [worker EXCEPT ![t] = IF j \in Periodic THEN w ELSE Idle] \/ Raises(t)
  BY <1>1 DEF Complete, TypeInv, TypeOK
<1>. HIDE DEF w
<1>5. CASE worker' = [worker EXCEPT ![t] = IF j \in Periodic THEN w ELSE Idle]
  <2>1. CASE j \in Periodic
    BY <1>1, <1>2, <1>3, <1>5, <2>1 DEF Goes
  <2>2. CASE j \notin Periodic
    BY <1>1, <1>5, <2>2 DEF Goes
  <2>. QED
    BY <2>1, <2>2
<1>6. CASE Raises(t)
  BY <1>1, <1>6, RaisesGoes
<1>. QED
  BY <1>4, <1>5, <1>6

(* A step of a worker thread keeps the types and the links.                  *)
LEMMA TypeWork ==
    ASSUME TypeInv, BrokerQueueAssumption, NEW t \in Thread, worker[t].at # "idle",
           NEW w, Goes(t, w),
           callbacks' = callbacks \/ \E kind \in {"ack", "nack", "settle"} : Leave(t, kind),
           job' \in [Job -> Data \cup {None}], Typed(queue'), failures' \in [Job -> Nat],
           torn' \subseteq Job, again' \subseteq Job, faults' \in 0..MaxFaults,
           UNCHANGED <<deleted, client, consumer, unacked>>
    PROVE  TypeInv'
<1>1. /\ worker' \in [Thread -> Working \cup {Idle}]
      /\ \A u \in Thread : worker'[u].open =>
            worker[u].open /\ worker'[u].inst = worker[u].inst
      /\ \A u \in Thread : worker'[u].at # "idle" =>
            worker[u].at # "idle" /\ worker'[u].job = worker[u].job
  BY GoesIs
<1>2. \A u \in Thread : worker'[u].open => consumer'[worker'[u].inst] # "down"
  BY <1>1 DEF TypeInv
<1>3. /\ callbacks' \in [Instance -> Seq(Settlement)]
      /\ \A i \in Instance : consumer'[i] = "down" => unacked'[i] = None /\ callbacks'[i] = <<>>
      /\ \A i \in Instance : unacked[i] # None =>
            \A n \in 1..Len(callbacks'[i]) :
                callbacks'[i][n].by = unacked[i].by => callbacks'[i][n].job = unacked[i].job
  <2>0. /\ callbacks \in [Instance -> Seq(Settlement)]
        /\ \A i \in Instance : consumer[i] = "down" => unacked[i] = None /\ callbacks[i] = <<>>
        /\ \A i \in Instance : unacked[i] # None =>
            \A n \in 1..Len(callbacks[i]) :
                callbacks[i][n].by = unacked[i].by => callbacks[i][n].job = unacked[i].job
    BY DEF TypeInv, TypeOK, Linked
  <2>1. CASE callbacks' = callbacks
    BY <2>0, <2>1
  <2>2. CASE callbacks' # callbacks
    <3>0. PICK kind \in {"ack", "nack", "settle"} : Leave(t, kind)
      BY <2>2
    <3>. DEFINE k == worker[t].inst
    <3>1. PICK c \in Settlement :
              /\ c.by = t /\ c.job = worker[t].job
              /\ callbacks' = IF worker[t].open THEN [callbacks EXCEPT ![k] = Append(@, c)]
                              ELSE callbacks
      BY <3>0, LeaveIs
    <3>2. worker[t].open /\ callbacks' = [callbacks EXCEPT ![k] = Append(@, c)]
      BY <2>2, <3>1
    <3>3. k \in Instance /\ consumer[k] # "down"
      BY <3>2, Busy DEF TypeInv
    <3>4. /\ callbacks' \in [Instance -> Seq(Settlement)]
          /\ \A i \in Instance : i # k => callbacks'[i] = callbacks[i]
          /\ Len(callbacks[k]) \in Nat /\ Len(callbacks'[k]) = Len(callbacks[k]) + 1
          /\ \A n \in 1..Len(callbacks[k]) : callbacks'[k][n] = callbacks[k][n]
          /\ callbacks'[k][Len(callbacks[k]) + 1] = c
      BY <3>2, <3>3, Appended
    <3>5. unacked[k] # None /\ unacked[k].by = t => c.job = unacked[k].job
      BY <3>1, <3>3 DEF TypeInv, Linked
    <3>. HIDE DEF k
    <3>6. ASSUME NEW i \in Instance, unacked[i] # None, NEW n \in 1..Len(callbacks'[i]),
                 callbacks'[i][n].by = unacked[i].by
          PROVE  callbacks'[i][n].job = unacked[i].job
      <4>1. CASE i # k
        BY <2>0, <3>4, <3>6, <4>1
      <4>2. CASE i = k /\ n \in 1..Len(callbacks[k])
        <5>1. callbacks'[k][n] = callbacks[k][n]
          BY <3>4, <4>2
        <5>2. callbacks[k][n].by = unacked[k].by => callbacks[k][n].job = unacked[k].job
          BY <2>0, <3>3, <3>6, <4>2
        <5>. QED
          BY <3>6, <4>2, <5>1, <5>2
      <4>3. CASE i = k /\ n = Len(callbacks[k]) + 1
        BY <3>1, <3>4, <3>5, <3>6, <4>3
      <4>. QED
        BY <3>4, <4>1, <4>2, <4>3
    <3>. QED
      BY <2>0, <3>3, <3>4, <3>6
  <2>. QED
    BY <2>1, <2>2
<1>4. TypeOK'
  BY <1>1, <1>3 DEF TypeInv, TypeOK, Typed, client
<1>5. \A i \in Instance : Linked(i)'
  BY <1>1, <1>3 DEF TypeInv, Linked
<1>. QED
  BY <1>2, <1>4, <1>5 DEF TypeInv

(* What the end of a channel changes.                                        *)
LEMMA CloseIs ==
    ASSUME TypeInv, BrokerQueueAssumption, NEW i \in Instance, NEW q, Typed(q),
           NEW survivors, Close(i, q, survivors)
    PROVE  /\ consumer' = [consumer EXCEPT ![i] = "down"]
           /\ unacked' = [unacked EXCEPT ![i] = None]
           /\ callbacks' = [callbacks EXCEPT ![i] = <<>>]
           /\ unacked[i] = None => queue' = q /\ again' = again
           /\ unacked[i] # None => /\ queue' = q (+) Msg(unacked[i].job, unacked[i].count, "main")
                                   /\ again' = again \cup {unacked[i].job}
           /\ Typed(queue')
           /\ worker' \in [Thread -> Working \cup {Idle}]
           /\ \A t \in Thread :
                 /\ worker'[t].open => worker[t].inst # i /\ worker'[t] = worker[t]
                 /\ worker'[t].at # "idle" =>
                       /\ worker'[t].at = worker[t].at /\ worker'[t].job = worker[t].job
                       /\ worker'[t].count = worker[t].count
                 /\ worker'[t].at = "idle" => worker'[t] = Idle
           /\ \A t \in survivors : t \in Thread => worker'[t].at = worker[t].at
           /\ \A t \in Thread : worker[t].inst # i => worker'[t] = worker[t]
<1>1. /\ consumer' = [consumer EXCEPT ![i] = "down"]
      /\ unacked' = [unacked EXCEPT ![i] = None]
      /\ callbacks' = [callbacks EXCEPT ![i] = <<>>]
      /\ unacked[i] = None => queue' = q /\ again' = again
      /\ unacked[i] # None => /\ queue' = q (+) Msg(unacked[i].job, unacked[i].count, "main")
                              /\ again' = again \cup {unacked[i].job}
  BY DEF Close
<1>2. Typed(queue')
  BY <1>1, Types, TypedAdded
<1>3. ASSUME NEW t \in Thread
      PROVE  /\ worker'[t] \in Working \cup {Idle}
             /\ worker'[t].open => worker[t].inst # i /\ worker'[t] = worker[t]
             /\ worker'[t].at # "idle" =>
                   /\ worker'[t].at = worker[t].at /\ worker'[t].job = worker[t].job
                   /\ worker'[t].count = worker[t].count
             /\ worker'[t].at = "idle" => worker'[t] = Idle
             /\ t \in survivors => worker'[t].at = worker[t].at
             /\ worker[t].inst # i => worker'[t] = worker[t]
  <2>0. worker'[t] = IF worker[t].inst # i THEN worker[t]
                     ELSE IF t \in survivors THEN [worker[t] EXCEPT !.open = FALSE] ELSE Idle
    BY DEF Close
  <2>1. worker[t] \in Working \cup {Idle} /\ (worker[t].at = "idle" => worker[t] = Idle)
    BY Types, IdleOnly
  <2>2. CASE worker[t].inst # i
    BY <2>0, <2>1, <2>2
  <2>3. CASE worker[t].inst = i
    <3>1. worker[t] \in Working /\ worker[t].at # "idle"
      BY <2>1, <2>3, IdleIs, Busy
    <3>2. CASE t \in survivors
      <4>. DEFINE w == [worker[t] EXCEPT !.open = FALSE]
      <4>1. w \in Working /\ w.open = FALSE /\ w.at = worker[t].at /\ w.job = worker[t].job
            /\ w.count = worker[t].count
        BY <3>1 DEF Working
      <4>2. worker'[t] = w
        BY <2>0, <2>3, <3>2
      <4>. HIDE DEF w
      <4>. QED
        BY <2>3, <3>1, <4>1, <4>2
    <3>3. CASE t \notin survivors
      BY <2>0, <2>3, <3>3, IdleIs
    <3>. QED
      BY <3>2, <3>3
  <2>. QED
    BY <2>2, <2>3
<1>4. worker' = [t \in Thread |-> worker'[t]]
  BY DEF Close
<1>5. worker' \in [Thread -> Working \cup {Idle}]
  BY <1>3, <1>4
<1>. QED
  BY <1>1, <1>2, <1>3, <1>5

(* It keeps the types and the links.                                         *)
LEMMA TypeClose ==
    ASSUME TypeInv, BrokerQueueAssumption, NEW i \in Instance, NEW q, Typed(q),
           NEW survivors, Close(i, q, survivors), torn' \subseteq Job, faults' \in 0..MaxFaults,
           UNCHANGED <<store, client, failures>>
    PROVE  TypeInv'
<1>1. /\ consumer' = [consumer EXCEPT ![i] = "down"]
      /\ unacked' = [unacked EXCEPT ![i] = None]
      /\ callbacks' = [callbacks EXCEPT ![i] = <<>>]
      /\ again' \in {again, again \cup {unacked[i].job}}
      /\ unacked[i] = None => again' = again
      /\ Typed(queue')
      /\ worker' \in [Thread -> Working \cup {Idle}]
      /\ \A t \in Thread :
                 /\ worker'[t].open => worker[t].inst # i /\ worker'[t] = worker[t]
                 /\ worker'[t].at # "idle" =>
                       worker'[t].at = worker[t].at /\ worker'[t].job = worker[t].job
  BY CloseIs
<1>2. again' \subseteq Job
  <2>1. again \subseteq Job
    BY DEF TypeInv, TypeOK
  <2>2. unacked[i] # None => unacked[i].job \in Job
    BY Types
  <2>. QED
    BY <1>1, <2>1, <2>2
<1>3. /\ callbacks \in [Instance -> Seq(Settlement)]
      /\ unacked \in [Instance -> Delivery \cup {None}]
      /\ consumer \in [Instance -> {"down", "on", "stopping"}]
  BY DEF TypeInv, TypeOK
<1>4. /\ callbacks'[i] = <<>> /\ unacked'[i] = None /\ consumer'[i] = "down"
      /\ \A k \in Instance : k # i => /\ callbacks'[k] = callbacks[k]
                                      /\ unacked'[k] = unacked[k]
                                      /\ consumer'[k] = consumer[k]
      /\ callbacks' \in [Instance -> Seq(Settlement)]
      /\ unacked' \in [Instance -> Delivery \cup {None}]
      /\ consumer' \in [Instance -> {"down", "on", "stopping"}]
  BY <1>1, <1>3
<1>5. TypeOK'
  BY <1>1, <1>2, <1>4 DEF TypeInv, TypeOK, Typed, store, client
<1>6. \A k \in Instance : Linked(k)'
  BY <1>1, <1>4 DEF TypeInv, Linked
<1>7. \A t \in Thread : worker'[t].open => consumer'[worker'[t].inst] # "down"
  <2>. SUFFICES ASSUME NEW t \in Thread, worker'[t].open
                PROVE  consumer'[worker'[t].inst] # "down"
    OBVIOUS
  <2>1. worker'[t] = worker[t] /\ worker[t].inst # i /\ worker[t].inst \in Instance
    BY <1>1, Busy, IdleOnly
  <2>. QED
    BY <1>4, <2>1 DEF TypeInv
<1>. QED
  BY <1>5, <1>6, <1>7 DEF TypeInv

LEMMA FirstFree ==
    ASSUME BrokerQueueAssumption, FreeThreads # {}
    PROVE  (CHOOSE u \in FreeThreads : \A v \in FreeThreads : u <= v) \in FreeThreads
<1>1. FreeThreads \subseteq Nat
  BY DEF FreeThreads, Thread
<1>2. PICK n \in FreeThreads : \A k \in FreeThreads : ~(<<k, n>> \in OpToRel(<, Nat))
  BY <1>1, NatLessThanWellFounded, WFMin
<1>3. ASSUME NEW v \in FreeThreads PROVE n <= v
  <2>1. v \in Nat /\ n \in Nat
    BY <1>1
  <2>2. ~(v < n)
    BY <1>2, <2>1 DEF OpToRel
  <2>. QED
    BY <2>1, <2>2
<1>. QED
  BY <1>3

(* A delivery, to a thread that nothing names.                               *)
LEMMA DeliverIs ==
    ASSUME TypeInv, BrokerQueueAssumption, NEW i \in Instance, NEW m \in BagToSet(queue),
           Deliver(i, m)
    PROVE  \E t \in Thread : \E d \in Delivery : \E w \in Working :
              /\ worker[t].at = "idle"
              /\ \A k \in Instance :
                    /\ unacked[k] # None => unacked[k].by # t
                    /\ \A n \in 1..Len(callbacks[k]) : callbacks[k][n].by # t
              /\ consumer[i] = "on" /\ unacked[i] = None
              /\ m \in Message /\ m.at = "main" /\ Readable(m.job)
              /\ queue' = queue (-) SetToBag({m})
              /\ job' = [job EXCEPT ![m.job] = [status |-> "processing", runs |-> job[m.job].runs]]
              /\ d.job = m.job /\ d.by = t
              /\ unacked' = [unacked EXCEPT ![i] = d]
              /\ w.at = "run" /\ w.inst = i /\ w.job = m.job /\ w.count = m.count /\ w.open
              /\ worker' = [worker EXCEPT ![t] = w]
              /\ UNCHANGED <<deleted, client, consumer, callbacks, history, faults>>
<1>1. PICK t \in FreeThreads :
            t = CHOOSE u \in FreeThreads : \A v \in FreeThreads : u <= v
  BY FirstFree DEF Deliver
<1>. DEFINE d == [job |-> m.job, count |-> m.count, by |-> t]
            w == [Idle EXCEPT !.at = "run", !.inst = i, !.job = m.job, !.count = m.count,
                              !.open = TRUE]
<1>2. m \in Message /\ m.job \in Job /\ m.count \in Nat
  BY Types DEF Typed, Message
<1>3. t \in Thread
  BY DEF FreeThreads
<1>4. d \in Delivery /\ d.job = m.job /\ d.by = t
  BY <1>2, <1>3 DEF Delivery
<1>5. w \in Working /\ w.at = "run" /\ w.inst = i /\ w.job = m.job /\ w.count = m.count /\ w.open
  BY <1>2 DEF Working, Idle
<1>6. unacked' = [unacked EXCEPT ![i] = d] /\ worker' = [worker EXCEPT ![t] = w]
  BY <1>1 DEF Deliver
<1>. HIDE DEF d, w
<1>7. /\ worker[t].at = "idle"
      /\ \A k \in Instance :
            /\ unacked[k] # None => unacked[k].by # t
            /\ \A n \in 1..Len(callbacks[k]) : callbacks[k][n].by # t
  BY DEF FreeThreads
<1>8. /\ consumer[i] = "on" /\ unacked[i] = None
      /\ m.at = "main" /\ Readable(m.job)
      /\ queue' = queue (-) SetToBag({m})
      /\ job' = [job EXCEPT ![m.job] = [status |-> "processing", runs |-> job[m.job].runs]]
      /\ UNCHANGED <<deleted, client, consumer, callbacks, history, faults>>
  BY DEF Deliver, Save
<1>. QED
  BY <1>2, <1>3, <1>4, <1>5, <1>6, <1>7, <1>8

LEMMA TypeDeliver ==
    ASSUME TypeInv, BrokerQueueAssumption, NEW i \in Instance, NEW m \in BagToSet(queue),
           Deliver(i, m)
    PROVE  TypeInv'
<1>1. PICK t \in Thread, d \in Delivery, w \in Working :
              /\ worker[t].at = "idle"
              /\ \A k \in Instance :
                    /\ unacked[k] # None => unacked[k].by # t
                    /\ \A n \in 1..Len(callbacks[k]) : callbacks[k][n].by # t
              /\ consumer[i] = "on" /\ unacked[i] = None
              /\ m \in Message /\ m.at = "main" /\ Readable(m.job)
              /\ queue' = queue (-) SetToBag({m})
              /\ job' = [job EXCEPT ![m.job] = [status |-> "processing", runs |-> job[m.job].runs]]
              /\ d.job = m.job /\ d.by = t
              /\ unacked' = [unacked EXCEPT ![i] = d]
              /\ w.at = "run" /\ w.inst = i /\ w.job = m.job /\ w.count = m.count /\ w.open
              /\ worker' = [worker EXCEPT ![t] = w]
              /\ UNCHANGED <<deleted, client, consumer, callbacks, history, faults>>
  BY DeliverIs
<1>2. Typed(queue')
  BY <1>1, Types, TypedRemoved
<1>3. job' \in [Job -> Data \cup {None}]
  <2>1. m.job \in Job /\ job[m.job].runs \in Nat
    BY <1>1, Types DEF Message, Readable
  <2>2. [status |-> "processing", runs |-> job[m.job].runs] \in Data
    BY <2>1 DEF Data
  <2>. QED
    BY <1>1, <2>1, <2>2 DEF TypeInv, TypeOK
<1>4. /\ worker' \in [Thread -> Working \cup {Idle}] /\ worker'[t] = w
      /\ \A u \in Thread : u # t => worker'[u] = worker[u]
      /\ unacked' \in [Instance -> Delivery \cup {None}] /\ unacked'[i] = d
      /\ \A k \in Instance : k # i => unacked'[k] = unacked[k]
  BY <1>1 DEF TypeInv, TypeOK
<1>5. TypeOK'
  BY <1>1, <1>2, <1>3, <1>4 DEF TypeInv, TypeOK, Typed, client, history
<1>6. ASSUME NEW k \in Instance PROVE Linked(k)'
  <2>1. CASE k = i
    BY <1>1, <1>4, <2>1 DEF TypeInv, Linked
  <2>2. CASE k # i
    BY <1>1, <1>4, <2>2 DEF TypeInv, Linked
  <2>. QED
    BY <2>1, <2>2
<1>7. \A u \in Thread : worker'[u].open => consumer'[worker'[u].inst] # "down"
  BY <1>1, <1>4 DEF TypeInv
<1>. QED
  BY <1>5, <1>6, <1>7 DEF TypeInv

(* A callback: it settles the delivery, or ends the channel.                 *)
LEMMA CallbackIs ==
    ASSUME TypeInv, NEW i \in Instance, Callback(i)
    PROVE  LET c == callbacks[i][1] IN
           /\ c \in Settlement /\ callbacks[i] # <<>> /\ 1 \in 1..Len(callbacks[i])
           /\ \/ /\ unacked[i] # None /\ unacked[i].by = c.by
                 /\ queue' = Published(c) (+) Requeued(c)
                 /\ unacked' = [unacked EXCEPT ![i] = None]
                 /\ callbacks' = [callbacks EXCEPT ![i] = Tail(@)]
                 /\ UNCHANGED <<consumer, worker, again>>
              \/ /\ ~(unacked[i] # None /\ unacked[i].by = c.by)
                 /\ Close(i, Published(c), Thread)
           /\ UNCHANGED <<store, client, failures, torn, faults>>
<1>1. callbacks[i] # <<>> /\ callbacks[i] \in Seq(Settlement)
  BY DEF Callback, TypeInv, TypeOK
<1>2. Len(callbacks[i]) \in Nat /\ Len(callbacks[i]) # 0
  BY <1>1
<1>3. callbacks[i][1] \in Settlement /\ 1 \in 1..Len(callbacks[i])
  BY <1>1, <1>2
<1>4. Head(callbacks[i]) = callbacks[i][1]
  BY <1>1
<1>. QED
  BY <1>1, <1>3, <1>4 DEF Callback

LEMMA SettlementIs ==
    ASSUME NEW c \in Settlement
    PROVE  /\ c.kind \in {"ack", "nack", "settle"} /\ c.by \in Thread /\ c.job \in Job
           /\ c.count \in Nat /\ c.final \in BOOLEAN
BY DEF Settlement

LEMMA TypedPublished ==
    ASSUME TypeInv, BrokerQueueAssumption, NEW c \in Settlement
    PROVE  Typed(Published(c))
BY SettlementIs, Types, TypedResend DEF Published, BrokerQueueAssumption

LEMMA TypedRequeued ==
    ASSUME NEW c \in Settlement, NEW B, Typed(B)
    PROVE  Typed(B (+) Requeued(c))
<1>1. CASE c.kind = "nack"
  BY <1>1, SettlementIs, TypedAdded DEF Requeued
<1>2. CASE c.kind # "nack"
  BY <1>2, AddedNothing DEF Requeued, Typed
<1>. QED
  BY <1>1, <1>2

LEMMA TailIs ==
    ASSUME TypeInv, NEW i \in Instance, callbacks[i] # <<>>,
           callbacks' = [callbacks EXCEPT ![i] = Tail(@)]
    PROVE  /\ callbacks' \in [Instance -> Seq(Settlement)]
           /\ \A k \in Instance : k # i => callbacks'[k] = callbacks[k]
           /\ \A n \in 1..Len(callbacks'[i]) :
                 n + 1 \in 1..Len(callbacks[i]) /\ callbacks'[i][n] = callbacks[i][n + 1]
<1>1. callbacks \in [Instance -> Seq(Settlement)]
  BY DEF TypeInv, TypeOK
<1>2. callbacks[i] \in Seq(Settlement) /\ callbacks'[i] = Tail(callbacks[i])
  BY <1>1
<1>3. Tail(callbacks[i]) \in Seq(Settlement) /\ Len(Tail(callbacks[i])) = Len(callbacks[i]) - 1
      /\ Len(callbacks[i]) \in Nat
  BY <1>2
<1>4. \A n \in 1..Len(Tail(callbacks[i])) : Tail(callbacks[i])[n] = callbacks[i][n + 1]
  BY <1>2, <1>3
<1>. QED
  BY <1>1, <1>2, <1>3, <1>4

LEMMA TypeInit ==
    ASSUME BrokerQueueAssumption, NoneAssumption, Init
    PROVE  TypeInv
<1>1. Typed(EmptyBag)
  BY DEF Typed, IsABag, EmptyBag, SetToBag, BagToSet
<1>2. <<>> \in Seq(Settlement)
  OBVIOUS
<1>3. TypeOK
  BY <1>1, <1>2 DEF Init, TypeOK, Typed, BrokerQueueAssumption
<1>4. \A t \in Thread : ~worker[t].open
  BY IdleIs DEF Init
<1>. QED
  BY <1>3, <1>4 DEF Init, TypeInv, Linked

LEMMA Saved ==
    ASSUME TypeInv, NEW j \in Job, NEW runs \in Nat,
           NEW status \in {"pending", "processing", "completed", "failed"}, Save(j, status, runs)
    PROVE  /\ job' \in [Job -> Data \cup {None}]
           /\ job'[j] # None /\ job'[j].status = status
           /\ \A k \in Job : k # j => job'[k] = job[k]
<1>. DEFINE d == [status |-> status, runs |-> runs]
<1>1. d \in Data /\ d.status = status /\ d # None
  BY NoneAssumption DEF Data
<1>. HIDE DEF d
<1>2. job' = [job EXCEPT ![j] = d]
  BY DEF Save, d
<1>3. job \in [Job -> Data \cup {None}]
  BY DEF TypeInv, TypeOK
<1>4. job'[j] = d /\ \A k \in Job : k # j => job'[k] = job[k]
  BY <1>2, <1>3
<1>. QED
  BY <1>1, <1>2, <1>3, <1>4

(* Requests, the broker and recovery leave instances and threads alone.      *)
LEMMA TypeStore ==
    ASSUME TypeInv, job' \in [Job -> Data \cup {None}], deleted' \subseteq Job,
           request' \subseteq Job, Typed(queue'), failures' \in [Job -> Nat], torn' \subseteq Job,
           again' \subseteq Job, faults' \in 0..MaxFaults, requests' \in 0..MaxRequests,
           UNCHANGED <<consumer, unacked, callbacks, worker>>
    PROVE  TypeInv'
<1>1. TypeOK'
  BY DEF TypeInv, TypeOK, Typed
<1>2. \A i \in Instance : Linked(i)'
  BY DEF TypeInv, Linked
<1>. QED
  BY <1>1, <1>2 DEF TypeInv

LEMMA TypeJobs ==
    ASSUME TypeInv, BrokerQueueAssumption, NEW j \in Job,
           \/ Create(j) \/ Put(j) \/ PutFails(j) \/ Rerun(j)
           \/ Delete(j) \/ Restore(j) \/ Recover(j)
           \/ \E m \in Waiting(j) : Expire(m)
    PROVE  TypeInv'
<1>0. /\ job \in [Job -> Data \cup {None}] /\ deleted \subseteq Job
      /\ request \subseteq Job /\ Typed(queue) /\ failures \in [Job -> Nat] /\ torn \subseteq Job
      /\ again \subseteq Job /\ faults \in 0..MaxFaults /\ requests \in 0..MaxRequests
      /\ MaxFaults \in Nat /\ MaxRequests \in Nat
      /\ \A k \in Job : Readable(k) => job[k].runs \in Nat
  BY Types DEF TypeInv, TypeOK, Readable, BrokerQueueAssumption
<1>1. CASE Create(j)
  <2>1. job' \in [Job -> Data \cup {None}]
    BY <1>1, Saved DEF Create
  <2>. QED
    BY <1>0, <1>1, <2>1, TypeStore DEF Create, history
<1>2. CASE Put(j)
  <2>1. Typed(queue') /\ failures' \in [Job -> Nat] /\ torn' \subseteq Job
    <3>. DEFINE at == IF j \in Delayed /\ job[j].runs = 0 THEN "periodic" ELSE "main"
    <3>1. at \in {"periodic", "main"}
      OBVIOUS
    <3>2. /\ queue' \in {queue, queue (+) Msg(j, 0, at)}
          /\ failures' \in {failures, [failures EXCEPT ![j] = 0]}
          /\ torn' \in {torn, torn \cup {j}}
      BY <1>2 DEF Put, Publish
    <3>. HIDE DEF at
    <3>3. Typed(queue (+) Msg(j, 0, at))
      BY <1>0, <3>1, TypedAdded
    <3>. QED
      BY <1>0, <3>2, <3>3
  <2>. QED
    BY <1>0, <1>2, <2>1, TypeStore DEF Put, store
<1>3. CASE PutFails(j)
  BY <1>0, <1>3, TypeStore DEF PutFails, store
<1>4. CASE Rerun(j)
  <2>1. job' \in [Job -> Data \cup {None}]
    BY <1>0, <1>4, Saved DEF Rerun
  <2>. QED
    BY <1>0, <1>4, <2>1, TypeStore DEF Rerun
<1>5. CASE Delete(j)
  BY <1>0, <1>5, TypeStore DEF Delete, history
<1>6. CASE Restore(j)
  BY <1>0, <1>6, TypeStore DEF Restore, history, client
<1>7. CASE Recover(j)
  <2>1. job' \in [Job -> Data \cup {None}]
    BY <1>0, <1>7, Saved DEF Recover
  <2>. QED
    BY <1>0, <1>7, <2>1, TypeStore DEF Recover, history, client
<1>8. ASSUME NEW m \in Waiting(j), Expire(m) PROVE TypeInv'
  <2>1. m \in BagToSet(queue) /\ m.job \in Job /\ m.count \in Nat
    BY <1>0 DEF Waiting, Typed, Message
  <2>2. Typed(queue (-) SetToBag({m}))
    BY <1>0, <2>1, TypedRemoved
  <2>3. Typed(queue')
    BY <1>8, <2>1, <2>2, TypedAdded DEF Expire
  <2>. QED
    BY <1>0, <1>8, <2>3, TypeStore DEF Expire, history, client, store
<1>. QED
  BY <1>1, <1>2, <1>3, <1>4, <1>5, <1>6, <1>7, <1>8

LEMMA TypeReceive ==
    ASSUME TypeInv, BrokerQueueAssumption, NEW j \in Job, Receive(j)
    PROVE  TypeInv'
<1>1. PICK i \in Instance, m \in Waiting(j) : Deliver(i, m) \/ Refuse(i, m)
  BY DEF Receive
<1>2. m \in BagToSet(queue) /\ m.job \in Job /\ m.count \in Nat
  BY Types DEF Waiting, Typed, Message
<1>3. CASE Deliver(i, m)
  BY <1>2, <1>3, TypeDeliver
<1>4. CASE Refuse(i, m)
  <2>1. Typed(queue (-) SetToBag({m}))
    BY <1>2, Types, TypedRemoved
  <2>2. Typed(queue')
    BY <1>2, <1>4, <2>1, TypedResend DEF Refuse, BrokerQueueAssumption
  <2>. QED
    BY <1>2, <1>4, <2>2, TypeStore DEF Refuse, TypeInv, TypeOK, store, client
<1>. QED
  BY <1>1, <1>3, <1>4

LEMMA TypeInstance ==
    ASSUME TypeInv, BrokerQueueAssumption, NEW i \in Instance,
           \/ Start(i) \/ Callback(i) \/ LoseConnection(i) \/ Crash(i) \/ Stop(i) \/ Stopped(i)
    PROVE  TypeInv'
<1>0. /\ Typed(queue) /\ torn \subseteq Job /\ faults \in 0..MaxFaults /\ MaxFaults \in Nat
      /\ consumer \in [Instance -> {"down", "on", "stopping"}]
      /\ callbacks \in [Instance -> Seq(Settlement)]
  BY Types DEF TypeInv, TypeOK, BrokerQueueAssumption
<1>1. CASE Start(i) \/ Stop(i)
  <2>1. /\ consumer' \in [Instance -> {"down", "on", "stopping"}]
        /\ consumer'[i] # "down" /\ \A k \in Instance : k # i => consumer'[k] = consumer[k]
        /\ faults' \in 0..MaxFaults
        /\ UNCHANGED <<store, client, queue, unacked, callbacks, worker, history>>
    BY <1>0, <1>1 DEF Start, Stop
  <2>2. TypeOK'
    BY <2>1 DEF TypeInv, TypeOK, store, client, history
  <2>3. \A k \in Instance : Linked(k)'
    BY <2>1 DEF TypeInv, Linked
  <2>4. \A t \in Thread : worker'[t].open => consumer'[worker'[t].inst] # "down"
    <3>. SUFFICES ASSUME NEW t \in Thread, worker'[t].open
                  PROVE  consumer'[worker'[t].inst] # "down"
      OBVIOUS
    <3>1. worker'[t] = worker[t] /\ worker[t].inst \in Instance
      BY <2>1, IdleOnly, Busy
    <3>. QED
      BY <2>1, <3>1 DEF TypeInv
  <2>. QED
    BY <2>2, <2>3, <2>4 DEF TypeInv
<1>2. CASE Callback(i)
  <2>. DEFINE c == callbacks[i][1]
  <2>1. /\ c \in Settlement /\ callbacks[i] # <<>>
        /\ \/ /\ unacked[i] # None /\ unacked[i].by = c.by
              /\ queue' = Published(c) (+) Requeued(c)
              /\ unacked' = [unacked EXCEPT ![i] = None]
              /\ callbacks' = [callbacks EXCEPT ![i] = Tail(@)]
              /\ UNCHANGED <<consumer, worker, again>>
           \/ Close(i, Published(c), Thread)
        /\ UNCHANGED <<store, client, failures, torn, faults>>
    BY <1>2, CallbackIs
  <2>2. Typed(Published(c))
    BY <2>1, TypedPublished
  <2>3. CASE Close(i, Published(c), Thread)
    BY <1>0, <2>1, <2>2, <2>3, TypeClose
  <2>4. CASE /\ queue' = Published(c) (+) Requeued(c)
             /\ unacked' = [unacked EXCEPT ![i] = None]
             /\ callbacks' = [callbacks EXCEPT ![i] = Tail(@)]
             /\ UNCHANGED <<consumer, worker, again>>
    <3>1. Typed(queue')
      BY <2>1, <2>2, <2>4, TypedRequeued
    <3>2. /\ callbacks' \in [Instance -> Seq(Settlement)]
          /\ \A k \in Instance : k # i => callbacks'[k] = callbacks[k]
      BY <2>1, <2>4, TailIs
    <3>3. /\ unacked' \in [Instance -> Delivery \cup {None}] /\ unacked'[i] = None
          /\ \A k \in Instance : k # i => unacked'[k] = unacked[k]
      BY <2>4 DEF TypeInv, TypeOK
    <3>4. consumer[i] # "down"
      BY <1>2 DEF Callback
    <3>5. TypeOK'
      BY <2>1, <2>4, <3>1, <3>2, <3>3, <3>4 DEF TypeInv, TypeOK, Typed, store, client
    <3>6. \A k \in Instance : Linked(k)'
      BY <2>4, <3>2, <3>3 DEF TypeInv, Linked
    <3>. QED
      BY <2>4, <3>5, <3>6 DEF TypeInv
  <2>. QED
    BY <2>1, <2>3, <2>4
<1>3. CASE LoseConnection(i)
  <2>1. faults' \in 0..MaxFaults /\ torn' \subseteq Job /\ UNCHANGED <<store, client, failures>>
    BY <1>0, <1>3 DEF LoseConnection
  <2>2. CASE Close(i, queue, Thread)
    BY <1>0, <2>1, <2>2, TypeClose
  <2>3. CASE callbacks[i] # <<>> /\ Close(i, Published(Head(callbacks[i])), Thread)
    <3>1. Head(callbacks[i]) \in Settlement
      BY <1>0, <2>3
    <3>2. Typed(Published(Head(callbacks[i])))
      BY <3>1, TypedPublished
    <3>. QED
      BY <2>1, <2>3, <3>2, TypeClose
  <2>. QED
    BY <1>3, <2>2, <2>3 DEF LoseConnection
<1>4. CASE Crash(i)
  <2>1. {worker[t].job : t \in {u \in Thread : worker[u].inst = i /\ worker[u].at = "delaying"}}
            \subseteq Job
    BY Busy
  <2>2. faults' \in 0..MaxFaults /\ torn' \subseteq Job /\ UNCHANGED <<store, client, failures>>
    BY <1>0, <1>4, <2>1 DEF Crash
  <2>. QED
    BY <1>0, <1>4, <2>2, TypeClose DEF Crash
<1>5. CASE Stopped(i)
  BY <1>0, <1>5, TypeClose DEF Stopped
<1>. QED
  BY <1>1, <1>2, <1>3, <1>4, <1>5

LEMMA TypeWorker ==
    ASSUME TypeInv, BrokerQueueAssumption, NEW t \in Thread, Work(t) \/ ScheduleFails(t)
    PROVE  TypeInv'
<1>. DEFINE j == worker[t].job
<1>0. /\ job \in [Job -> Data \cup {None}] /\ Typed(queue)
      /\ failures \in [Job -> Nat] /\ torn \subseteq Job
      /\ again \subseteq Job /\ faults \in 0..MaxFaults /\ MaxFaults \in Nat
      /\ \A k \in Job : Readable(k) => job[k].runs \in Nat
  BY Types DEF TypeInv, TypeOK, Readable, BrokerQueueAssumption
<1>1. ASSUME NEW out \in Outcome, Run(t, out) PROVE TypeInv'
  <2>1. worker[t].at = "run" /\ \E w : Goes(t, w)
    BY <1>1, RunGoes
  <2>2. j \in Job
    BY <2>1, Busy
  <2>3. failures' \in [Job -> Nat]
    BY <1>0, <1>1, <2>2 DEF Run
  <2>. QED
    BY <1>0, <1>1, <2>1, <2>3, TypeWork DEF Run, store
<1>2. CASE Complete(t)
  <2>1. worker[t].at = "complete" /\ \E w : Goes(t, w)
    BY <1>2, CompleteGoes
  <2>2. j \in Job /\ Readable(j) /\ job[j].runs \in Nat /\ Save(j, "completed", job[j].runs)
    BY <1>0, <1>2, <2>1, Busy DEF Complete
  <2>3. job' \in [Job -> Data \cup {None}]
    BY <2>2, Saved
  <2>4. callbacks' = callbacks \/ Leave(t, "ack")
    BY <1>2 DEF Complete
  <2>. QED
    BY <1>0, <1>2, <2>1, <2>3, <2>4, TypeWork DEF Complete, history
<1>3. CASE SaveFails(t)
  <2>1. worker[t].at # "idle" /\ \E w : Goes(t, w)
    BY <1>3, RaisesGoes DEF SaveFails
  <2>. QED
    BY <1>0, <1>3, <2>1, TypeWork DEF SaveFails, history, store
<1>4. CASE CountRun(t)
  <2>1. worker[t].at = "periodic" /\ \E w : Goes(t, w)
    BY <1>4, GotoGoes, EndsGoes DEF CountRun
  <2>2. worker[t].runs + 1 \in Nat /\ j \in Job
    BY <2>1, Busy
  <2>3. Save(j, "completed", worker[t].runs + 1)
    BY <1>4 DEF CountRun
  <2>4. job' \in [Job -> Data \cup {None}]
    BY <2>2, <2>3, Saved
  <2>. QED
    BY <1>0, <1>4, <2>1, <2>4, TypeWork DEF CountRun, history
<1>5. CASE DelayAck(t)
  <2>1. worker[t].at = "delay" /\ \E w : Goes(t, w)
    BY <1>5, GotoGoes, EndsGoes DEF DelayAck
  <2>. QED
    BY <1>0, <1>5, <2>1, TypeWork DEF DelayAck, history, store
<1>6. CASE DelaySave(t)
  <2>1. worker[t].at = "delaying" /\ \E w : Goes(t, w)
    BY <1>6, GotoGoes, EndsGoes DEF DelaySave
  <2>2. j \in Job
    BY <2>1, Busy
  <2>3. job' \in [Job -> Data \cup {None}] /\ torn' \subseteq Job
    BY <1>0, <1>6, <2>2, Saved DEF DelaySave
  <2>. QED
    BY <1>0, <1>6, <2>1, <2>3, TypeWork DEF DelaySave
<1>7. CASE Schedule(t)
  <2>1. worker[t].at = "schedule" /\ \E w : Goes(t, w)
    BY <1>7, EndsGoes DEF Schedule
  <2>2. j \in Job
    BY <2>1, Busy
  <2>3. Typed(queue') /\ failures' \in [Job -> Nat]
    BY <1>0, <1>7, <2>2, TypedAdded DEF Schedule, Publish
  <2>. QED
    BY <1>0, <1>7, <2>1, <2>3, TypeWork DEF Schedule, store
<1>8. CASE ScheduleFails(t)
  <2>1. worker[t].at = "schedule" /\ \E w : Goes(t, w)
    BY <1>8, EndsGoes, RaisesGoes DEF ScheduleFails
  <2>2. j \in Job
    BY <2>1, Busy
  <2>3. Typed(queue') /\ again' \subseteq Job /\ faults' \in 0..MaxFaults
    BY <1>0, <1>8, <2>2, TypedAdded DEF ScheduleFails, Publish
  <2>. QED
    BY <1>0, <1>8, <2>1, <2>3, TypeWork DEF ScheduleFails, store
<1>9. CASE Fail(t)
  <2>1. worker[t].at = "failing" /\ Goes(t, Idle)
    BY <1>9, EndsGoes DEF Fail
  <2>2. j \in Job
    BY <2>1, Busy
  <2>3. job' \in [Job -> Data \cup {None}] /\ torn' \subseteq Job
    <3>1. CASE Readable(j)
      <4>1. Save(j, "failed", job[j].runs) /\ torn' = torn /\ job[j].runs \in Nat
        BY <1>0, <1>9, <2>2, <3>1 DEF Fail
      <4>. QED
        BY <1>0, <2>2, <4>1, Saved
    <3>2. CASE ~Readable(j)
      BY <1>0, <1>9, <2>2, <3>2 DEF Fail
    <3>. QED
      BY <3>1, <3>2
  <2>. QED
    BY <1>0, <1>9, <2>1, <2>3, TypeWork DEF Fail
<1>10. CASE Abort(t)
  <2>1. worker[t].at = "nack" /\ Goes(t, Idle)
    BY <1>10, EndsGoes DEF Abort
  <2>. QED
    BY <1>0, <1>10, <2>1, TypeWork DEF Abort, history, store
<1>. QED
  BY <1>1, <1>2, <1>3, <1>4, <1>5, <1>6, <1>7, <1>8, <1>9, <1>10 DEF Work

LEMMA TypeStep ==
    ASSUME TypeInv, BrokerQueueAssumption, [Next]_vars
    PROVE  TypeInv'
<1>1. CASE Next
  <2>1. ASSUME NEW j \in Job,
               \/ Create(j) \/ Put(j) \/ PutFails(j) \/ Rerun(j)
               \/ Delete(j) \/ Restore(j) \/ Recover(j) \/ Receive(j)
               \/ \E m \in Waiting(j) : Expire(m)
        PROVE  TypeInv'
    BY <2>1, TypeJobs, TypeReceive
  <2>2. ASSUME NEW i \in Instance,
               \/ Start(i) \/ Callback(i) \/ LoseConnection(i) \/ Crash(i) \/ Stop(i) \/ Stopped(i)
        PROVE  TypeInv'
    BY <2>2, TypeInstance
  <2>3. ASSUME NEW t \in Thread, Work(t) \/ ScheduleFails(t) PROVE TypeInv'
    BY <2>3, TypeWorker
  <2>. QED
    BY <1>1, <2>1, <2>2, <2>3 DEF Next
<1>2. CASE UNCHANGED vars
  <2>1. UNCHANGED <<job, deleted, request, requests, queue, consumer, unacked, callbacks, worker,
                    failures, torn, again, faults>>
    BY <1>2 DEF vars, store, client, history
  <2>2. TypeOK'
    BY <2>1 DEF TypeInv, TypeOK
  <2>3. \A i \in Instance : Linked(i)'
    BY <2>1 DEF TypeInv, Linked
  <2>. QED
    BY <2>1, <2>2, <2>3 DEF TypeInv
<1>. QED
  BY <1>1, <1>2

LEMMA TypeHolds == Spec => []TypeInv
<1>1. Init => TypeInv
  BY TypeInit, BrokerQueueAssumption, NoneAssumption
<1>2. TypeInv /\ [Next]_vars => TypeInv'
  BY TypeStep, BrokerQueueAssumption
<1>. QED
  BY <1>1, <1>2, PTL DEF Spec

(* Every variable keeps its type, a channel that is down holds no delivery   *)
(* and no callback, and the callbacks and the thread of a delivery are about *)
(* its job.                                                                  *)
THEOREM TypeCorrect == Spec => []TypeOK
<1>1. TypeInv => TypeOK
  BY DEF TypeInv
<1>. QED
  BY <1>1, TypeHolds, PTL

-----------------------------------------------------------------------------
(* Messages of a job *)

On(B, k) == {m \in BagToSet(B) : m.job = k /\ m.at # "dead"}

Mail(j, c, a) == [job |-> j, count |-> c, at |-> a]

LEMMA MailIs ==
    ASSUME NEW j, NEW c, NEW a
    PROVE  /\ Msg(j, c, a) = SetToBag({Mail(j, c, a)})
           /\ Mail(j, c, a).job = j /\ Mail(j, c, a).count = c /\ Mail(j, c, a).at = a
BY DEF Mail, Msg

LEMMA OnAdded ==
    ASSUME NEW B, IsABag(B), NEW m, NEW k
    PROVE  On(B (+) SetToBag({m}), k) =
              IF m.job = k /\ m.at # "dead" THEN On(B, k) \cup {m} ELSE On(B, k)
<1>1. BagToSet(B (+) SetToBag({m})) = BagToSet(B) \cup {m}
  BY Added
<1>. QED
  BY <1>1 DEF On

LEMMA OnGrows ==
    ASSUME NEW B, Typed(B), NEW k \in Job
    PROVE  /\ \A j \in Job, c \in Nat, a \in {"main", "retry", "periodic", "dead"} :
                  On(B, k) \subseteq On(B (+) Msg(j, c, a), k)
           /\ \A c \in Nat, a \in {"main", "retry", "periodic"} : On(B (+) Msg(k, c, a), k) # {}
           /\ \A c \in Settlement : On(B, k) \subseteq On(B (+) Requeued(c), k)
<1>0. IsABag(B)
  BY DEF Typed
<1>1. ASSUME NEW j \in Job, NEW c \in Nat, NEW a \in {"main", "retry", "periodic", "dead"}
      PROVE  On(B, k) \subseteq On(B (+) Msg(j, c, a), k)
  <2>. DEFINE m == Mail(j, c, a)
  <2>1. Msg(j, c, a) = SetToBag({m})
    BY MailIs
  <2>. HIDE DEF m
  <2>2. On(B (+) SetToBag({m}), k) \in {On(B, k), On(B, k) \cup {m}}
    BY <1>0, OnAdded
  <2>. QED
    BY <2>1, <2>2
<1>2. ASSUME NEW c \in Nat, NEW a \in {"main", "retry", "periodic"}
      PROVE  On(B (+) Msg(k, c, a), k) # {}
  <2>. DEFINE m == Mail(k, c, a)
  <2>1. Msg(k, c, a) = SetToBag({m}) /\ m.job = k /\ m.at = a
    BY MailIs
  <2>. HIDE DEF m
  <2>2. On(B (+) SetToBag({m}), k) = On(B, k) \cup {m}
    BY <1>0, <2>1, OnAdded
  <2>. QED
    BY <2>1, <2>2
<1>3. ASSUME NEW c \in Settlement PROVE On(B, k) \subseteq On(B (+) Requeued(c), k)
  <2>1. CASE c.kind = "nack"
    BY <1>1, <2>1, SettlementIs DEF Requeued
  <2>2. CASE c.kind # "nack"
    BY <2>2, AddedNothing DEF Requeued, Typed
  <2>. QED
    BY <2>1, <2>2
<1>. QED
  BY <1>1, <1>2, <1>3

LEMMA OnPublished ==
    ASSUME TypeInv, BrokerQueueAssumption, NEW c \in Settlement, NEW k \in Job
    PROVE  Waiting(k) \subseteq On(Published(c), k)
<1>1. CASE c.kind = "settle"
  <2>1. PICK n \in Nat, at \in {"retry", "dead"} :
            Resend(c.job, c.count, c.final, JobRetries[c.job]) = Msg(c.job, n, at)
    BY SettlementIs, ResendIs DEF BrokerQueueAssumption
  <2>2. On(queue, k) \subseteq On(queue (+) Msg(c.job, n, at), k)
    BY Types, OnGrows, SettlementIs
  <2>. QED
    BY <1>1, <2>1, <2>2 DEF Published, Waiting, On
<1>2. CASE c.kind # "settle"
  BY <1>2 DEF Published, Waiting, On
<1>. QED
  BY <1>1, <1>2

LEMMA WaitingIs == \A k : Waiting(k) = On(queue, k)
BY DEF Waiting, On

LEMMA WaitingNext == \A k : Waiting(k)' = On(queue', k)
BY DEF Waiting, On

-----------------------------------------------------------------------------
(* Nothing is forgotten *)

Unfinished(j) == job[j] # None /\ job[j].status \in {"pending", "processing"}

(* The broker will get the delivery back: a nack, or no callback yet.        *)
Returns(i) ==
    /\ unacked[i] # None
    /\ \A n \in 1..Len(callbacks[i]) :
          callbacks[i][n].by = unacked[i].by => callbacks[i][n].kind = "nack"

Held(j) ==
    \/ j \in request \/ Waiting(j) # {}
    \/ \E i \in Instance : Returns(i) /\ unacked[i].job = j
    \/ \E t \in Thread : worker[t].at = "delaying" /\ worker[t].job = j

HeldInv == \A j \in Job \ torn : Unfinished(j) => Held(j)

(* A worker thread lets go of no job but its own, when it saves or leaves an *)
(* ack.                                                                      *)
LEMMA HeldWork ==
    ASSUME TypeInv, BrokerQueueAssumption, NEW t \in Thread, worker[t].at # "idle",
           NEW w, Goes(t, w), NEW k \in Job, Held(k),
           \/ callbacks' = callbacks
           \/ Leave(t, "nack")
           \/ k # worker[t].job /\ \E kind \in {"ack", "nack", "settle"} : Leave(t, kind),
           worker[t].at = "delaying" => k # worker[t].job,
           Waiting(k) \subseteq Waiting(k)', UNCHANGED <<request, unacked>>
    PROVE  Held(k)'
<1>1. CASE k \in request \/ Waiting(k) # {}
  BY <1>1 DEF Held
<1>2. ASSUME NEW i \in Instance, Returns(i), unacked[i].job = k PROVE Held(k)'
  <2>1. Returns(i)'
    <3>1. CASE callbacks' = callbacks
      BY <1>2, <3>1 DEF Returns
    <3>2. CASE callbacks' # callbacks
      <4>. DEFINE l == worker[t].inst
      <4>1. PICK kind \in {"ack", "nack", "settle"} :
                Leave(t, kind) /\ (kind = "nack" \/ k # worker[t].job)
        BY <3>2
      <4>2. PICK c \in Settlement :
                /\ c.kind = kind /\ c.by = t
                /\ callbacks' = IF worker[t].open THEN [callbacks EXCEPT ![l] = Append(@, c)]
                                ELSE callbacks
        BY <4>1, LeaveIs
      <4>3. l \in Instance /\ callbacks' = [callbacks EXCEPT ![l] = Append(@, c)]
        BY <3>2, <4>2, Busy
      <4>4. /\ \A m \in Instance : m # l => callbacks'[m] = callbacks[m]
            /\ Len(callbacks[l]) \in Nat /\ Len(callbacks'[l]) = Len(callbacks[l]) + 1
            /\ \A n \in 1..Len(callbacks[l]) : callbacks'[l][n] = callbacks[l][n]
            /\ callbacks'[l][Len(callbacks[l]) + 1] = c
        BY <4>3, Appended
      <4>5. unacked[i].by = t => k = worker[t].job
        BY <1>2 DEF TypeInv, Linked, Returns
      <4>. HIDE DEF l
      <4>6. ASSUME NEW n \in 1..Len(callbacks'[i]), callbacks'[i][n].by = unacked[i].by
            PROVE  callbacks'[i][n].kind = "nack"
        <5>1. CASE i # l
          BY <1>2, <4>4, <4>6, <5>1 DEF Returns
        <5>2. CASE i = l /\ n \in 1..Len(callbacks[l])
          <6>1. callbacks'[i][n] = callbacks[i][n]
            BY <4>4, <5>2
          <6>. QED
            BY <1>2, <4>6, <5>2, <6>1 DEF Returns
        <5>3. CASE i = l /\ n = Len(callbacks[l]) + 1
          BY <4>1, <4>2, <4>4, <4>5, <4>6, <5>3
        <5>. QED
          BY <4>4, <5>1, <5>2, <5>3
      <4>. QED
        BY <1>2, <4>6 DEF Returns
    <3>. QED
      BY <3>1, <3>2
  <2>. QED
    BY <1>2, <2>1 DEF Held
<1>3. ASSUME NEW u \in Thread, worker[u].at = "delaying", worker[u].job = k PROVE Held(k)'
  <2>1. u # t
    BY <1>3
  <2>2. worker'[u] = worker[u]
    BY <2>1, GoesIs
  <2>. QED
    BY <1>3, <2>2 DEF Held
<1>. QED
  BY <1>1, <1>2, <1>3 DEF Held

(* The end of a channel: the delivery goes back to the broker.               *)
LEMMA HeldClose ==
    ASSUME TypeInv, BrokerQueueAssumption, NEW i \in Instance, NEW q, Typed(q),
           NEW survivors, Close(i, q, survivors), NEW k \in Job, Held(k),
           Waiting(k) \subseteq On(q, k), UNCHANGED request,
           \A t \in Thread : worker[t].inst = i /\ worker[t].at = "delaying" /\ worker[t].job = k
                => t \in survivors
    PROVE  Held(k)'
<1>1. /\ unacked' = [unacked EXCEPT ![i] = None]
      /\ callbacks' = [callbacks EXCEPT ![i] = <<>>]
      /\ unacked[i] = None => queue' = q
      /\ unacked[i] # None => queue' = q (+) Msg(unacked[i].job, unacked[i].count, "main")
  BY CloseIs
<1>2. \A t \in Thread :
         /\ worker'[t].at # "idle" => worker'[t].job = worker[t].job
         /\ t \in survivors => worker'[t].at = worker[t].at
         /\ worker[t].inst # i => worker'[t] = worker[t]
  BY CloseIs
<1>3. On(q, k) \subseteq Waiting(k)'
  <2>1. CASE unacked[i] = None
    BY <1>1, <2>1, WaitingNext
  <2>2. CASE unacked[i] # None
    <3>1. On(q, k) \subseteq On(q (+) Msg(unacked[i].job, unacked[i].count, "main"), k)
      BY <2>2, OnGrows, Types
    <3>. QED
      BY <1>1, <2>2, <3>1, WaitingNext
  <2>. QED
    BY <2>1, <2>2
<1>4. CASE k \in request \/ Waiting(k) # {}
  BY <1>3, <1>4 DEF Held
<1>5. ASSUME NEW l \in Instance, Returns(l), unacked[l].job = k PROVE Held(k)'
  <2>1. CASE l = i
    <3>1. unacked[i] # None /\ unacked[i].count \in Nat /\ unacked[i].job = k
      BY <1>5, <2>1, Types DEF Returns
    <3>2. queue' = q (+) Msg(k, unacked[i].count, "main")
      BY <1>1, <3>1
    <3>3. On(queue', k) # {}
      BY <3>1, <3>2, OnGrows
    <3>. QED
      BY <3>3, WaitingNext DEF Held
  <2>2. CASE l # i
    <3>1. unacked'[l] = unacked[l] /\ callbacks'[l] = callbacks[l]
      BY <1>1, <2>2 DEF TypeInv, TypeOK
    <3>. QED
      BY <1>5, <3>1 DEF Held, Returns
  <2>. QED
    BY <2>1, <2>2
<1>6. ASSUME NEW u \in Thread, worker[u].at = "delaying", worker[u].job = k PROVE Held(k)'
  <2>1. worker'[u].at = worker[u].at
    BY <1>2, <1>6
  <2>2. worker'[u].job = worker[u].job
    BY <1>2, <1>6, <2>1
  <2>. QED
    BY <1>6, <2>1, <2>2 DEF Held
<1>. QED
  BY <1>4, <1>5, <1>6 DEF Held

(* Requests, the broker and recovery.                                        *)
LEMMA HeldStore ==
    ASSUME NEW k \in Job, Held(k), UNCHANGED <<unacked, callbacks, worker>>,
           k \in request => k \in request' \/ Waiting(k)' # {},
           Waiting(k) # {} => Waiting(k)' # {}
    PROVE  Held(k)'
<1>1. \A i \in Instance : Returns(i) => Returns(i)'
  BY DEF Returns
<1>. QED
  BY <1>1 DEF Held

LEMMA HeldJobs ==
    ASSUME TypeInv, HeldInv, BrokerQueueAssumption, NEW j \in Job,
           \/ Create(j) \/ Put(j) \/ PutFails(j) \/ Rerun(j)
           \/ Delete(j) \/ Restore(j) \/ Recover(j)
           \/ \E m \in Waiting(j) : Expire(m)
    PROVE  HeldInv'
<1>. SUFFICES ASSUME NEW k \in Job, k \notin torn', Unfinished(k)'
              PROVE  Held(k)'
  BY DEF HeldInv
<1>0. \A i \in Job : Readable(i) => job[i].runs \in Nat /\ job[i] # None
  BY Types DEF Readable
<1>1. CASE Create(j)
  <2>1. j \in request' /\ request \subseteq request' /\ torn' = torn
        /\ \A i \in Job : i # j => job'[i] = job[i]
    BY <1>1, Saved DEF Create, history
  <2>2. CASE k = j
    BY <2>1, <2>2 DEF Held
  <2>3. CASE k # j
    <3>1. Held(k)
      BY <2>1, <2>3 DEF HeldInv, Unfinished
    <3>. QED
      BY <1>1, <2>1, <3>1, HeldStore, WaitingIs, WaitingNext DEF Create
  <2>. QED
    BY <2>2, <2>3
<1>2. CASE Put(j)
  <2>1. Held(k)
    BY <1>2 DEF HeldInv, Unfinished, Put, store
  <2>2. CASE ~Readable(j)
    <3>1. queue' = queue /\ request' = request \ {j} /\ k # j
      BY <1>2, <2>2 DEF Put
    <3>. QED
      BY <1>2, <2>1, <3>1, HeldStore, WaitingIs, WaitingNext DEF Put
  <2>3. CASE Readable(j)
    <3>. DEFINE a == IF j \in Delayed /\ job[j].runs = 0 THEN "periodic" ELSE "main"
    <3>1. a \in {"main", "retry", "periodic"}
      OBVIOUS
    <3>2. queue' = queue (+) Msg(j, 0, a) /\ request' = request \ {j}
      BY <1>2, <2>3 DEF Put, Publish
    <3>. HIDE DEF a
    <3>3. On(queue, k) \subseteq On(queue', k) /\ (k = j => On(queue', k) # {})
      BY <3>1, <3>2, OnGrows, Types
    <3>. QED
      BY <1>2, <2>1, <3>2, <3>3, HeldStore, WaitingIs, WaitingNext DEF Put
  <2>. QED
    BY <2>2, <2>3
<1>3. CASE PutFails(j)
  <2>1. Held(k) /\ k # j
    BY <1>3 DEF HeldInv, Unfinished, PutFails, store
  <2>. QED
    BY <1>3, <2>1, HeldStore, WaitingIs, WaitingNext DEF PutFails
<1>4. CASE Rerun(j)
  <2>1. j \in request' /\ request \subseteq request' /\ torn' = torn
        /\ \A i \in Job : i # j => job'[i] = job[i]
    BY <1>0, <1>4, Saved DEF Rerun
  <2>2. CASE k = j
    BY <2>1, <2>2 DEF Held
  <2>3. CASE k # j
    <3>1. Held(k)
      BY <2>1, <2>3 DEF HeldInv, Unfinished
    <3>. QED
      BY <1>4, <2>1, <3>1, HeldStore, WaitingIs, WaitingNext DEF Rerun
  <2>. QED
    BY <2>2, <2>3
<1>5. CASE Delete(j) \/ Restore(j)
  <2>1. job' = job /\ torn' = torn /\ UNCHANGED <<request, queue, unacked, callbacks, worker>>
    BY <1>5 DEF Delete, Restore, history, client
  <2>2. Held(k)
    BY <2>1 DEF HeldInv, Unfinished
  <2>. QED
    BY <2>1, <2>2, HeldStore, WaitingIs, WaitingNext
<1>6. CASE Recover(j)
  <2>1. /\ job'[j].status = "failed" /\ \A i \in Job : i # j => job'[i] = job[i]
        /\ torn' = torn /\ UNCHANGED <<request, queue, unacked, callbacks, worker>>
    BY <1>0, <1>6, Saved DEF Recover, history, client
  <2>2. k # j
    BY <2>1 DEF Unfinished
  <2>3. Held(k)
    BY <2>1, <2>2 DEF HeldInv, Unfinished
  <2>. QED
    BY <2>1, <2>3, HeldStore, WaitingIs, WaitingNext
<1>7. ASSUME NEW m \in Waiting(j), Expire(m) PROVE Held(k)'
  <2>1. job' = job /\ torn' = torn /\ UNCHANGED <<request, unacked, callbacks, worker>>
    BY <1>7 DEF Expire, store, client, history
  <2>2. Held(k)
    BY <2>1 DEF HeldInv, Unfinished
  <2>3. m \in BagToSet(queue) /\ m.job = j /\ m \in Message /\ m.count \in Nat
    BY Types DEF Waiting, Typed, Message
  <2>. DEFINE q == queue (-) SetToBag({m})
  <2>4. Typed(q) /\ \A e \in BagToSet(queue) : e # m => e \in BagToSet(q)
    BY <2>3, Types, TypedRemoved, Removed DEF Typed
  <2>5. queue' = q (+) Msg(j, m.count, "main")
    BY <1>7, <2>3 DEF Expire
  <2>. HIDE DEF q
  <2>6. On(q, k) \subseteq On(queue', k) /\ (k = j => On(queue', k) # {})
    BY <2>3, <2>4, <2>5, OnGrows
  <2>7. On(queue, k) # {} => On(queue', k) # {}
    BY <2>3, <2>4, <2>6 DEF On
  <2>. QED
    BY <2>1, <2>2, <2>7, HeldStore, WaitingIs, WaitingNext
<1>. QED
  BY <1>1, <1>2, <1>3, <1>4, <1>5, <1>6, <1>7

LEMMA HeldReceive ==
    ASSUME TypeInv, HeldInv, BrokerQueueAssumption, NEW j \in Job, Receive(j)
    PROVE  HeldInv'
<1>. SUFFICES ASSUME NEW k \in Job, k \notin torn', Unfinished(k)'
              PROVE  Held(k)'
  BY DEF HeldInv
<1>1. PICK i \in Instance, m \in Waiting(j) : Deliver(i, m) \/ Refuse(i, m)
  BY DEF Receive
<1>0. m \in BagToSet(queue)
  BY DEF Waiting
<1>2. m \in BagToSet(queue) /\ m.job = j /\ m \in Message /\ m.count \in Nat
  BY Types DEF Waiting, Typed, Message
<1>. DEFINE q == queue (-) SetToBag({m})
<1>3. Typed(q) /\ \A e \in BagToSet(queue) : e # m => e \in BagToSet(q)
  BY <1>2, Types, TypedRemoved, Removed DEF Typed
<1>4. k # j => On(queue, k) \subseteq On(q, k)
  BY <1>2, <1>3 DEF On
<1>5. CASE Deliver(i, m)
  <2>1. PICK t \in Thread, d \in Delivery, w \in Working :
              /\ worker[t].at = "idle"
              /\ \A l \in Instance :
                    /\ unacked[l] # None => unacked[l].by # t
                    /\ \A n \in 1..Len(callbacks[l]) : callbacks[l][n].by # t
              /\ consumer[i] = "on" /\ unacked[i] = None
              /\ m \in Message /\ m.at = "main" /\ Readable(m.job)
              /\ queue' = queue (-) SetToBag({m})
              /\ job' = [job EXCEPT ![m.job] = [status |-> "processing", runs |-> job[m.job].runs]]
              /\ d.job = m.job /\ d.by = t
              /\ unacked' = [unacked EXCEPT ![i] = d]
              /\ w.at = "run" /\ w.inst = i /\ w.job = m.job /\ w.count = m.count /\ w.open
              /\ worker' = [worker EXCEPT ![t] = w]
              /\ UNCHANGED <<deleted, client, consumer, callbacks, history, faults>>
    BY <1>0, <1>5, DeliverIs
  <2>0. queue' = q
    BY <2>1
  <2>. HIDE DEF q
  <2>2. /\ \A l \in Job : l # j => job'[l] = job[l]
        /\ unacked'[i] = d /\ \A l \in Instance : l # i => unacked'[l] = unacked[l]
        /\ \A u \in Thread : u # t => worker'[u] = worker[u]
    BY <1>2, <2>1 DEF TypeInv, TypeOK
  <2>3. torn' = torn /\ request' = request /\ callbacks' = callbacks
    BY <2>1 DEF history, client
  <2>4. CASE k = j
    <3>1. d # None
      BY NoneAssumption
    <3>2. Returns(i)' /\ unacked'[i].job = k
      BY <1>2, <2>1, <2>2, <2>3, <2>4, <3>1 DEF Returns
    <3>. QED
      BY <3>2 DEF Held
  <2>5. CASE k # j
    <3>1. Held(k)
      BY <2>2, <2>3, <2>5 DEF HeldInv, Unfinished
    <3>2. CASE k \in request \/ Waiting(k) # {}
      BY <1>4, <2>0, <2>3, <2>5, <3>2, WaitingIs, WaitingNext DEF Held
    <3>3. ASSUME NEW l \in Instance, Returns(l), unacked[l].job = k PROVE Held(k)'
      <4>1. l # i
        BY <2>1, <3>3 DEF Returns
      <4>. QED
        BY <2>2, <2>3, <3>3, <4>1 DEF Held, Returns
    <3>4. ASSUME NEW u \in Thread, worker[u].at = "delaying", worker[u].job = k PROVE Held(k)'
      <4>1. u # t
        BY <2>1, <3>4
      <4>. QED
        BY <2>2, <3>4, <4>1 DEF Held
    <3>. QED
      BY <3>1, <3>2, <3>3, <3>4 DEF Held
  <2>. QED
    BY <2>4, <2>5
<1>6. CASE Refuse(i, m)
  <2>1. /\ UNCHANGED <<job, request, unacked, callbacks, worker>>
        /\ queue' = q (+) Resend(m.job, m.count, FALSE, MaxRetries)
        /\ torn' = IF m.count < MaxRetries THEN torn ELSE torn \cup {m.job}
    BY <1>6 DEF Refuse, store, client
  <2>. HIDE DEF q
  <2>2. Held(k)
    BY <2>1 DEF HeldInv, Unfinished
  <2>3. CASE m.count < MaxRetries
    <3>1. queue' = q (+) Msg(j, m.count + 1, "retry")
      BY <1>2, <2>1, <2>3 DEF Resend
    <3>2. On(q, k) \subseteq On(queue', k) /\ (k = j => On(queue', k) # {})
      BY <1>2, <1>3, <3>1, OnGrows
    <3>3. On(queue, k) # {} => On(queue', k) # {}
      BY <1>4, <3>2
    <3>. QED
      BY <2>1, <2>2, <3>3, HeldStore, WaitingIs, WaitingNext
  <2>4. CASE ~(m.count < MaxRetries)
    <3>1. queue' = q (+) Msg(j, m.count, "dead") /\ k # j
      BY <1>2, <2>1, <2>4 DEF Resend
    <3>2. On(q, k) \subseteq On(queue', k)
      BY <1>2, <1>3, <3>1, OnGrows
    <3>3. On(queue, k) # {} => On(queue', k) # {}
      BY <1>4, <3>1, <3>2
    <3>. QED
      BY <2>1, <2>2, <3>3, HeldStore, WaitingIs, WaitingNext
  <2>. QED
    BY <2>3, <2>4
<1>. QED
  BY <1>1, <1>5, <1>6

LEMMA HeldInstance ==
    ASSUME TypeInv, HeldInv, BrokerQueueAssumption, NEW i \in Instance,
           \/ Start(i) \/ Callback(i) \/ LoseConnection(i) \/ Crash(i) \/ Stop(i) \/ Stopped(i)
    PROVE  HeldInv'
<1>. SUFFICES ASSUME NEW k \in Job, k \notin torn', Unfinished(k)'
              PROVE  Held(k)'
  BY DEF HeldInv
<1>0. job' = job /\ request' = request /\ k \notin torn
  BY DEF Start, Callback, LoseConnection, Crash, Stop, Stopped, store, client, history
<1>1. Held(k)
  BY <1>0 DEF HeldInv, Unfinished
<1>2. Typed(queue) /\ Waiting(k) = On(queue, k)
  BY Types, WaitingIs
<1>3. \A t \in Thread : t \in Thread
  OBVIOUS
<1>4. CASE Start(i) \/ Stop(i)
  <2>1. UNCHANGED <<queue, unacked, callbacks, worker>>
    BY <1>4 DEF Start, Stop
  <2>. QED
    BY <1>0, <1>1, <2>1, HeldStore, WaitingIs, WaitingNext
<1>5. CASE Callback(i)
  <2>. DEFINE c == callbacks[i][1]
  <2>1. /\ c \in Settlement /\ callbacks[i] # <<>> /\ 1 \in 1..Len(callbacks[i])
        /\ \/ /\ unacked[i] # None /\ unacked[i].by = c.by
              /\ queue' = Published(c) (+) Requeued(c)
              /\ unacked' = [unacked EXCEPT ![i] = None]
              /\ callbacks' = [callbacks EXCEPT ![i] = Tail(@)]
              /\ UNCHANGED <<consumer, worker, again>>
           \/ Close(i, Published(c), Thread)
    BY <1>5, CallbackIs
  <2>2. Typed(Published(c)) /\ Waiting(k) \subseteq On(Published(c), k)
    BY <2>1, TypedPublished, OnPublished
  <2>3. CASE Close(i, Published(c), Thread)
    BY <1>0, <1>1, <2>2, <2>3, HeldClose
  <2>4. CASE /\ unacked[i] # None /\ unacked[i].by = c.by
             /\ queue' = Published(c) (+) Requeued(c)
             /\ unacked' = [unacked EXCEPT ![i] = None]
             /\ callbacks' = [callbacks EXCEPT ![i] = Tail(@)]
             /\ UNCHANGED <<consumer, worker, again>>
    <3>1. On(Published(c), k) \subseteq On(queue', k)
      BY <2>1, <2>2, <2>4, OnGrows
    <3>2. \A l \in Instance : l # i => callbacks'[l] = callbacks[l] /\ unacked'[l] = unacked[l]
      BY <2>1, <2>4, TailIs DEF TypeInv, TypeOK
    <3>3. CASE k \in request \/ Waiting(k) # {}
      BY <1>0, <2>2, <3>1, <3>3, WaitingNext DEF Held
    <3>4. ASSUME NEW l \in Instance, Returns(l), unacked[l].job = k PROVE Held(k)'
      <4>1. CASE l = i
        <5>1. c.kind = "nack"
          BY <2>1, <2>4, <3>4, <4>1 DEF Returns
        <5>2. c.job = k /\ c.count \in Nat
          BY <2>1, <2>4, <3>4, <4>1, SettlementIs DEF TypeInv, Linked
        <5>3. queue' = Published(c) (+) Msg(k, c.count, "main")
          BY <2>4, <5>1, <5>2 DEF Requeued
        <5>4. On(queue', k) # {}
          BY <2>2, <5>2, <5>3, OnGrows
        <5>. QED
          BY <5>4, WaitingNext DEF Held
      <4>2. CASE l # i
        BY <3>2, <3>4, <4>2 DEF Held, Returns
      <4>. QED
        BY <4>1, <4>2
    <3>5. ASSUME NEW u \in Thread, worker[u].at = "delaying", worker[u].job = k PROVE Held(k)'
      BY <2>4, <3>5 DEF Held
    <3>. QED
      BY <1>1, <3>3, <3>4, <3>5 DEF Held
  <2>. QED
    BY <2>1, <2>3, <2>4
<1>6. CASE LoseConnection(i)
  <2>1. CASE Close(i, queue, Thread)
    BY <1>0, <1>1, <1>2, <2>1, HeldClose
  <2>2. CASE callbacks[i] # <<>> /\ Close(i, Published(Head(callbacks[i])), Thread)
    <3>1. Head(callbacks[i]) \in Settlement
      BY <2>2 DEF TypeInv, TypeOK
    <3>2. /\ Typed(Published(Head(callbacks[i])))
          /\ Waiting(k) \subseteq On(Published(Head(callbacks[i])), k)
      BY <3>1, TypedPublished, OnPublished
    <3>. QED
      BY <1>0, <1>1, <2>2, <3>2, HeldClose
  <2>. QED
    BY <1>6, <2>1, <2>2 DEF LoseConnection
<1>7. CASE Crash(i)
  <2>1. \A t \in Thread : worker[t].inst = i /\ worker[t].at = "delaying" => worker[t].job \in torn'
    BY <1>7 DEF Crash
  <2>2. Close(i, queue, {})
    BY <1>7 DEF Crash
  <2>. QED
    BY <1>0, <1>1, <1>2, <2>1, <2>2, HeldClose
<1>8. CASE Stopped(i)
  BY <1>0, <1>1, <1>2, <1>8, HeldClose DEF Stopped
<1>. QED
  BY <1>4, <1>5, <1>6, <1>7, <1>8

LEMMA HeldWorker ==
    ASSUME TypeInv, HeldInv, BrokerQueueAssumption, NEW t \in Thread, Work(t) \/ ScheduleFails(t)
    PROVE  HeldInv'
<1>. DEFINE j == worker[t].job
<1>. SUFFICES ASSUME NEW k \in Job, k \notin torn', Unfinished(k)'
              PROVE  Held(k)'
  BY DEF HeldInv
<1>0. Typed(queue) /\ \A i \in Job : Readable(i) => job[i].runs \in Nat
  BY Types DEF Readable
<1>1. ASSUME queue' = queue PROVE Waiting(k) \subseteq Waiting(k)'
  BY <1>1, WaitingIs, WaitingNext
<1>2. ASSUME NEW out \in Outcome, Run(t, out) PROVE Held(k)'
  <2>1. worker[t].at = "run" /\ \E w : Goes(t, w)
    BY <1>2, RunGoes
  <2>2. /\ UNCHANGED <<job, torn, request, queue, unacked, callbacks>>
    BY <1>2 DEF Run, store, client
  <2>3. Held(k)
    BY <2>2 DEF HeldInv, Unfinished
  <2>. QED
    BY <1>1, <2>1, <2>2, <2>3, HeldWork
<1>3. CASE Complete(t)
  <2>1. worker[t].at = "complete" /\ \E w : Goes(t, w)
    BY <1>3, CompleteGoes
  <2>2. j \in Job /\ Readable(j) /\ job[j].runs \in Nat /\ Save(j, "completed", job[j].runs)
    BY <1>0, <1>3, <2>1, Busy DEF Complete
  <2>3. job'[j].status = "completed" /\ \A i \in Job : i # j => job'[i] = job[i]
    BY <2>2, Saved
  <2>4. /\ callbacks' = callbacks \/ Leave(t, "ack")
        /\ UNCHANGED <<torn, request, queue, unacked>>
    BY <1>3 DEF Complete, history, client
  <2>5. k # j /\ Held(k)
    BY <2>3, <2>4 DEF HeldInv, Unfinished
  <2>. QED
    BY <1>1, <2>1, <2>4, <2>5, HeldWork
<1>4. CASE SaveFails(t)
  <2>1. worker[t].at # "idle" /\ worker[t].at # "delaying" /\ \E w : Goes(t, w)
    BY <1>4, RaisesGoes DEF SaveFails
  <2>2. UNCHANGED <<job, torn, request, queue, unacked, callbacks>>
    BY <1>4 DEF SaveFails, history, store, client
  <2>3. Held(k)
    BY <2>2 DEF HeldInv, Unfinished
  <2>. QED
    BY <1>1, <2>1, <2>2, <2>3, HeldWork
<1>5. CASE CountRun(t)
  <2>1. worker[t].at = "periodic" /\ \E w : Goes(t, w)
    BY <1>5, GotoGoes, EndsGoes DEF CountRun
  <2>2. worker[t].runs + 1 \in Nat /\ j \in Job /\ Save(j, "completed", worker[t].runs + 1)
    BY <1>5, <2>1, Busy DEF CountRun
  <2>3. job'[j].status = "completed" /\ \A i \in Job : i # j => job'[i] = job[i]
    BY <2>2, Saved
  <2>4. UNCHANGED <<torn, request, queue, unacked, callbacks>>
    BY <1>5 DEF CountRun, history, client
  <2>5. Held(k)
    BY <2>3, <2>4 DEF HeldInv, Unfinished
  <2>. QED
    BY <1>1, <2>1, <2>4, <2>5, HeldWork
<1>6. CASE DelayAck(t)
  <2>1. worker[t].at = "delay"
    BY <1>6 DEF DelayAck
  <2>2. Leave(t, "ack") /\ UNCHANGED <<job, torn, request, queue, unacked>>
    BY <1>6 DEF DelayAck, history, store, client
  <2>3. Held(k)
    BY <2>2 DEF HeldInv, Unfinished
  <2>4. CASE Goto(t, "delaying")
    <3>1. PICK w : Goes(t, w) /\ w.at = "delaying"
      BY <2>1, <2>4, GotoGoes
    <3>2. CASE k = j
      <4>1. worker'[t] = w
        BY <2>1, <3>1, GoesIs
      <4>2. w.job = j
        BY <3>1, IdleIs DEF Goes
      <4>. QED
        BY <3>1, <3>2, <4>1, <4>2 DEF Held
    <3>3. CASE k # j
      BY <1>1, <2>1, <2>2, <2>3, <3>1, <3>3, HeldWork
    <3>. QED
      BY <3>2, <3>3
  <2>5. CASE ~worker[t].open /\ Ends(t)
    <3>1. callbacks' = callbacks
      BY <2>2, <2>5 DEF Leave
    <3>2. Goes(t, Idle)
      BY <2>5, EndsGoes
    <3>. QED
      BY <1>1, <2>1, <2>2, <2>3, <3>1, <3>2, HeldWork
  <2>. QED
    BY <1>6, <2>4, <2>5 DEF DelayAck
<1>7. CASE DelaySave(t)
  <2>1. worker[t].at = "delaying" /\ \E w : Goes(t, w)
    BY <1>7, GotoGoes, EndsGoes DEF DelaySave
  <2>2. j \in Job
    BY <2>1, Busy
  <2>3. UNCHANGED <<request, queue, unacked, callbacks>>
    BY <1>7 DEF DelaySave, client
  <2>4. k # j /\ k \notin torn /\ job'[k] = job[k]
    <3>1. CASE Readable(j)
      <4>1. Save(j, "completed", job[j].runs) /\ torn' = torn
        BY <1>7, <3>1 DEF DelaySave
      <4>2. job[j].runs \in Nat
        BY <1>0, <2>2, <3>1
      <4>3. job'[j].status = "completed" /\ \A i \in Job : i # j => job'[i] = job[i]
        BY <2>2, <4>1, <4>2, Saved
      <4>. QED
        BY <4>1, <4>3 DEF Unfinished
    <3>2. CASE ~Readable(j)
      BY <1>7, <3>2 DEF DelaySave
    <3>. QED
      BY <3>1, <3>2
  <2>5. Held(k)
    BY <2>4 DEF HeldInv, Unfinished
  <2>. QED
    BY <1>1, <2>1, <2>3, <2>4, <2>5, HeldWork
<1>8. CASE Schedule(t) \/ ScheduleFails(t)
  <2>1. worker[t].at = "schedule" /\ \E w : Goes(t, w)
    BY <1>8, EndsGoes, RaisesGoes DEF Schedule, ScheduleFails
  <2>2. /\ UNCHANGED <<job, torn, request, unacked, callbacks>>
        /\ queue' \in {queue, queue (+) Msg(j, 0, "periodic")}
    BY <1>8 DEF Schedule, ScheduleFails, Publish, store, client
  <2>3. Held(k)
    BY <2>2 DEF HeldInv, Unfinished
  <2>4. j \in Job
    BY <2>1, Busy
  <2>5. On(queue, k) \subseteq On(queue (+) Msg(j, 0, "periodic"), k)
    BY <1>0, <2>4, OnGrows
  <2>6. Waiting(k) \subseteq Waiting(k)'
    BY <2>2, <2>5, WaitingIs, WaitingNext
  <2>. QED
    BY <2>1, <2>2, <2>3, <2>6, HeldWork
<1>9. CASE Fail(t)
  <2>1. worker[t].at = "failing" /\ Goes(t, Idle)
    BY <1>9, EndsGoes DEF Fail
  <2>2. j \in Job
    BY <2>1, Busy
  <2>3. Leave(t, "settle") /\ UNCHANGED <<request, queue, unacked>>
    BY <1>9 DEF Fail, client
  <2>4. k # j /\ k \notin torn /\ job'[k] = job[k]
    <3>1. CASE Readable(j)
      <4>1. Save(j, "failed", job[j].runs) /\ torn' = torn
        BY <1>9, <3>1 DEF Fail
      <4>2. job[j].runs \in Nat
        BY <1>0, <2>2, <3>1
      <4>. HIDE DEF j
      <4>3. job'[j].status = "failed" /\ \A i \in Job : i # j => job'[i] = job[i]
        BY <2>2, <4>1, <4>2, Saved
      <4>. QED
        BY <4>1, <4>3 DEF Unfinished
    <3>2. CASE ~Readable(j)
      BY <1>9, <3>2 DEF Fail
    <3>. QED
      BY <3>1, <3>2
  <2>5. Held(k)
    BY <2>4 DEF HeldInv, Unfinished
  <2>. QED
    BY <1>1, <2>1, <2>3, <2>4, <2>5, HeldWork
<1>10. CASE Abort(t)
  <2>1. worker[t].at = "nack" /\ Goes(t, Idle)
    BY <1>10, EndsGoes DEF Abort
  <2>2. Leave(t, "nack") /\ UNCHANGED <<job, torn, request, queue, unacked>>
    BY <1>10 DEF Abort, history, store, client
  <2>3. Held(k)
    BY <2>2 DEF HeldInv, Unfinished
  <2>. QED
    BY <1>1, <2>1, <2>2, <2>3, HeldWork
<1>. QED
  BY <1>2, <1>3, <1>4, <1>5, <1>6, <1>7, <1>8, <1>9, <1>10 DEF Work

LEMMA HeldStep ==
    ASSUME TypeInv, HeldInv, BrokerQueueAssumption, [Next]_vars
    PROVE  HeldInv'
<1>1. CASE Next
  <2>1. ASSUME NEW j \in Job,
               \/ Create(j) \/ Put(j) \/ PutFails(j) \/ Rerun(j)
               \/ Delete(j) \/ Restore(j) \/ Recover(j) \/ Receive(j)
               \/ \E m \in Waiting(j) : Expire(m)
        PROVE  HeldInv'
    BY <2>1, HeldJobs, HeldReceive
  <2>2. ASSUME NEW i \in Instance,
               \/ Start(i) \/ Callback(i) \/ LoseConnection(i) \/ Crash(i) \/ Stop(i) \/ Stopped(i)
        PROVE  HeldInv'
    BY <2>2, HeldInstance
  <2>3. ASSUME NEW t \in Thread, Work(t) \/ ScheduleFails(t) PROVE HeldInv'
    BY <2>3, HeldWorker
  <2>. QED
    BY <1>1, <2>1, <2>2, <2>3 DEF Next
<1>2. CASE UNCHANGED vars
  <2>1. UNCHANGED <<job, request, queue, unacked, callbacks, worker, torn>>
    BY <1>2 DEF vars, store, client, history
  <2>. QED
    BY <2>1 DEF HeldInv, Unfinished, Held, Returns, Waiting
<1>. QED
  BY <1>1, <1>2

(* A job that is PENDING or PROCESSING is never without a message, a         *)
(* delivery, a request or a worker that will see to it, as long as no step   *)
(* died or failed between saving the job and sending its message.            *)
THEOREM NothingForgotten == Spec => []NotForgotten
<1>1. Init => HeldInv
  BY DEF Init, HeldInv, Unfinished
<1>2. TypeInv /\ HeldInv /\ [Next]_vars => HeldInv'
  BY HeldStep, BrokerQueueAssumption
<1>3. HeldInv => NotForgotten
  <2>. SUFFICES ASSUME HeldInv, NEW j \in Job \ torn, Readable(j),
                       job[j].status \in {"pending", "processing"}
                PROVE  j \in request \/ Carried(j)
    BY DEF NotForgotten
  <2>1. Held(j)
    BY DEF HeldInv, Unfinished, Readable
  <2>. QED
    BY <2>1 DEF Held, Carried, Returns
<1>. QED
  BY <1>1, <1>2, <1>3, TypeHolds, PTL DEF Spec

-----------------------------------------------------------------------------
(* One carrier at a time *)

Handlers(j) == {t \in Thread : worker[t].job = j}

(* The n-th callback left to instance i will send a message of the job.      *)
Pending(i, n, j) ==
    /\ n \in 1..Len(callbacks[i]) /\ callbacks[i][n].job = j
    /\ \/ callbacks[i][n].kind = "settle"
       \/ /\ callbacks[i][n].kind = "nack"
          /\ unacked[i] # None /\ unacked[i].by = callbacks[i][n].by

NoneLeft(j) == \A i \in Instance, n \in Nat : ~Pending(i, n, j)

(* A request, a message, a worker thread or a callback carries the job, and  *)
(* nothing else does.                                                        *)
Once(j) ==
    /\ j \in request => Waiting(j) = {} /\ Handlers(j) = {} /\ NoneLeft(j)
    /\ \A m \in Waiting(j) :
          Waiting(j) = {m} /\ queue[m] = 1 /\ Handlers(j) = {} /\ NoneLeft(j)
    /\ \A t \in Handlers(j) : Handlers(j) = {t} /\ NoneLeft(j)
    /\ \A i, l \in Instance, n, o \in Nat :
          Pending(i, n, j) /\ Pending(l, o, j) => i = l /\ n = o
    /\ job[j] = None => j \notin request /\ Waiting(j) = {} /\ Handlers(j) = {} /\ NoneLeft(j)

(* The carrier knows of each failure but the last.                           *)
Bound(j) ==
    /\ failures[j] <= JobRetries[j] + 1
    /\ \A m \in Waiting(j) : failures[j] <= m.count /\ failures[j] <= JobRetries[j]
    /\ \A t \in Handlers(j) :
          /\ failures[j] <= worker[t].count + 1
          /\ worker[t].at # "failing" =>
                failures[j] <= worker[t].count /\ failures[j] <= JobRetries[j]
    /\ \A i \in Instance, n \in Nat : Pending(i, n, j) =>
          /\ failures[j] <= callbacks[i][n].count + 1
          /\ callbacks[i][n].kind = "nack" =>
                failures[j] <= callbacks[i][n].count /\ failures[j] <= JobRetries[j]

OnceInv == \A j \in Job \ again : Once(j) /\ Bound(j)

(* Nothing new carries k.                                                    *)
LEMMA OnceSame ==
    ASSUME NEW k \in Job, Once(k), Bound(k),
           k \in request' => k \in request,
           Waiting(k)' \subseteq Waiting(k), \A m \in Waiting(k)' : queue'[m] = queue[m],
           \A t \in Handlers(k)' :
              /\ t \in Handlers(k) /\ worker'[t].count = worker[t].count
              /\ worker[t].at = "failing" => worker'[t].at = "failing",
           \A i \in Instance, n \in Nat : Pending(i, n, k)' =>
              Pending(i, n, k) /\ callbacks'[i][n] = callbacks[i][n],
           job'[k] = None => job[k] = None, failures'[k] = failures[k]
    PROVE  Once(k)' /\ Bound(k)'
<1>1. NoneLeft(k) => NoneLeft(k)'
  BY DEF NoneLeft
<1>2. Handlers(k) = {} => Handlers(k)' = {}
  OBVIOUS
<1>3. \A m \in Waiting(k)' :
          Waiting(k)' = {m} /\ queue'[m] = 1 /\ Handlers(k)' = {} /\ NoneLeft(k)'
  BY <1>1, <1>2 DEF Once
<1>4. \A t \in Handlers(k)' : Handlers(k)' = {t} /\ NoneLeft(k)'
  BY <1>1 DEF Once
<1>5. \A i, l \in Instance, n, o \in Nat :
          Pending(i, n, k)' /\ Pending(l, o, k)' => i = l /\ n = o
  BY DEF Once
<1>6. Once(k)'
  BY <1>1, <1>2, <1>3, <1>4, <1>5 DEF Once
<1>7. Bound(k)'
  BY DEF Bound
<1>. QED
  BY <1>6, <1>7

(* Only a message carries k.                                                 *)
Single(C, k, f) ==
    \A e \in On(C, k) :
        On(C, k) = {e} /\ C[e] = 1 /\ f <= e.count /\ f <= JobRetries[k]

LEMMA ToMessage ==
    ASSUME NEW k \in Job, Single(queue', k, failures'[k]), k \notin request',
           Handlers(k)' = {}, NoneLeft(k)', job'[k] # None, failures'[k] <= JobRetries[k] + 1
    PROVE  Once(k)' /\ Bound(k)'
<1>1. \A m \in Waiting(k)' : Waiting(k)' = {m} /\ queue'[m] = 1
          /\ failures'[k] <= m.count /\ failures'[k] <= JobRetries[k]
  BY WaitingNext DEF Single
<1>2. Once(k)'
  BY <1>1 DEF Once, NoneLeft
<1>3. Bound(k)'
  BY <1>1 DEF Bound, NoneLeft
<1>. QED
  BY <1>2, <1>3

LEMMA Numbers ==
    ASSUME TypeInv, BrokerQueueAssumption, NEW k \in Job
    PROVE  failures[k] \in Nat /\ JobRetries[k] \in Nat
BY DEF TypeInv, TypeOK, BrokerQueueAssumption

(* A message of another job, or a dead one, is added.                        *)
LEMMA KeptAdded ==
    ASSUME NEW B, IsABag(B), NEW k, NEW j, NEW c, NEW a, j # k \/ a = "dead"
    PROVE  /\ On(B (+) Msg(j, c, a), k) = On(B, k)
           /\ \A e \in On(B, k) : (B (+) Msg(j, c, a))[e] = B[e]
<1>. DEFINE m == Mail(j, c, a)
<1>1. Msg(j, c, a) = SetToBag({m}) /\ (m.job # k \/ m.at = "dead")
  BY MailIs
<1>. HIDE DEF m
<1>2. On(B (+) SetToBag({m}), k) = On(B, k)
  BY <1>1, OnAdded
<1>3. \A e \in On(B, k) : e \in BagToSet(B) /\ e # m
  BY <1>1 DEF On
<1>4. \A e \in BagToSet(B) : e # m => (B (+) SetToBag({m}))[e] = B[e]
  BY AddedCopies
<1>. QED
  BY <1>1, <1>2, <1>3, <1>4

(* The first message of the job is added.                                    *)
LEMMA SingleAdded ==
    ASSUME NEW B, IsABag(B), NEW k, NEW c, NEW a, On(B, k) = {}, NEW f,
           a # "dead" => f <= c /\ f <= JobRetries[k]
    PROVE  Single(B (+) Msg(k, c, a), k, f)
<1>. DEFINE m == Mail(k, c, a)
<1>1. Msg(k, c, a) = SetToBag({m}) /\ m.job = k /\ m.count = c /\ m.at = a
  BY MailIs
<1>. HIDE DEF m
<1>2. CASE a = "dead"
  <2>1. On(B (+) SetToBag({m}), k) = {}
    BY <1>1, <1>2, OnAdded
  <2>. QED
    BY <1>1, <2>1 DEF Single
<1>3. CASE a # "dead"
  <2>1. On(B (+) SetToBag({m}), k) = {m}
    BY <1>1, <1>3, OnAdded
  <2>2. m \notin BagToSet(B)
    BY <1>1, <1>3 DEF On
  <2>3. (B (+) SetToBag({m}))[m] = 1
    BY <2>2, AddedCopies
  <2>. QED
    BY <1>1, <1>3, <2>1, <2>3 DEF Single
<1>. QED
  BY <1>2, <1>3

(* A message of the job j is taken away.                                     *)
LEMMA TakenAway ==
    ASSUME TypeInv, NEW j, NEW m \in Waiting(j), NEW q, q = queue (-) SetToBag({m})
    PROVE  Typed(q) /\ (Waiting(j) = {m} /\ queue[m] = 1 => On(q, j) = {})
<1>1. m \in BagToSet(queue) /\ Typed(queue)
  BY Types DEF Waiting
<1>2. /\ BagToSet(q) \subseteq BagToSet(queue)
      /\ queue[m] = 1 => m \notin BagToSet(q)
  BY <1>1, Removed DEF Typed
<1>3. Typed(q)
  BY <1>1, TypedRemoved
<1>4. Waiting(j) = {m} /\ queue[m] = 1 => On(q, j) = {}
  BY <1>2 DEF On, Waiting
<1>. QED
  BY <1>3, <1>4

LEMMA OthersKept ==
    ASSUME TypeInv, NEW j, NEW m \in Waiting(j), NEW q, q = queue (-) SetToBag({m}),
           NEW k, k # j
    PROVE  On(q, k) = On(queue, k) /\ \A e \in On(queue, k) : q[e] = queue[e]
<1>1. m \in BagToSet(queue) /\ m.job = j /\ Typed(queue)
  BY Types DEF Waiting
<1>2. /\ BagToSet(q) \subseteq BagToSet(queue)
      /\ \A e \in BagToSet(queue) : e # m => e \in BagToSet(q)
      /\ \A e \in BagToSet(q) : e # m => q[e] = queue[e]
  BY <1>1, Removed DEF Typed
<1>. QED
  BY <1>1, <1>2 DEF On

(* A step of a worker thread: what still handles k, and what is left for it. *)
LEMMA WorkFrame ==
    ASSUME TypeInv, BrokerQueueAssumption, NEW t \in Thread, worker[t].at # "idle",
           NEW w, Goes(t, w), NEW k \in Job
    PROVE  /\ \A u \in Handlers(k)' :
                 /\ u \in Handlers(k) /\ worker'[u].count = worker[u].count
                 /\ u # t => worker'[u] = worker[u]
                 /\ u = t => w # Idle /\ worker'[u] = w
           /\ Handlers(k)' \subseteq Handlers(k)
<1>1. /\ worker' \in [Thread -> Working \cup {Idle}] /\ worker'[t] = w
      /\ \A u \in Thread : u # t => worker'[u] = worker[u]
  BY GoesIs
<1>2. ASSUME NEW u \in Handlers(k)'
      PROVE  /\ u \in Handlers(k) /\ worker'[u].count = worker[u].count
             /\ u # t => worker'[u] = worker[u]
             /\ u = t => w # Idle /\ worker'[u] = w
  <2>1. u \in Thread /\ worker'[u].job = k
    BY DEF Handlers
  <2>2. CASE u # t
    BY <1>1, <2>1, <2>2 DEF Handlers
  <2>3. CASE u = t
    <3>1. w # Idle
      BY <1>1, <2>1, <2>3, IdleIs
    <3>. QED
      BY <1>1, <2>1, <2>3, <3>1 DEF Handlers, Goes
  <2>. QED
    BY <2>2, <2>3
<1>. QED
  BY <1>2

LEMMA LeftFrame ==
    ASSUME TypeInv, NEW t \in Thread, worker[t].at # "idle", NEW k \in Job,
           \/ callbacks' = callbacks
           \/ Leave(t, "ack")
           \/ k # worker[t].job /\ \E kind \in {"ack", "nack", "settle"} : Leave(t, kind),
           UNCHANGED unacked
    PROVE  \A i \in Instance, n \in Nat : Pending(i, n, k)' =>
              Pending(i, n, k) /\ callbacks'[i][n] = callbacks[i][n]
<1>1. CASE callbacks' = callbacks
  BY <1>1 DEF Pending
<1>2. CASE callbacks' # callbacks
  <2>. DEFINE l == worker[t].inst
  <2>1. PICK kind \in {"ack", "nack", "settle"} :
            Leave(t, kind) /\ (kind = "ack" \/ k # worker[t].job)
    BY <1>2
  <2>2. PICK c \in Settlement :
            /\ c.kind = kind /\ c.job = worker[t].job
            /\ callbacks' = IF worker[t].open THEN [callbacks EXCEPT ![l] = Append(@, c)]
                            ELSE callbacks
    BY <2>1, LeaveIs
  <2>3. l \in Instance /\ callbacks' = [callbacks EXCEPT ![l] = Append(@, c)]
    BY <1>2, <2>2, Busy
  <2>4. /\ \A m \in Instance : m # l => callbacks'[m] = callbacks[m]
        /\ Len(callbacks[l]) \in Nat /\ Len(callbacks'[l]) = Len(callbacks[l]) + 1
        /\ \A n \in 1..Len(callbacks[l]) : callbacks'[l][n] = callbacks[l][n]
        /\ callbacks'[l][Len(callbacks[l]) + 1] = c
    BY <2>3, Appended
  <2>5. c.kind = "ack" \/ c.job # k
    BY <2>1, <2>2
  <2>. HIDE DEF l
  <2>6. ASSUME NEW i \in Instance, NEW n \in Nat, Pending(i, n, k)'
        PROVE  Pending(i, n, k) /\ callbacks'[i][n] = callbacks[i][n]
    <3>1. CASE i # l
      BY <2>4, <2>6, <3>1 DEF Pending
    <3>2. CASE i = l
      <4>1. n \in 1..Len(callbacks'[l]) /\ callbacks'[l][n].job = k /\ callbacks'[l][n].kind # "ack"
        BY <2>6, <3>2 DEF Pending
      <4>2. n # Len(callbacks[l]) + 1
        BY <2>4, <2>5, <4>1
      <4>3. n \in 1..Len(callbacks[l])
        BY <2>4, <4>1, <4>2
      <4>4. callbacks'[i][n] = callbacks[i][n]
        BY <2>4, <3>2, <4>3
      <4>. QED
        BY <2>6, <3>2, <4>3, <4>4 DEF Pending
    <3>. QED
      BY <3>1, <3>2
  <2>. QED
    BY <2>6
<1>. QED
  BY <1>1, <1>2

(* A step that sends nothing for k.                                          *)
LEMMA OnceWork ==
    ASSUME TypeInv, BrokerQueueAssumption, NEW t \in Thread, worker[t].at # "idle",
           NEW w, Goes(t, w), NEW k \in Job, Once(k), Bound(k),
           \/ callbacks' = callbacks
           \/ Leave(t, "ack")
           \/ k # worker[t].job /\ \E kind \in {"ack", "nack", "settle"} : Leave(t, kind),
           worker[t].at = "failing" => w = Idle,
           Waiting(k)' \subseteq Waiting(k), \A m \in Waiting(k)' : queue'[m] = queue[m],
           job'[k] = None => job[k] = None, failures'[k] = failures[k],
           UNCHANGED <<unacked, request>>
    PROVE  Once(k)' /\ Bound(k)'
<1>1. \A u \in Handlers(k)' :
          /\ u \in Handlers(k) /\ worker'[u].count = worker[u].count
          /\ worker[u].at = "failing" => worker'[u].at = "failing"
  BY WorkFrame
<1>2. \A i \in Instance, n \in Nat : Pending(i, n, k)' =>
          Pending(i, n, k) /\ callbacks'[i][n] = callbacks[i][n]
  BY LeftFrame
<1>. QED
  BY <1>1, <1>2, OnceSame

(* Requests, the broker and recovery: k is kept.                             *)
LEMMA OnceStore ==
    ASSUME NEW k \in Job, Once(k), Bound(k), k \in request' => k \in request,
           Waiting(k)' \subseteq Waiting(k), \A m \in Waiting(k)' : queue'[m] = queue[m],
           job'[k] = None => job[k] = None, failures'[k] = failures[k],
           UNCHANGED <<unacked, callbacks, worker>>
    PROVE  Once(k)' /\ Bound(k)'
<1>1. \A u \in Handlers(k)' :
          /\ u \in Handlers(k) /\ worker'[u].count = worker[u].count
          /\ worker[u].at = "failing" => worker'[u].at = "failing"
  BY DEF Handlers
<1>2. \A i \in Instance, n \in Nat : Pending(i, n, k)' =>
          Pending(i, n, k) /\ callbacks'[i][n] = callbacks[i][n]
  BY DEF Pending
<1>. QED
  BY <1>1, <1>2, OnceSame

(* Nothing carries the job, and a request is made.                           *)
LEMMA ToRequest ==
    ASSUME TypeInv, NEW k \in Job, Bound(k), k \in request', job'[k] # None,
           Waiting(k) = {}, Handlers(k) = {}, NoneLeft(k),
           UNCHANGED <<queue, unacked, callbacks, worker, failures>>
    PROVE  Once(k)' /\ Bound(k)'
<1>1. Waiting(k)' = {} /\ Handlers(k)' = {}
  BY DEF Waiting, Handlers
<1>2. NoneLeft(k)'
  BY DEF NoneLeft, Pending
<1>3. Once(k)'
  BY <1>1, <1>2 DEF Once, NoneLeft
<1>4. Bound(k)'
  BY <1>1, <1>2 DEF Bound, NoneLeft
<1>. QED
  BY <1>3, <1>4

LEMMA NotCarried ==
    ASSUME TypeInv, NEW j \in Job, ~Carried(j)
    PROVE  Waiting(j) = {} /\ Handlers(j) = {} /\ NoneLeft(j)
<1>1. Waiting(j) = {} /\ Handlers(j) = {}
  BY DEF Carried, Handlers
<1>2. ASSUME NEW i \in Instance, NEW n \in Nat, Pending(i, n, j) PROVE FALSE
  <2>1. n \in 1..Len(callbacks[i]) /\ callbacks[i][n].job = j
    BY <1>2 DEF Pending
  <2>2. callbacks[i][n].kind # "settle"
    BY <2>1 DEF Carried
  <2>3. unacked[i] # None /\ unacked[i].by = callbacks[i][n].by
    BY <1>2, <2>2 DEF Pending
  <2>4. unacked[i].job = j
    BY <2>1, <2>3 DEF TypeInv, Linked
  <2>. QED
    BY <2>3, <2>4 DEF Carried
<1>. QED
  BY <1>1, <1>2 DEF NoneLeft

LEMMA OnceJobs ==
    ASSUME TypeInv, OnceInv, BrokerQueueAssumption, NEW j \in Job,
           \/ Create(j) \/ Put(j) \/ PutFails(j) \/ Rerun(j)
           \/ Delete(j) \/ Restore(j) \/ Recover(j)
           \/ \E m \in Waiting(j) : Expire(m)
    PROVE  OnceInv'
<1>. SUFFICES ASSUME NEW k \in Job, k \notin again'
              PROVE  Once(k)' /\ Bound(k)'
  BY DEF OnceInv
<1>0. /\ \A i \in Job : Readable(i) => job[i].runs \in Nat /\ job[i] # None
      /\ Typed(queue) /\ IsABag(queue)
  BY Types DEF Readable, Typed
<1>1. k \notin again /\ Once(k) /\ Bound(k)
  <2>1. again \subseteq again'
    BY DEF Create, Put, PutFails, Rerun, Delete, Restore, Recover, Expire, history
  <2>. QED
    BY <2>1 DEF OnceInv
<1>2. CASE Create(j)
  <2>1. /\ Save(j, "pending", 0) /\ request' = request \cup {j} /\ job[j] = None
        /\ UNCHANGED <<queue, unacked, callbacks, worker, failures>>
    BY <1>2 DEF Create, history
  <2>2. job'[j] # None /\ \A i \in Job : i # j => job'[i] = job[i]
    BY <2>1, Saved
  <2>3. CASE k = j
    <3>1. Waiting(k) = {} /\ Handlers(k) = {} /\ NoneLeft(k)
      BY <1>1, <2>1, <2>3 DEF Once
    <3>. QED
      BY <1>1, <2>1, <2>2, <2>3, <3>1, ToRequest
  <2>4. CASE k # j
    BY <1>1, <2>1, <2>2, <2>4, OnceStore, WaitingIs, WaitingNext
  <2>. QED
    BY <2>3, <2>4
<1>3. CASE Put(j)
  <2>1. /\ j \in request /\ request' = request \ {j}
        /\ UNCHANGED <<job, unacked, callbacks, worker>>
    BY <1>3 DEF Put, store
  <2>2. CASE ~Readable(j)
    <3>1. queue' = queue /\ failures' = failures
      BY <1>3, <2>2 DEF Put
    <3>. QED
      BY <1>1, <2>1, <3>1, OnceStore, WaitingIs, WaitingNext
  <2>3. CASE Readable(j)
    <3>. DEFINE a == IF j \in Delayed /\ job[j].runs = 0 THEN "periodic" ELSE "main"
    <3>1. queue' = queue (+) Msg(j, 0, a) /\ failures' = [failures EXCEPT ![j] = 0]
      BY <1>3, <2>3 DEF Put, Publish
    <3>. HIDE DEF a
    <3>2. failures'[j] = 0 /\ \A i \in Job : i # j => failures'[i] = failures[i]
      BY <3>1 DEF TypeInv, TypeOK
    <3>3. CASE k = j
      <4>1. Waiting(k) = {} /\ Handlers(k) = {} /\ NoneLeft(k)
        BY <1>1, <2>1, <3>3 DEF Once
      <4>2. Single(queue', k, 0)
        BY <1>0, <3>1, <3>3, <4>1, Numbers, SingleAdded, WaitingIs
      <4>3. Handlers(k)' = {} /\ NoneLeft(k)'
        BY <2>1, <4>1 DEF Handlers, NoneLeft, Pending
      <4>4. job'[k] # None /\ k \notin request' /\ failures'[k] <= JobRetries[k] + 1
        BY <1>0, <2>1, <2>3, <3>2, <3>3, Numbers
      <4>. QED
        BY <3>2, <3>3, <4>2, <4>3, <4>4, ToMessage
    <3>4. CASE k # j
      <4>1. /\ On(queue', k) = On(queue, k)
            /\ \A e \in On(queue, k) : queue'[e] = queue[e]
        BY <1>0, <3>1, <3>4, KeptAdded
      <4>. QED
        BY <1>1, <2>1, <3>2, <3>4, <4>1, OnceStore, WaitingIs, WaitingNext
    <3>. QED
      BY <3>3, <3>4
  <2>. QED
    BY <2>2, <2>3
<1>4. CASE PutFails(j)
  <2>1. /\ request' = request \ {j}
        /\ UNCHANGED <<job, queue, unacked, callbacks, worker, failures>>
    BY <1>4 DEF PutFails, store
  <2>. QED
    BY <1>1, <2>1, OnceStore, WaitingIs, WaitingNext
<1>5. CASE Rerun(j)
  <2>1. /\ Save(j, "pending", job[j].runs) /\ job[j].runs \in Nat /\ request' = request \cup {j}
        /\ UNCHANGED <<queue, unacked, callbacks, worker, failures>>
    BY <1>0, <1>5 DEF Rerun
  <2>2. job'[j] # None /\ \A i \in Job : i # j => job'[i] = job[i]
    BY <2>1, Saved
  <2>3. CASE k = j
    <3>1. ~Carried(k)
      BY <1>5, <2>3 DEF Rerun
    <3>2. Waiting(k) = {} /\ Handlers(k) = {} /\ NoneLeft(k)
      BY <3>1, NotCarried
    <3>. QED
      BY <1>1, <2>1, <2>2, <2>3, <3>2, ToRequest
  <2>4. CASE k # j
    BY <1>1, <2>1, <2>2, <2>4, OnceStore, WaitingIs, WaitingNext
  <2>. QED
    BY <2>3, <2>4
<1>6. CASE Delete(j) \/ Restore(j)
  <2>1. UNCHANGED <<job, request, queue, unacked, callbacks, worker, failures>>
    BY <1>6 DEF Delete, Restore, history, client
  <2>. QED
    BY <1>1, <2>1, OnceStore, WaitingIs, WaitingNext
<1>7. CASE Recover(j)
  <2>1. /\ Save(j, "failed", job[j].runs) /\ job[j].runs \in Nat
        /\ UNCHANGED <<request, queue, unacked, callbacks, worker, failures>>
    BY <1>0, <1>7 DEF Recover, history, client
  <2>2. job'[j] # None /\ \A i \in Job : i # j => job'[i] = job[i]
    BY <2>1, Saved
  <2>. QED
    BY <1>1, <2>1, <2>2, OnceStore, WaitingIs, WaitingNext
<1>8. ASSUME NEW m \in Waiting(j), Expire(m) PROVE Once(k)' /\ Bound(k)'
  <2>. DEFINE q == queue (-) SetToBag({m})
  <2>0. UNCHANGED <<job, request, unacked, callbacks, worker, failures>>
    BY <1>8 DEF Expire, store, client, history
  <2>1. m.job = j /\ m.count \in Nat
    BY <1>0 DEF Waiting, Typed, Message
  <2>2. queue' = q (+) Msg(j, m.count, "main")
    BY <1>8, <2>1 DEF Expire
  <2>q. q = queue (-) SetToBag({m})
    OBVIOUS
  <2>. HIDE DEF q
  <2>3. Typed(q) /\ (Waiting(j) = {m} /\ queue[m] = 1 => On(q, j) = {})
    BY <2>q, TakenAway
  <2>4. IsABag(q)
    BY <2>3 DEF Typed
  <2>5. CASE k = j
    <3>1. Waiting(k) = {m} /\ queue[m] = 1 /\ Handlers(k) = {} /\ NoneLeft(k) /\ k \notin request
          /\ job[k] # None
      BY <1>1, <1>8, <2>5 DEF Once
    <3>2. failures[k] <= m.count /\ failures[k] <= JobRetries[k] /\ failures[k] <= JobRetries[k] + 1
      BY <1>1, <1>8, <2>5 DEF Bound
    <3>3. Single(queue', k, failures[k])
      BY <2>2, <2>3, <2>4, <2>5, <3>1, <3>2, SingleAdded
    <3>4. Handlers(k)' = {} /\ NoneLeft(k)'
      BY <2>0, <3>1 DEF Handlers, NoneLeft, Pending
    <3>. QED
      BY <2>0, <3>1, <3>2, <3>3, <3>4, ToMessage
  <2>6. CASE k # j
    <3>1. /\ On(queue', k) = On(q, k)
          /\ \A e \in On(q, k) : queue'[e] = q[e]
      BY <2>2, <2>4, <2>6, KeptAdded
    <3>2. On(q, k) = On(queue, k) /\ \A e \in On(queue, k) : q[e] = queue[e]
      BY <2>q, <2>6, OthersKept
    <3>. QED
      BY <1>1, <2>0, <2>6, <3>1, <3>2, OnceStore, WaitingIs, WaitingNext
  <2>. QED
    BY <2>5, <2>6
<1>. QED
  BY <1>2, <1>3, <1>4, <1>5, <1>6, <1>7, <1>8

LEMMA OnceReceive ==
    ASSUME TypeInv, OnceInv, BrokerQueueAssumption, NEW j \in Job, Receive(j)
    PROVE  OnceInv'
<1>. SUFFICES ASSUME NEW k \in Job, k \notin again'
              PROVE  Once(k)' /\ Bound(k)'
  BY DEF OnceInv
<1>1. PICK i \in Instance, m \in Waiting(j) : Deliver(i, m) \/ Refuse(i, m)
  BY DEF Receive
<1>0. m \in BagToSet(queue)
  BY DEF Waiting
<1>2. m.job = j /\ m.count \in Nat
  BY Types DEF Waiting, Typed, Message
<1>3. Once(k) /\ Bound(k)
  BY <1>1 DEF OnceInv, Deliver, Refuse, history
<1>q. PICK q : q = queue (-) SetToBag({m})
  OBVIOUS
<1>4. /\ Typed(q)
      /\ k # j => On(q, k) = On(queue, k) /\ \A e \in On(queue, k) : q[e] = queue[e]
      /\ Waiting(j) = {m} /\ queue[m] = 1 => On(q, j) = {}
  <2>1. Typed(q)
    BY <1>q, TakenAway
  <2>2. ASSUME k # j
        PROVE  On(q, k) = On(queue, k) /\ \A e \in On(queue, k) : q[e] = queue[e]
    BY <1>q, <2>2, OthersKept
  <2>4. Waiting(j) = {m} /\ queue[m] = 1 => On(q, j) = {}
    BY <1>q, TakenAway
  <2>. QED
    BY <2>1, <2>2, <2>4
<1>5. k = j => /\ Waiting(k) = {m} /\ queue[m] = 1 /\ Handlers(k) = {} /\ NoneLeft(k)
               /\ k \notin request /\ job[k] # None
               /\ failures[k] <= m.count /\ failures[k] <= JobRetries[k]
               /\ failures[k] <= JobRetries[k] + 1
  BY <1>3 DEF Once, Bound
<1>6. CASE Deliver(i, m)
  <2>1. PICK t \in Thread, d \in Delivery, w \in Working :
              /\ worker[t].at = "idle"
              /\ \A l \in Instance :
                    /\ unacked[l] # None => unacked[l].by # t
                    /\ \A n \in 1..Len(callbacks[l]) : callbacks[l][n].by # t
              /\ consumer[i] = "on" /\ unacked[i] = None
              /\ m \in Message /\ m.at = "main" /\ Readable(m.job)
              /\ queue' = queue (-) SetToBag({m})
              /\ job' = [job EXCEPT ![m.job] = [status |-> "processing", runs |-> job[m.job].runs]]
              /\ d.job = m.job /\ d.by = t
              /\ unacked' = [unacked EXCEPT ![i] = d]
              /\ w.at = "run" /\ w.inst = i /\ w.job = m.job /\ w.count = m.count /\ w.open
              /\ worker' = [worker EXCEPT ![t] = w]
              /\ UNCHANGED <<deleted, client, consumer, callbacks, history, faults>>
    BY <1>0, <1>6, DeliverIs
  <2>2. queue' = q
    BY <1>q, <2>1
  <2>3. /\ UNCHANGED <<request, callbacks, failures>>
        /\ unacked'[i] = d /\ \A l \in Instance : l # i => unacked'[l] = unacked[l]
        /\ worker'[t] = w /\ \A u \in Thread : u # t => worker'[u] = worker[u]
    BY <2>1 DEF TypeInv, TypeOK, client, history
  <2>4. Save(m.job, "processing", job[m.job].runs) /\ job[m.job].runs \in Nat /\ m.job \in Job
    BY <1>6, <2>1, Types DEF Deliver, Readable, Message
  <2>5. job'[m.job] # None /\ \A l \in Job : l # m.job => job'[l] = job[l]
    BY <2>4, Saved
  <2>6. \A l \in Instance, n \in Nat : Pending(l, n, k)' =>
            Pending(l, n, k) /\ callbacks'[l][n] = callbacks[l][n]
    <3>. SUFFICES ASSUME NEW l \in Instance, NEW n \in Nat, Pending(l, n, k)'
                  PROVE  Pending(l, n, k)
      BY <2>3
    <3>1. CASE l # i
      BY <2>3, <3>1 DEF Pending
    <3>2. CASE l = i
      <4>1. n \in 1..Len(callbacks[i]) /\ callbacks[i][n].by # t
        BY <2>1, <2>3, <3>2 DEF Pending
      <4>2. unacked'[i].by = t
        BY <2>1, <2>3
      <4>. QED
        BY <2>3, <3>2, <4>1, <4>2 DEF Pending
    <3>. QED
      BY <3>1, <3>2
  <2>7. CASE k = j
    <3>1. Waiting(k)' = {}
      BY <1>4, <1>5, <2>2, <2>7, WaitingNext
    <3>2. Handlers(k)' = {t}
      BY <1>2, <1>5, <2>1, <2>3, <2>7 DEF Handlers
    <3>3. NoneLeft(k)'
      BY <1>5, <2>6, <2>7 DEF NoneLeft
    <3>4. k \notin request' /\ job'[k] # None
      BY <1>2, <1>5, <2>3, <2>5, <2>7
    <3>5. Once(k)'
      BY <3>1, <3>2, <3>3, <3>4 DEF Once, NoneLeft
    <3>6. failures'[k] <= w.count + 1 /\ failures'[k] <= w.count
      BY <1>2, <1>5, <2>1, <2>3, <2>7, Numbers
    <3>7. Bound(k)'
      BY <1>5, <2>3, <2>7, <3>1, <3>2, <3>3, <3>6 DEF Bound, NoneLeft
    <3>. QED
      BY <3>5, <3>7
  <2>8. CASE k # j
    <3>1. \A u \in Handlers(k)' :
              /\ u \in Handlers(k) /\ worker'[u].count = worker[u].count
              /\ worker[u].at = "failing" => worker'[u].at = "failing"
      BY <1>2, <2>1, <2>3, <2>8 DEF Handlers
    <3>2. Waiting(k)' \subseteq Waiting(k) /\ \A e \in Waiting(k)' : queue'[e] = queue[e]
      BY <1>4, <2>2, <2>8, WaitingIs, WaitingNext
    <3>3. job'[k] = job[k]
      BY <1>2, <2>5, <2>8
    <3>. QED
      BY <1>3, <2>3, <2>6, <3>1, <3>2, <3>3, OnceSame
  <2>. QED
    BY <2>7, <2>8
<1>7. CASE Refuse(i, m)
  <2>0. /\ UNCHANGED <<job, request, unacked, callbacks, worker, failures>>
        /\ queue' = q (+) Resend(m.job, m.count, FALSE, MaxRetries)
    BY <1>q, <1>7 DEF Refuse, store, client
  <2>1. PICK c \in Nat, a \in {"retry", "dead"} :
            /\ Resend(m.job, m.count, FALSE, MaxRetries) = Msg(m.job, c, a)
            /\ a = "retry" => c = m.count + 1
    <3>1. m.count \in Nat /\ MaxRetries \in Nat
      BY <1>2 DEF BrokerQueueAssumption
    <3>2. \E c \in Nat : \E a \in {"retry", "dead"} :
              /\ Resend(m.job, m.count, FALSE, MaxRetries) = Msg(m.job, c, a)
              /\ a = "retry" => ~FALSE /\ m.count < MaxRetries /\ c = m.count + 1
      BY <3>1, ResendIs
    <3>. QED
      BY <3>2
  <2>2. queue' = q (+) Msg(j, c, a) /\ IsABag(q)
    BY <1>2, <1>4, <2>0, <2>1 DEF Typed
  <2>3. CASE k = j
    <3>1. a # "dead" => failures[k] <= c /\ failures[k] <= JobRetries[k]
      BY <1>2, <1>5, <2>1, <2>3, Numbers
    <3>2. Single(queue', k, failures[k])
      BY <1>4, <1>5, <2>2, <2>3, <3>1, SingleAdded
    <3>3. Handlers(k)' = {} /\ NoneLeft(k)'
      BY <1>5, <2>0, <2>3 DEF Handlers, NoneLeft, Pending
    <3>. QED
      BY <1>5, <2>0, <2>3, <3>2, <3>3, ToMessage
  <2>4. CASE k # j
    <3>1. /\ On(queue', k) = On(q, k)
          /\ \A e \in On(q, k) : queue'[e] = q[e]
      BY <2>2, <2>4, KeptAdded
    <3>. QED
      BY <1>3, <1>4, <2>0, <2>4, <3>1, OnceStore, WaitingIs, WaitingNext
  <2>. QED
    BY <2>3, <2>4
<1>. QED
  BY <1>1, <1>6, <1>7

LEMMA OnlyWorker ==
    ASSUME NEW k, Once(k), NEW t \in Handlers(k)
    PROVE  /\ k \notin request /\ Waiting(k) = {} /\ Handlers(k) = {t} /\ NoneLeft(k)
           /\ job[k] # None
BY DEF Once

(* The worker thread of k ends, and leaves what carries it on.               *)
LEMMA OnceLeft ==
    ASSUME TypeInv, BrokerQueueAssumption, NEW t \in Thread, worker[t].at # "idle",
           Goes(t, Idle), NEW kind \in {"nack", "settle"}, Leave(t, kind),
           NEW k \in Job, k = worker[t].job, Once(k), Bound(k),
           kind = "nack" => worker[t].at # "failing",
           job'[k] = None => job[k] = None, UNCHANGED <<unacked, request, queue, failures>>
    PROVE  Once(k)' /\ Bound(k)'
<1>0. t \in Handlers(k)
  BY DEF Handlers
<1>1. /\ k \notin request /\ Waiting(k) = {} /\ Handlers(k) = {t} /\ NoneLeft(k)
      /\ job[k] # None
  BY <1>0, OnlyWorker
<1>2. k \notin request' /\ Waiting(k)' = {} /\ job'[k] # None
  BY <1>1, WaitingIs, WaitingNext
<1>3. Handlers(k)' = {}
  BY <1>1, WorkFrame
<1>4. /\ failures[k] <= worker[t].count + 1 /\ failures[k] <= JobRetries[k] + 1
      /\ kind = "nack" => failures[k] <= worker[t].count /\ failures[k] <= JobRetries[k]
  BY <1>0 DEF Bound
<1>5. CASE callbacks' = callbacks
  <2>1. NoneLeft(k)'
    BY <1>1, <1>5 DEF NoneLeft, Pending
  <2>2. Once(k)'
    BY <1>2, <1>3, <2>1 DEF Once, NoneLeft
  <2>3. Bound(k)'
    BY <1>2, <1>3, <1>4, <2>1 DEF Bound, NoneLeft
  <2>. QED
    BY <2>2, <2>3
<1>6. CASE callbacks' # callbacks
  <2>. DEFINE l == worker[t].inst
              e == Len(callbacks[l]) + 1
  <2>1. PICK c \in Settlement :
            /\ c.kind = kind /\ c.count = worker[t].count
            /\ callbacks' = IF worker[t].open THEN [callbacks EXCEPT ![l] = Append(@, c)]
                            ELSE callbacks
    BY LeaveIs
  <2>2. l \in Instance /\ callbacks' = [callbacks EXCEPT ![l] = Append(@, c)]
    BY <1>6, <2>1, Busy
  <2>3. /\ \A m \in Instance : m # l => callbacks'[m] = callbacks[m]
        /\ Len(callbacks[l]) \in Nat /\ Len(callbacks'[l]) = Len(callbacks[l]) + 1
        /\ \A n \in 1..Len(callbacks[l]) : callbacks'[l][n] = callbacks[l][n]
        /\ callbacks'[l][Len(callbacks[l]) + 1] = c
    BY <2>2, Appended
  <2>. HIDE DEF l
  <2>4. ASSUME NEW i \in Instance, NEW n \in Nat, Pending(i, n, k)'
        PROVE  i = l /\ n = e
    <3>0. ~Pending(i, n, k)
      BY <1>1 DEF NoneLeft
    <3>1. CASE i # l
      BY <2>3, <2>4, <3>0, <3>1 DEF Pending
    <3>2. CASE i = l /\ n # e
      <4>1. n \in 1..Len(callbacks[l])
        BY <2>3, <2>4, <3>2 DEF Pending
      <4>2. callbacks'[i][n] = callbacks[i][n]
        BY <2>3, <3>2, <4>1
      <4>. QED
        BY <2>4, <3>0, <3>2, <4>1, <4>2 DEF Pending
    <3>. QED
      BY <3>1, <3>2
  <2>5. Once(k)'
    BY <1>2, <1>3, <2>4 DEF Once
  <2>6. callbacks'[l][e].count = worker[t].count /\ callbacks'[l][e].kind = kind
    BY <2>1, <2>3
  <2>7. Bound(k)'
    BY <1>2, <1>3, <1>4, <2>4, <2>6 DEF Bound
  <2>. QED
    BY <2>5, <2>7
<1>. QED
  BY <1>5, <1>6

(* A handler of k raises.                                                    *)
LEMMA OnceFailing ==
    ASSUME TypeInv, BrokerQueueAssumption, NEW t \in Thread, worker[t].at = "run",
           NEW w, Goes(t, w), w.at = "failing", NEW k \in Job, k = worker[t].job,
           Once(k), Bound(k), failures'[k] = failures[k] + 1,
           UNCHANGED <<job, request, queue, callbacks, unacked>>
    PROVE  Once(k)' /\ Bound(k)'
<1>0. t \in Handlers(k)
  BY DEF Handlers
<1>1. /\ k \notin request /\ Waiting(k) = {} /\ Handlers(k) = {t} /\ NoneLeft(k)
      /\ job[k] # None
  BY <1>0, OnlyWorker
<1>2. k \notin request' /\ Waiting(k)' = {} /\ job'[k] # None
  BY <1>1, WaitingIs, WaitingNext
<1>3. NoneLeft(k)'
  BY <1>1 DEF NoneLeft, Pending
<1>4. worker'[t] = w /\ w.job = k /\ w.count = worker[t].count
  BY GoesIs, IdleIs DEF Goes
<1>5. Handlers(k)' = {t}
  <2>1. Handlers(k)' \subseteq {t}
    BY <1>1, WorkFrame
  <2>2. t \in Handlers(k)'
    BY <1>4 DEF Handlers
  <2>. QED
    BY <2>1, <2>2
<1>6. Once(k)'
  BY <1>2, <1>3, <1>5 DEF Once, NoneLeft
<1>7. failures[k] <= worker[t].count /\ failures[k] <= JobRetries[k]
  BY <1>0 DEF Bound
<1>8. failures'[k] <= w.count + 1 /\ failures'[k] <= JobRetries[k] + 1
  BY <1>4, <1>7, Numbers, Busy
<1>9. Bound(k)'
  BY <1>2, <1>3, <1>4, <1>5, <1>8 DEF Bound, NoneLeft
<1>. QED
  BY <1>6, <1>9

(* A worker thread saves the job.                                            *)
LEMMA StillStored ==
    ASSUME TypeInv, NEW j \in Job,
           \/ job' = job
           \/ \E runs \in Nat : \E status \in {"completed", "failed"} : Save(j, status, runs),
           NEW k \in Job
    PROVE  job'[k] = None => job[k] = None
<1>1. CASE job' = job
  BY <1>1
<1>2. ASSUME NEW runs \in Nat, NEW status \in {"completed", "failed"}, Save(j, status, runs)
      PROVE  job'[k] = None => job[k] = None
  <2>1. job'[j] # None /\ \A i \in Job : i # j => job'[i] = job[i]
    BY <1>2, Saved
  <2>. QED
    BY <2>1
<1>. QED
  BY <1>1, <1>2

LEMMA OnceWorker ==
    ASSUME TypeInv, OnceInv, BrokerQueueAssumption, NEW t \in Thread, Work(t) \/ ScheduleFails(t)
    PROVE  OnceInv'
<1>. SUFFICES ASSUME NEW k \in Job, k \notin again'
              PROVE  Once(k)' /\ Bound(k)'
  BY DEF OnceInv
<1>j. PICK j : j = worker[t].job
  OBVIOUS
<1>0. /\ IsABag(queue) /\ \A i \in Job : Readable(i) => job[i].runs \in Nat
      /\ failures \in [Job -> Nat]
  BY Types DEF Readable, Typed, TypeInv, TypeOK
<1>1. k \notin again /\ Once(k) /\ Bound(k)
  <2>1. again \subseteq again'
    BY DEF Work, Run, Complete, SaveFails, CountRun, DelayAck, DelaySave, Schedule, Fail, Abort,
           ScheduleFails, history
  <2>. QED
    BY <2>1 DEF OnceInv
<1>2. worker[t].at # "idle" => j \in Job
  BY <1>j, Busy
<1>3. ASSUME queue' = queue
      PROVE  Waiting(k)' \subseteq Waiting(k) /\ \A m \in Waiting(k)' : queue'[m] = queue[m]
  BY <1>3, WaitingIs, WaitingNext
<1>4. ASSUME NEW out \in Outcome, Run(t, out) PROVE Once(k)' /\ Bound(k)'
  <2>1. PICK w : /\ Goes(t, w) /\ w.at \in {"complete", "delay", "failing", "nack"}
                 /\ w.at = "failing" <=> out \in {"error", "noretry"}
    BY <1>4, RunGoes
  <2>2. worker[t].at = "run" /\ UNCHANGED <<job, request, queue, unacked, callbacks>>
    BY <1>4 DEF Run, store, client
  <2>3. /\ k # j => failures'[k] = failures[k]
        /\ failures'[k] = IF k = j /\ w.at = "failing" THEN failures[k] + 1 ELSE failures[k]
    <3>1. failures' = [failures EXCEPT ![j] =
              IF out \in {"error", "noretry"} THEN @ + 1 ELSE @]
      BY <1>4, <1>j DEF Run
    <3>. QED
      BY <1>0, <2>1, <3>1
  <2>4. CASE k = j /\ w.at = "failing"
    BY <1>1, <1>j, <2>1, <2>2, <2>3, <2>4, OnceFailing
  <2>5. CASE ~(k = j /\ w.at = "failing")
    BY <1>1, <1>3, <2>1, <2>2, <2>3, <2>5, OnceWork
  <2>. QED
    BY <2>4, <2>5
<1>5. CASE Complete(t)
  <2>1. PICK w : Goes(t, w)
    BY <1>5, CompleteGoes
  <2>2. /\ worker[t].at = "complete" /\ UNCHANGED <<request, queue, unacked, failures>>
        /\ callbacks' = callbacks \/ Leave(t, "ack")
    BY <1>5 DEF Complete, history, client
  <2>3. job'[k] = None => job[k] = None
    <3>1. Readable(j) /\ Save(j, "completed", job[j].runs)
      BY <1>5, <1>j DEF Complete
    <3>. QED
      BY <1>0, <1>2, <2>2, <3>1, StillStored
  <2>. QED
    BY <1>1, <1>3, <2>1, <2>2, <2>3, OnceWork
<1>6. CASE SaveFails(t)
  <2>1. /\ worker[t].at \in {"complete", "periodic"}
        /\ UNCHANGED <<job, request, queue, unacked, callbacks, failures>>
    BY <1>6 DEF SaveFails, store, history, client
  <2>2. PICK w : Goes(t, w)
    BY <1>6, <2>1, RaisesGoes DEF SaveFails
  <2>. QED
    BY <1>1, <1>3, <2>1, <2>2, OnceWork
<1>7. CASE CountRun(t)
  <2>1. worker[t].at = "periodic" /\ UNCHANGED <<request, queue, unacked, callbacks, failures>>
    BY <1>7 DEF CountRun, history, client
  <2>2. PICK w : Goes(t, w)
    BY <1>7, <2>1, GotoGoes, EndsGoes DEF CountRun
  <2>3. job'[k] = None => job[k] = None
    <3>1. Save(j, "completed", worker[t].runs + 1) /\ worker[t].runs + 1 \in Nat
      BY <1>7, <1>j, <2>1, Busy DEF CountRun
    <3>. QED
      BY <1>2, <2>1, <3>1, StillStored
  <2>. QED
    BY <1>1, <1>3, <2>1, <2>2, <2>3, OnceWork
<1>8. CASE DelayAck(t)
  <2>1. /\ worker[t].at = "delay" /\ Leave(t, "ack")
        /\ UNCHANGED <<job, request, queue, unacked, failures>>
    BY <1>8 DEF DelayAck, store, history, client
  <2>2. PICK w : Goes(t, w)
    BY <1>8, <2>1, GotoGoes, EndsGoes DEF DelayAck
  <2>. QED
    BY <1>1, <1>3, <2>1, <2>2, OnceWork
<1>9. CASE DelaySave(t)
  <2>1. /\ worker[t].at = "delaying"
        /\ UNCHANGED <<request, queue, unacked, callbacks, failures>>
    BY <1>9 DEF DelaySave, client
  <2>2. PICK w : Goes(t, w)
    BY <1>9, <2>1, GotoGoes, EndsGoes DEF DelaySave
  <2>3. job'[k] = None => job[k] = None
    <3>1. CASE Readable(j)
      <4>1. Save(j, "completed", job[j].runs)
        BY <1>9, <1>j, <3>1 DEF DelaySave
      <4>. QED
        BY <1>0, <1>2, <2>1, <3>1, <4>1, StillStored
    <3>2. CASE ~Readable(j)
      BY <1>9, <1>j, <3>2 DEF DelaySave
    <3>. QED
      BY <3>1, <3>2
  <2>. QED
    BY <1>1, <1>3, <2>1, <2>2, <2>3, OnceWork
<1>10. CASE /\ worker[t].at = "schedule" /\ queue' = queue (+) Msg(j, 0, "periodic") /\ k # j
            /\ UNCHANGED <<job, request, unacked, callbacks>> /\ \E w : Goes(t, w)
            /\ failures'[k] = failures[k]
  <2>1. PICK w : Goes(t, w)
    BY <1>10
  <2>2. On(queue', k) = On(queue, k) /\ \A e \in On(queue, k) : queue'[e] = queue[e]
    BY <1>0, <1>10, KeptAdded
  <2>3. Waiting(k)' \subseteq Waiting(k) /\ \A m \in Waiting(k)' : queue'[m] = queue[m]
    BY <2>2, WaitingIs, WaitingNext
  <2>. QED
    BY <1>1, <1>10, <2>1, <2>3, OnceWork
<1>11. CASE Schedule(t)
  <2>1. /\ worker[t].at = "schedule" /\ queue' = queue (+) Msg(j, 0, "periodic")
        /\ failures' = [failures EXCEPT ![j] = 0] /\ Ends(t)
        /\ UNCHANGED <<job, request, unacked, callbacks>>
    BY <1>11, <1>j DEF Schedule, Publish, store, client
  <2>2. Goes(t, Idle) /\ j \in Job
    BY <1>2, <2>1, EndsGoes
  <2>3. failures'[j] = 0 /\ (k # j => failures'[k] = failures[k])
    BY <1>0, <2>1, <2>2
  <2>4. CASE k # j
    BY <1>10, <2>1, <2>2, <2>3, <2>4
  <2>5. CASE k = j
    <3>0. t \in Handlers(k)
      BY <1>j, <2>5 DEF Handlers
    <3>1. k \notin request /\ Waiting(k) = {} /\ Handlers(k) = {t} /\ NoneLeft(k) /\ job[k] # None
      BY <1>1, <3>0, OnlyWorker
    <3>2. Single(queue', k, 0)
      BY <1>0, <2>1, <2>5, <3>1, Numbers, SingleAdded, WaitingIs
    <3>3. Handlers(k)' = {}
      BY <2>1, <2>2, <3>1, WorkFrame
    <3>4. NoneLeft(k)'
      BY <2>1, <3>1 DEF NoneLeft, Pending
    <3>5. failures'[k] = 0 /\ failures'[k] <= JobRetries[k] + 1
      BY <2>3, <2>5, Numbers
    <3>. QED
      BY <2>1, <3>1, <3>2, <3>3, <3>4, <3>5, ToMessage
  <2>. QED
    BY <2>4, <2>5
<1>12. CASE ScheduleFails(t)
  <2>1. /\ worker[t].at = "schedule" /\ UNCHANGED <<job, request, unacked, callbacks, failures>>
        /\ \/ queue' = queue
           \/ queue' = queue (+) Msg(j, 0, "periodic") /\ k # j
    BY <1>12, <1>j DEF ScheduleFails, Publish, store, client
  <2>2. \E w : Goes(t, w)
    BY <1>12, <2>1, EndsGoes, RaisesGoes DEF ScheduleFails
  <2>3. CASE queue' = queue
    <3>1. PICK w : Goes(t, w)
      BY <2>2
    <3>. QED
      BY <1>1, <1>3, <2>1, <2>3, <3>1, OnceWork
  <2>. QED
    BY <1>10, <2>1, <2>2, <2>3
<1>13. CASE Fail(t)
  <2>1. /\ worker[t].at = "failing" /\ Leave(t, "settle") /\ Ends(t)
        /\ UNCHANGED <<request, queue, unacked, failures>>
    BY <1>13 DEF Fail, client
  <2>2. Goes(t, Idle)
    BY <2>1, EndsGoes
  <2>3. job'[k] = None => job[k] = None
    <3>1. CASE Readable(j)
      <4>1. Save(j, "failed", job[j].runs)
        BY <1>13, <1>j, <3>1 DEF Fail
      <4>. QED
        BY <1>0, <1>2, <2>1, <3>1, <4>1, StillStored
    <3>2. CASE ~Readable(j)
      BY <1>13, <1>j, <3>2 DEF Fail
    <3>. QED
      BY <3>1, <3>2
  <2>4. CASE k = j
    BY <1>1, <1>j, <2>1, <2>2, <2>3, <2>4, OnceLeft
  <2>5. CASE k # j
    BY <1>1, <1>3, <1>j, <2>1, <2>2, <2>3, <2>5, OnceWork
  <2>. QED
    BY <2>4, <2>5
<1>14. CASE Abort(t)
  <2>1. /\ worker[t].at = "nack" /\ Leave(t, "nack") /\ Ends(t)
        /\ UNCHANGED <<job, request, queue, unacked, failures>>
    BY <1>14 DEF Abort, store, history, client
  <2>2. Goes(t, Idle)
    BY <2>1, EndsGoes
  <2>4. CASE k = j
    BY <1>1, <1>j, <2>1, <2>2, <2>4, OnceLeft
  <2>5. CASE k # j
    BY <1>1, <1>3, <1>j, <2>1, <2>2, <2>5, OnceWork
  <2>. QED
    BY <2>4, <2>5
<1>. QED
  BY <1>4, <1>5, <1>6, <1>7, <1>8, <1>9, <1>11, <1>12, <1>13, <1>14 DEF Work

(* A callback carries k: nothing else does.                                  *)
LEMMA OnlyPending ==
    ASSUME NEW k, Once(k), NEW i \in Instance, NEW n \in Nat, Pending(i, n, k)
    PROVE  /\ k \notin request /\ Waiting(k) = {} /\ Handlers(k) = {} /\ job[k] # None
           /\ \A l \in Instance, o \in Nat : Pending(l, o, k) => l = i /\ o = n
<1>1. ~NoneLeft(k)
  BY DEF NoneLeft
<1>. QED
  BY <1>1 DEF Once

(* What the broker has of k in B is what it had.                             *)
Kept(B, k) == On(B, k) = Waiting(k) /\ \A m \in Waiting(k) : B[m] = queue[m]

(* A channel ends: only the job of the delivery that returns is sent again.  *)
LEMMA OnceClose ==
    ASSUME TypeInv, BrokerQueueAssumption, NEW i \in Instance, NEW q, Typed(q),
           NEW survivors, Close(i, q, survivors), NEW k \in Job, k \notin again',
           Once(k), Bound(k), UNCHANGED <<job, request, failures>>,
           Kept(q, k) \/ \E n \in Nat : Pending(i, n, k) /\ Single(q, k, failures[k])
    PROVE  Once(k)' /\ Bound(k)'
<1>1. /\ unacked' = [unacked EXCEPT ![i] = None]
      /\ callbacks' = [callbacks EXCEPT ![i] = <<>>]
      /\ unacked[i] = None => queue' = q
      /\ unacked[i] # None => /\ queue' = q (+) Msg(unacked[i].job, unacked[i].count, "main")
                              /\ again' = again \cup {unacked[i].job}
  BY CloseIs
<1>2. \A u \in Thread :
          /\ worker'[u].at # "idle" => /\ worker'[u].at = worker[u].at
                                       /\ worker'[u].job = worker[u].job
                                       /\ worker'[u].count = worker[u].count
          /\ worker'[u].at = "idle" => worker'[u] = Idle
  BY CloseIs
<1>3. On(queue', k) = On(q, k) /\ \A e \in On(q, k) : queue'[e] = q[e]
  <2>1. CASE unacked[i] = None
    BY <1>1, <2>1
  <2>2. CASE unacked[i] # None
    <3>1. unacked[i].job # k /\ IsABag(q)
      BY <1>1, <2>2 DEF Typed
    <3>2. LET B == q (+) Msg(unacked[i].job, unacked[i].count, "main")
          IN  On(B, k) = On(q, k) /\ \A e \in On(q, k) : B[e] = q[e]
      BY <3>1, KeptAdded
    <3>. QED
      BY <1>1, <2>2, <3>2
  <2>. QED
    BY <2>1, <2>2
<1>4. \A u \in Handlers(k)' :
          /\ u \in Handlers(k) /\ worker'[u].count = worker[u].count
          /\ worker[u].at = "failing" => worker'[u].at = "failing"
  <2>. SUFFICES ASSUME NEW u \in Thread, worker'[u].job = k
                PROVE  /\ u \in Handlers(k) /\ worker'[u].count = worker[u].count
                       /\ worker[u].at = "failing" => worker'[u].at = "failing"
    BY DEF Handlers
  <2>1. worker'[u].at # "idle"
    BY <1>2, IdleIs
  <2>. QED
    BY <1>2, <2>1 DEF Handlers
<1>5. \A l \in Instance, n \in Nat : Pending(l, n, k)' =>
          l # i /\ Pending(l, n, k) /\ callbacks'[l][n] = callbacks[l][n]
  <2>. SUFFICES ASSUME NEW l \in Instance, NEW n \in Nat, Pending(l, n, k)'
                PROVE  l # i /\ Pending(l, n, k) /\ callbacks'[l][n] = callbacks[l][n]
    OBVIOUS
  <2>1. callbacks \in [Instance -> Seq(Settlement)] /\ unacked \in [Instance -> Delivery \cup {None}]
    BY DEF TypeInv, TypeOK
  <2>2. l # i
    <3>1. callbacks'[i] = <<>>
      BY <1>1, <2>1
    <3>2. l = i => n \in 1..0
      BY <3>1 DEF Pending
    <3>. QED
      BY <3>2
  <2>3. callbacks'[l] = callbacks[l] /\ unacked'[l] = unacked[l]
    BY <1>1, <2>1, <2>2
  <2>. QED
    BY <2>2, <2>3 DEF Pending
<1>6. CASE Kept(q, k)
  <2>1. Waiting(k)' \subseteq Waiting(k) /\ \A m \in Waiting(k)' : queue'[m] = queue[m]
    BY <1>3, <1>6, WaitingNext DEF Kept
  <2>. QED
    BY <1>4, <1>5, <2>1, OnceSame
<1>7. ASSUME NEW n \in Nat, Pending(i, n, k), Single(q, k, failures[k])
      PROVE  Once(k)' /\ Bound(k)'
  <2>1. /\ k \notin request /\ Waiting(k) = {} /\ Handlers(k) = {} /\ job[k] # None
        /\ \A l \in Instance, o \in Nat : Pending(l, o, k) => l = i /\ o = n
    BY <1>7, OnlyPending
  <2>2. Single(queue', k, failures'[k])
    BY <1>3, <1>7 DEF Single
  <2>3. NoneLeft(k)'
    BY <1>5, <2>1 DEF NoneLeft
  <2>4. Handlers(k)' = {} /\ k \notin request' /\ job'[k] # None
    BY <1>4, <2>1
  <2>5. failures'[k] <= JobRetries[k] + 1
    BY DEF Bound
  <2>. QED
    BY <2>2, <2>3, <2>4, <2>5, ToMessage
<1>. QED
  BY <1>6, <1>7

(* The publish of a callback that sends the message of k on.                 *)
LEMMA OncePublished ==
    ASSUME TypeInv, BrokerQueueAssumption, NEW i \in Instance, NEW c \in Settlement,
           c = callbacks[i][1], 1 \in 1..Len(callbacks[i]), NEW k \in Job, Once(k), Bound(k)
    PROVE  /\ Typed(Published(c))
           /\ c.kind = "settle" /\ c.job = k =>
                 Pending(i, 1, k) /\ Single(Published(c), k, failures[k])
           /\ ~(c.kind = "settle" /\ c.job = k) => Kept(Published(c), k)
<1>0. Typed(Published(c)) /\ IsABag(queue)
  BY Types, TypedPublished DEF Typed
<1>1. CASE c.kind # "settle"
  BY <1>0, <1>1, WaitingIs DEF Published, Kept
<1>2. CASE c.kind = "settle"
  <2>0. c.count \in Nat /\ c.final \in BOOLEAN /\ JobRetries[c.job] \in Nat
    BY SettlementIs DEF BrokerQueueAssumption
  <2>1. \E d \in Nat : \E a \in {"retry", "dead"} :
            /\ Resend(c.job, c.count, c.final, JobRetries[c.job]) = Msg(c.job, d, a)
            /\ a = "retry" => ~c.final /\ c.count < JobRetries[c.job] /\ d = c.count + 1
    BY <2>0, ResendIs
  <2>2. PICK d \in Nat, a \in {"retry", "dead"} :
            /\ Resend(c.job, c.count, c.final, JobRetries[c.job]) = Msg(c.job, d, a)
            /\ a = "retry" => ~c.final /\ c.count < JobRetries[c.job] /\ d = c.count + 1
    BY <2>1
  <2>3. Published(c) = queue (+) Msg(c.job, d, a)
    BY <1>2, <2>2 DEF Published
  <2>4. CASE c.job # k
    <3>1. LET B == queue (+) Msg(c.job, d, a)
          IN  On(B, k) = On(queue, k) /\ \A e \in On(queue, k) : B[e] = queue[e]
      BY <1>0, <2>4, KeptAdded
    <3>. QED
      BY <1>0, <2>3, <2>4, <3>1, WaitingIs DEF Kept
  <2>5. CASE c.job = k
    <3>1. Pending(i, 1, k)
      BY <1>2, <2>5 DEF Pending
    <3>2. Waiting(k) = {}
      BY <3>1, OnlyPending
    <3>3. failures[k] <= c.count + 1
      BY <3>1 DEF Bound
    <3>4. a # "dead" => failures[k] <= d /\ failures[k] <= JobRetries[k]
      BY <2>0, <2>2, <2>5, <3>3, Numbers
    <3>5. Single(queue (+) Msg(k, d, a), k, failures[k])
      BY <1>0, <3>2, <3>4, SingleAdded, WaitingIs
    <3>. QED
      BY <1>0, <1>2, <2>3, <2>5, <3>1, <3>5
  <2>. QED
    BY <2>4, <2>5
<1>. QED
  BY <1>1, <1>2

(* A delivery is settled: the next callback becomes the first.               *)
LEMMA OnceSettled ==
    ASSUME TypeInv, BrokerQueueAssumption, NEW i \in Instance, NEW c \in Settlement,
           c = callbacks[i][1], callbacks[i] # <<>>, 1 \in 1..Len(callbacks[i]),
           unacked[i] # None, unacked[i].by = c.by,
           queue' = Published(c) (+) Requeued(c),
           unacked' = [unacked EXCEPT ![i] = None],
           callbacks' = [callbacks EXCEPT ![i] = Tail(@)],
           UNCHANGED <<job, request, worker, failures>>,
           NEW k \in Job, Once(k), Bound(k)
    PROVE  Once(k)' /\ Bound(k)'
<1>0. /\ Typed(Published(c))
      /\ c.kind = "settle" /\ c.job = k =>
            Pending(i, 1, k) /\ Single(Published(c), k, failures[k])
      /\ ~(c.kind = "settle" /\ c.job = k) => Kept(Published(c), k)
  BY OncePublished
<1>1. c.kind \in {"ack", "nack", "settle"} /\ c.count \in Nat
  BY SettlementIs
<1>2. /\ unacked'[i] = None
      /\ \A l \in Instance : l # i => callbacks'[l] = callbacks[l] /\ unacked'[l] = unacked[l]
      /\ \A n \in 1..Len(callbacks'[i]) :
            n + 1 \in 1..Len(callbacks[i]) /\ callbacks'[i][n] = callbacks[i][n + 1]
  BY TailIs DEF TypeInv, TypeOK
<1>3. ASSUME NEW l \in Instance, NEW n \in Nat, Pending(l, n, k)'
      PROVE  /\ l # i => Pending(l, n, k) /\ callbacks'[l][n] = callbacks[l][n]
             /\ l = i => Pending(i, n + 1, k) /\ callbacks'[i][n] = callbacks[i][n + 1]
  <2>1. CASE l # i
    BY <1>2, <1>3, <2>1 DEF Pending
  <2>2. CASE l = i
    <3>1. /\ n \in 1..Len(callbacks'[i]) /\ callbacks'[i][n].job = k
          /\ callbacks'[i][n].kind = "settle"
      BY <1>2, <1>3, <2>2 DEF Pending
    <3>2. n + 1 \in 1..Len(callbacks[i]) /\ callbacks'[i][n] = callbacks[i][n + 1]
      BY <1>2, <3>1
    <3>. QED
      BY <2>2, <3>1, <3>2 DEF Pending
  <2>. QED
    BY <2>1, <2>2
<1>4. IsABag(Published(c))
  BY <1>0 DEF Typed
<1>5. Handlers(k)' = Handlers(k)
  BY DEF Handlers
<1>6. CASE c.kind # "ack" /\ c.job = k
  <2>1. Pending(i, 1, k)
    BY <1>1, <1>6 DEF Pending
  <2>2. /\ k \notin request /\ Waiting(k) = {} /\ Handlers(k) = {} /\ job[k] # None
        /\ \A l \in Instance, o \in Nat : Pending(l, o, k) => l = i /\ o = 1
    BY <2>1, OnlyPending
  <2>3. /\ failures[k] <= JobRetries[k] + 1
        /\ c.kind = "nack" => failures[k] <= c.count /\ failures[k] <= JobRetries[k]
    BY <2>1 DEF Bound
  <2>4. Single(queue', k, failures'[k])
    <3>1. CASE c.kind = "settle"
      <4>1. queue' = Published(c)
        BY <1>4, <3>1, AddedNothing DEF Requeued
      <4>. QED
        BY <1>0, <1>6, <3>1, <4>1
    <3>2. CASE c.kind = "nack"
      <4>1. queue' = Published(c) (+) Msg(k, c.count, "main")
        BY <1>6, <3>2 DEF Requeued
      <4>2. On(Published(c), k) = {}
        BY <1>0, <2>2, <3>2 DEF Kept
      <4>3. Single(Published(c) (+) Msg(k, c.count, "main"), k, failures[k])
        BY <1>4, <2>3, <3>2, <4>2, SingleAdded
      <4>. QED
        BY <4>1, <4>3
    <3>. QED
      BY <1>1, <1>6, <3>1, <3>2
  <2>5. NoneLeft(k)'
    <3>. SUFFICES ASSUME NEW l \in Instance, NEW n \in Nat, Pending(l, n, k)'
                  PROVE  FALSE
      BY DEF NoneLeft
    <3>1. CASE l # i
      BY <1>3, <2>2, <3>1
    <3>2. CASE l = i
      <4>1. Pending(i, n + 1, k) /\ n + 1 \in Nat
        BY <1>3, <3>2
      <4>2. n + 1 = 1
        BY <2>2, <4>1
      <4>3. n \in 1..Len(callbacks'[i])
        BY <3>2 DEF Pending
      <4>. QED
        BY <4>2, <4>3
    <3>. QED
      BY <3>1, <3>2
  <2>. QED
    BY <1>5, <2>2, <2>3, <2>4, <2>5, ToMessage
<1>7. CASE c.kind = "ack" \/ c.job # k
  <2>1. On(queue', k) = Waiting(k) /\ \A m \in Waiting(k) : queue'[m] = queue[m]
    <3>1. Kept(Published(c), k)
      BY <1>0, <1>7
    <3>2. CASE c.kind = "nack"
      <4>1. /\ On(Published(c) (+) Msg(c.job, c.count, "main"), k) = On(Published(c), k)
            /\ \A e \in On(Published(c), k) :
                  (Published(c) (+) Msg(c.job, c.count, "main"))[e] = Published(c)[e]
        BY <1>4, <1>7, <3>2, KeptAdded
      <4>2. queue' = Published(c) (+) Msg(c.job, c.count, "main")
        BY <3>2 DEF Requeued
      <4>. QED
        BY <3>1, <4>1, <4>2 DEF Kept
    <3>3. CASE c.kind # "nack"
      <4>1. queue' = Published(c)
        BY <1>4, <3>3, AddedNothing DEF Requeued
      <4>. QED
        BY <3>1, <4>1 DEF Kept
    <3>. QED
      BY <3>2, <3>3
  <2>2. Waiting(k)' = Waiting(k) /\ \A m \in Waiting(k)' : queue'[m] = queue[m]
    BY <2>1, WaitingNext
  <2>3. NoneLeft(k) => NoneLeft(k)'
    BY <1>3 DEF NoneLeft
  <2>4. \A l, l2 \in Instance, n, o \in Nat :
            Pending(l, n, k)' /\ Pending(l2, o, k)' => l = l2 /\ n = o
    <3>. SUFFICES ASSUME NEW l \in Instance, NEW l2 \in Instance, NEW n \in Nat, NEW o \in Nat,
                         Pending(l, n, k)', Pending(l2, o, k)'
                  PROVE  l = l2 /\ n = o
      OBVIOUS
    <3>. DEFINE n1 == IF l = i THEN n + 1 ELSE n
                o1 == IF l2 = i THEN o + 1 ELSE o
    <3>1. n1 \in Nat /\ o1 \in Nat /\ Pending(l, n1, k) /\ Pending(l2, o1, k)
      BY <1>3
    <3>. HIDE DEF n1, o1
    <3>2. l = l2 /\ n1 = o1
      BY <3>1 DEF Once
    <3>. QED
      BY <3>2 DEF n1, o1
  <2>5. \A m \in Waiting(k)' :
            Waiting(k)' = {m} /\ queue'[m] = 1 /\ Handlers(k)' = {} /\ NoneLeft(k)'
    BY <1>5, <2>2, <2>3 DEF Once
  <2>6. Once(k)'
    BY <1>5, <2>2, <2>3, <2>4, <2>5 DEF Once
  <2>7. \A l \in Instance, n \in Nat : Pending(l, n, k)' =>
            /\ failures[k] <= callbacks'[l][n].count + 1
            /\ callbacks'[l][n].kind = "nack" =>
                  failures[k] <= callbacks'[l][n].count /\ failures[k] <= JobRetries[k]
    <3>. SUFFICES ASSUME NEW l \in Instance, NEW n \in Nat, Pending(l, n, k)'
                  PROVE  /\ failures[k] <= callbacks'[l][n].count + 1
                         /\ callbacks'[l][n].kind = "nack" =>
                               failures[k] <= callbacks'[l][n].count /\ failures[k] <= JobRetries[k]
      OBVIOUS
    <3>1. PICK o \in Nat : Pending(l, o, k) /\ callbacks'[l][n] = callbacks[l][o]
      <4>1. CASE l # i
        BY <1>3, <4>1
      <4>2. CASE l = i
        <5>1. PICK o \in Nat : o = n + 1
          OBVIOUS
        <5>2. Pending(l, o, k) /\ callbacks'[l][n] = callbacks[l][o]
          BY <1>3, <4>2, <5>1
        <5>. QED
          BY <5>2
      <4>. QED
        BY <4>1, <4>2
    <3>. QED
      BY <3>1 DEF Bound
  <2>8. Bound(k)'
    BY <1>5, <2>2, <2>7 DEF Bound, Handlers
  <2>. QED
    BY <2>6, <2>8
<1>. QED
  BY <1>6, <1>7

LEMMA OnceInstance ==
    ASSUME TypeInv, OnceInv, BrokerQueueAssumption, NEW i \in Instance,
           \/ Start(i) \/ Callback(i) \/ LoseConnection(i) \/ Crash(i) \/ Stop(i) \/ Stopped(i)
    PROVE  OnceInv'
<1>. SUFFICES ASSUME NEW k \in Job, k \notin again'
              PROVE  Once(k)' /\ Bound(k)'
  BY DEF OnceInv
<1>0. UNCHANGED <<job, request, failures>> /\ again \subseteq again'
  BY DEF Start, Callback, LoseConnection, Crash, Stop, Stopped, Close, store, client, history
<1>1. Once(k) /\ Bound(k)
  BY <1>0 DEF OnceInv
<1>2. Typed(queue) /\ Kept(queue, k)
  BY Types, WaitingIs DEF Kept
<1>3. CASE Start(i) \/ Stop(i)
  <2>1. UNCHANGED <<queue, unacked, callbacks, worker>>
    BY <1>3 DEF Start, Stop
  <2>. QED
    BY <1>0, <1>1, <2>1, OnceStore, WaitingIs, WaitingNext
<1>4. ASSUME NEW c \in Settlement, c = callbacks[i][1], 1 \in 1..Len(callbacks[i]),
             Close(i, Published(c), Thread)
      PROVE  Once(k)' /\ Bound(k)'
  <2>1. /\ Typed(Published(c))
        /\ c.kind = "settle" /\ c.job = k =>
              Pending(i, 1, k) /\ Single(Published(c), k, failures[k])
        /\ ~(c.kind = "settle" /\ c.job = k) => Kept(Published(c), k)
    BY <1>1, <1>4, OncePublished
  <2>2. Kept(Published(c), k) \/ \E n \in Nat : Pending(i, n, k) /\ Single(Published(c), k, failures[k])
    BY <2>1
  <2>. QED
    BY <1>0, <1>1, <1>4, <2>1, <2>2, OnceClose
<1>5. CASE Callback(i)
  <2>1. LET c == callbacks[i][1] IN
        /\ c \in Settlement /\ callbacks[i] # <<>> /\ 1 \in 1..Len(callbacks[i])
        /\ \/ /\ unacked[i] # None /\ unacked[i].by = c.by
              /\ queue' = Published(c) (+) Requeued(c)
              /\ unacked' = [unacked EXCEPT ![i] = None]
              /\ callbacks' = [callbacks EXCEPT ![i] = Tail(@)]
              /\ UNCHANGED <<consumer, worker, again>>
           \/ Close(i, Published(c), Thread)
    BY <1>5, CallbackIs
  <2>2. PICK c : c = callbacks[i][1]
    OBVIOUS
  <2>3. CASE Close(i, Published(c), Thread)
    BY <1>4, <2>1, <2>2, <2>3
  <2>4. CASE /\ unacked[i] # None /\ unacked[i].by = c.by
             /\ queue' = Published(c) (+) Requeued(c)
             /\ unacked' = [unacked EXCEPT ![i] = None]
             /\ callbacks' = [callbacks EXCEPT ![i] = Tail(@)]
             /\ UNCHANGED <<consumer, worker, again>>
    <3>1. c \in Settlement /\ callbacks[i] # <<>> /\ 1 \in 1..Len(callbacks[i])
      BY <2>1, <2>2
    <3>. QED
      BY <1>0, <1>1, <2>2, <2>4, <3>1, OnceSettled
  <2>. QED
    BY <2>1, <2>2, <2>3, <2>4
<1>6. CASE LoseConnection(i)
  <2>1. CASE Close(i, queue, Thread)
    BY <1>0, <1>1, <1>2, <2>1, OnceClose
  <2>2. CASE callbacks[i] # <<>> /\ Close(i, Published(Head(callbacks[i])), Thread)
    <3>1. callbacks[i] \in Seq(Settlement)
      BY DEF TypeInv, TypeOK
    <3>2. PICK c : c = Head(callbacks[i])
      OBVIOUS
    <3>3. c \in Settlement /\ c = callbacks[i][1] /\ 1 \in 1..Len(callbacks[i])
      BY <2>2, <3>1, <3>2
    <3>. QED
      BY <1>4, <2>2, <3>2, <3>3
  <2>. QED
    BY <1>6, <2>1, <2>2 DEF LoseConnection
<1>7. CASE Crash(i) \/ Stopped(i)
  <2>1. \E survivors : Close(i, queue, survivors)
    BY <1>7 DEF Crash, Stopped
  <2>. QED
    BY <1>0, <1>1, <1>2, <2>1, OnceClose
<1>. QED
  BY <1>3, <1>5, <1>6, <1>7

LEMMA OnceStep ==
    ASSUME TypeInv, OnceInv, BrokerQueueAssumption, [Next]_vars
    PROVE  OnceInv'
<1>1. CASE Next
  <2>1. ASSUME NEW j \in Job,
               \/ Create(j) \/ Put(j) \/ PutFails(j) \/ Rerun(j)
               \/ Delete(j) \/ Restore(j) \/ Recover(j) \/ Receive(j)
               \/ \E m \in Waiting(j) : Expire(m)
        PROVE  OnceInv'
    BY <2>1, OnceJobs, OnceReceive
  <2>2. ASSUME NEW i \in Instance,
               \/ Start(i) \/ Callback(i) \/ LoseConnection(i) \/ Crash(i) \/ Stop(i) \/ Stopped(i)
        PROVE  OnceInv'
    BY <2>2, OnceInstance
  <2>3. ASSUME NEW t \in Thread, Work(t) \/ ScheduleFails(t) PROVE OnceInv'
    BY <2>3, OnceWorker
  <2>. QED
    BY <1>1, <2>1, <2>2, <2>3 DEF Next
<1>2. CASE UNCHANGED vars
  <2>1. UNCHANGED <<job, request, queue, unacked, callbacks, worker, failures, again>>
    BY <1>2 DEF vars, store, client, history
  <2>. QED
    BY <2>1, OnceStore, WaitingIs, WaitingNext DEF OnceInv
<1>. QED
  BY <1>1, <1>2

LEMMA OnceInit ==
    ASSUME BrokerQueueAssumption, Init
    PROVE  OnceInv
<1>. SUFFICES ASSUME NEW k \in Job PROVE Once(k) /\ Bound(k)
  BY DEF OnceInv
<1>1. Waiting(k) = {}
  BY DEF Init, Waiting, BagToSet, EmptyBag, SetToBag
<1>2. Handlers(k) = {}
  BY IdleIs DEF Init, Handlers
<1>3. NoneLeft(k)
  BY DEF Init, NoneLeft, Pending
<1>4. k \notin request /\ failures[k] = 0 /\ JobRetries[k] \in Nat
  BY DEF Init, BrokerQueueAssumption
<1>5. Once(k)
  BY <1>1, <1>2, <1>3, <1>4 DEF Once, NoneLeft
<1>6. Bound(k)
  BY <1>1, <1>2, <1>3, <1>4 DEF Bound, NoneLeft
<1>. QED
  BY <1>5, <1>6

LEMMA OnceHolds == Spec => []OnceInv
<1>1. Init => OnceInv
  BY OnceInit, BrokerQueueAssumption
<1>2. TypeInv /\ OnceInv /\ [Next]_vars => OnceInv'
  BY OnceStep, BrokerQueueAssumption
<1>. QED
  BY <1>1, <1>2, TypeHolds, PTL DEF Spec

(* Acks, retries, delays and periodic runs never multiply a job: enqueued    *)
(* once, it waits as one message or is handled by one worker thread.         *)
THEOREM NeverMultiplied == Spec => []OnceAtATime
<1>1. OnceInv => OnceAtATime
  <2>. SUFFICES ASSUME NEW j \in Job, Once(j)
                PROVE  /\ \A m, n \in Waiting(j) : m = n /\ queue[m] = 1
                       /\ Cardinality(Running(j)) <= (IF Waiting(j) = {} THEN 1 ELSE 0)
    BY DEF OnceInv, OnceAtATime
  <2>1. \A m, n \in Waiting(j) : m = n /\ queue[m] = 1
    BY DEF Once
  <2>2. Running(j) \subseteq Handlers(j)
    BY DEF Running, Handlers
  <2>3. CASE Running(j) = {}
    <3>1. Cardinality(Running(j)) = 0
      BY <2>3, FS_EmptySet
    <3>. QED
      BY <2>1, <3>1
  <2>4. CASE Running(j) # {}
    <3>1. PICK t : t \in Running(j)
      BY <2>4
    <3>2. Waiting(j) = {} /\ Handlers(j) = {t}
      BY <2>2, <3>1 DEF Once
    <3>3. Running(j) = {t}
      BY <2>2, <3>1, <3>2
    <3>4. Cardinality(Running(j)) = 1
      BY <3>3, FS_Singleton
    <3>. QED
      BY <2>1, <3>2, <3>4
  <2>. QED
    BY <2>3, <2>4
<1>. QED
  BY <1>1, OnceHolds, PTL

(* The count in the message bounds the failures of a handler, whatever       *)
(* happens to instances and connections, as long as the job is enqueued once. *)
THEOREM FailuresBounded == Spec => []RetriesBounded
<1>1. OnceInv => RetriesBounded
  BY DEF OnceInv, Bound, RetriesBounded
<1>. QED
  BY <1>1, OnceHolds, PTL

=============================================================================
