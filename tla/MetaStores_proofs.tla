-------------------------- MODULE MetaStores_proofs --------------------------
(***************************************************************************)
(* The two metadata stores that several threads or programs share.         *)
(***************************************************************************)
EXTENDS S3SqliteMetaStore, FastSlowMetaStore, TLAPS

-----------------------------------------------------------------------------
(* The optimistic lock of S3SqliteMetaStore, for any number of instances    *)
(* and writes: as long as no upload went unprotected, the file in S3 only   *)
(* grows, so what was synced stays, and a copy that was refused can never   *)
(* match the file again.                                                    *)

(* Files: sets of writes, and the one without tables.                        *)
LEMMA FileFacts ==
    /\ Bare \in File /\ {} \in File /\ Bare # {} /\ Bare # None /\ {} # None
    /\ \A f \in File : f # None /\ (f # Bare => f \subseteq Write)
    /\ \A f \in SUBSET Write : f \in File /\ f # Bare /\ f # None
    /\ \A f \in File : f \cap Write \subseteq f /\ (f = Bare => f \cap Write = {})
    /\ \A f \in File : \A w \in f : w \in Nat /\ w <= MaxWrites /\ (w \in Write \/ w = 0)
    /\ \A w \in Write : w \in 1..MaxWrites /\ w # None /\ w \notin Bare
<1> USE S3Assumption DEF Write
<1>1. ASSUME NEW f \in SUBSET Write PROVE f \in File /\ f # Bare /\ f # None
  <2>1. 0 \notin f /\ 0 \in Bare
    BY DEF Bare
  <2>2. f \in SUBSET (0..MaxWrites)
    OBVIOUS
  <2>3. f \in File
    BY DEF File
  <2>4. QED
    BY <2>1, <2>2, <2>3
<1>2. Bare \in File /\ Bare # {} /\ Bare # None
  <2>1. Bare \in SUBSET (0..MaxWrites)
    BY DEF Bare
  <2>2. Bare # None
    BY <2>1
  <2>3. Bare \in File
    BY Zenon DEF File
  <2>4. 0 \in Bare
    BY DEF Bare
  <2>5. QED
    BY <2>2, <2>3, <2>4
<1>3. {} \in File /\ {} # None
  BY <1>1
<1>4. ASSUME NEW f \in File
      PROVE  /\ f # None /\ (f # Bare => f \subseteq Write)
             /\ f = Bare => f \cap Write = {}
             /\ \A w \in f : w \in Nat /\ w <= MaxWrites /\ (w \in Write \/ w = 0)
  <2>1. f \in SUBSET Write \/ f = Bare
    BY Zenon DEF File, Bare
  <2>2. CASE f \in SUBSET Write
    BY <2>2, <1>1
  <2>3. CASE f = Bare
    BY <2>3, <1>2 DEF Bare
  <2>4. QED
    BY <2>1, <2>2, <2>3
<1>5. \A w \in Write : w \in 1..MaxWrites /\ w # None /\ w \notin Bare
  BY DEF Bare
<1>6. QED
  BY <1>1, <1>2, <1>3, <1>4, <1>5

LEMMA TypeInit == ASSUME Init PROVE TypeOK
<1>1. writes \in 0..MaxWrites
  BY S3Assumption DEF Init
<1>2. QED
  BY <1>1, FileFacts DEF Init, TypeOK

LEMMA TypeSteps == ASSUME TypeOK, [Next]_vars PROVE TypeOK'
<1> USE S3Assumption, FileFacts DEF TypeOK, Content
<1>1. ASSUME NEW i \in Instance, Start(i) PROVE TypeOK'
  BY <1>1 DEF Start
<1>2. ASSUME NEW i \in Instance, NEW sync \in BOOLEAN, Put(i, sync) PROVE TypeOK'
  <2>1. local[i] \subseteq Write /\ writes + 1 \in Write
    BY <1>2 DEF Put, Write
  <2>2. local[i] \cup {writes + 1} \in File
    BY <2>1
  <2>3. local' \in [Instance -> File] /\ writes' \in 0..MaxWrites
    BY <1>2, <2>2 DEF Put
  <2>4. QED
    BY <1>2, <2>1, <2>3 DEF Put
<1>3. ASSUME NEW i \in Instance, Sync(i) \/ ForceSync(i) PROVE TypeOK'
  BY <1>3 DEF Sync, ForceSync
<1>4. ASSUME NEW i \in Instance, CheckPasses(i) PROVE TypeOK'
  BY <1>4 DEF CheckPasses
<1>5. ASSUME NEW i \in Instance, CheckConflicts(i) PROVE TypeOK'
  <2>1. Reload(i) \/ UNCHANGED <<local, etag>>
    BY <1>5, Zenon DEF CheckConflicts
  <2>2. CASE Reload(i)
    BY <1>5, <2>2 DEF CheckConflicts, Reload
  <2>3. CASE UNCHANGED <<local, etag>>
    BY <1>5, <2>3 DEF CheckConflicts
  <2>4. QED
    BY <2>1, <2>2, <2>3
<1>6. ASSUME NEW i \in Instance, Upload(i) PROVE TypeOK'
  BY <1>6 DEF Upload
<1>7. ASSUME NEW i \in Instance, Head(i) PROVE TypeOK'
  BY <1>7 DEF Head
<1>8. ASSUME NEW i \in Instance, Failure(i) PROVE TypeOK'
  <2>1. CASE Fail(i)
    BY <2>1 DEF Fail
  <2>2. CASE Crash(i)
    BY <2>2 DEF Crash
  <2>3. CASE ConflictReloadFails(i)
    BY <2>3 DEF ConflictReloadFails, Truncate
  <2>4. CASE ReadReloadFails(i)
    BY <2>4 DEF ReadReloadFails, Truncate
  <2>5. QED
    BY <1>8, <2>1, <2>2, <2>3, <2>4 DEF Failure
<1>9. ASSUME NEW i \in Instance, Read(i) PROVE TypeOK'
  BY <1>9 DEF Read, Reload
<1>10. CASE UNCHANGED vars
  BY <1>10 DEF vars
<1>11. QED
  BY <1>1, <1>2, <1>3, <1>4, <1>5, <1>6, <1>7, <1>8, <1>9, <1>10 DEF Next, Answer

(* Every operation, failure and crash keeps the store well typed. *)
THEOREM TypeCorrect == Spec => []TypeOK
BY TypeInit, TypeSteps, PTL DEF Spec

(* What the lock guarantees of copies, ETags and uploads.  A copy contains   *)
(* the file its ETag names, unless its download broke off, and then it is    *)
(* not uploaded; an upload that passed its check replaces exactly *)
(* that file; uploads do not overlap; the file only grew since.              *)
LockInv ==
    /\ synced \subseteq Content(bucket)
    /\ bucket # Bare
    /\ \A i \in Instance : etag[i] # None =>
          /\ local[i] = Bare \/ etag[i] \subseteq local[i]
          /\ etag[i] \subseteq Content(bucket)
    /\ \A i \in Instance : Syncing(i) => local[i] # Bare
    /\ \A i \in Instance : at[i] = "upload" => etag[i] = bucket
    /\ \A i \in Instance : at[i] = "head" => local[i] = bucket
    /\ \A i, k \in Instance : Syncing(i) /\ Syncing(k) => i = k

SyncInv == TypeOK /\ (exposed \/ LockInv)

(* A step that leaves `exposed' alone keeps the lock's guarantees. *)
LEMMA SyncSteps == ASSUME SyncInv, [Next]_vars PROVE SyncInv'
<1> USE DEF SyncInv
<1>1. TypeOK'
  BY TypeSteps
<1>2. ASSUME ~exposed' PROVE LockInv'
  <2>1. ~exposed /\ LockInv
    BY <1>2 DEF Next, Answer, Start, Put, Sync, ForceSync, CheckPasses, CheckConflicts,
                Upload, Head, Failure, Fail, ConflictReloadFails, ReadReloadFails,
                Read, Crash, vars, TypeOK
  <2> USE <2>1, FileFacts DEF LockInv, TypeOK, Content, Syncing
  <2>2. ASSUME NEW i \in Instance, Start(i) PROVE LockInv'
    BY <2>2 DEF Start
  <2>3. ASSUME NEW i \in Instance, NEW sync \in BOOLEAN, Put(i, sync) PROVE LockInv'
    BY <2>3 DEF Put
  <2>4. ASSUME NEW i \in Instance, Sync(i) PROVE LockInv'
    BY <2>4 DEF Sync
  <2>5. ASSUME NEW i \in Instance, CheckPasses(i) PROVE LockInv'
    BY <1>2, <2>5 DEF CheckPasses
  <2>6. ASSUME NEW i \in Instance, CheckConflicts(i) PROVE LockInv'
    <3>1. Reload(i) \/ UNCHANGED <<local, etag>>
      BY <2>6, Zenon DEF CheckConflicts
    <3>2. CASE Reload(i)
      BY <2>6, <3>2 DEF CheckConflicts, Reload
    <3>3. CASE UNCHANGED <<local, etag>>
      BY <2>6, <3>3 DEF CheckConflicts
    <3>4. QED
      BY <3>1, <3>2, <3>3
  <2>7. ASSUME NEW i \in Instance, Upload(i) PROVE LockInv'
    <3>1. bucket' = local[i] /\ bucket' # None /\ etag' = etag /\ local' = local
      BY <2>7, S3Assumption DEF Upload
    <3>2. Content(bucket) \subseteq Content(bucket')
      BY <2>7, <3>1 DEF Upload
    <3>3. \A k \in Instance : Syncing(k)' => k = i
      BY <2>7 DEF Upload
    <3>4. synced' = synced /\ at'[i] = "head" /\ bucket' # Bare
      BY <2>7, <3>1 DEF Upload
    <3>5. bucket' = Content(bucket')
      BY <3>1
    <3>6. \A k \in Instance : Syncing(k)' => local'[k] # Bare
      BY <3>1, <3>3, <3>4
    <3>7. \A k \in Instance : at'[k] # "upload" /\ (at'[k] = "head" => local'[k] = bucket')
      BY <3>1, <3>3, <3>4
    <3>8. \A k \in Instance : etag'[k] # None => etag'[k] \subseteq Content(bucket')
      BY <3>1, <3>2
    <3>9. QED
      BY <3>1, <3>2, <3>3, <3>4, <3>6, <3>7, <3>8
  <2>8. ASSUME NEW i \in Instance, Head(i) PROVE LockInv'
    <3>1. bucket' = bucket /\ local' = local /\ bucket = local[i] /\ bucket # None
      BY <2>8, S3Assumption DEF Head
    <3>2. \A k \in Instance : ~Syncing(k)'
      BY <2>8 DEF Head
    <3>3. etag' = [etag EXCEPT ![i] = bucket] /\ synced' = synced \cup local[i]
      BY <2>8 DEF Head
    <3>4. QED
      BY <3>1, <3>2, <3>3
  <2>9. ASSUME NEW i \in Instance, Failure(i) PROVE LockInv'
    <3>1. CASE Fail(i)
      BY <3>1 DEF Fail
    <3>2. CASE Crash(i)
      BY <3>2 DEF Crash
    <3>3. CASE ConflictReloadFails(i)
      BY <3>3 DEF ConflictReloadFails, Truncate
    <3>4. CASE ReadReloadFails(i)
      BY <3>4 DEF ReadReloadFails, Truncate
    <3>5. QED
      BY <2>9, <3>1, <3>2, <3>3, <3>4 DEF Failure
  <2>10. ASSUME NEW i \in Instance, Read(i) PROVE LockInv'
    BY <2>10 DEF Read, Reload
  <2>11. CASE UNCHANGED vars
    BY <2>11 DEF vars
  <2>12. ASSUME NEW i \in Instance, ForceSync(i) PROVE FALSE
    BY <1>2, <2>12 DEF ForceSync
  <2>13. QED
    BY <2>2, <2>3, <2>4, <2>5, <2>6, <2>7, <2>8, <2>9, <2>10, <2>11, <2>12
       DEF Next, Answer
<1>3. QED
  BY <1>1, <1>2

(* A write that a successful sync covered stays in the file: the check of    *)
(* ETags in sync_to_s3 is enough as long as no upload overlaps another one.  *)
THEOREM SyncedWritesStay == Spec => []SyncedKept
<1>1. Init => SyncInv
  BY TypeInit, FileFacts DEF Init, SyncInv, LockInv, Content, Syncing
<1>2. SyncInv => SyncedKept
  BY DEF SyncInv, LockInv, SyncedKept
<1>3. QED
  BY <1>1, <1>2, SyncSteps, PTL DEF Spec

(* Why a refused write cannot come back.  It was never uploaded, and it lies *)
(* only in a copy whose ETag is that of a smaller file than the one in S3;   *)
(* the file only grows, so the two never match again.                        *)
RefusedInv ==
    /\ rejected \cap Content(bucket) = {}
    /\ \A i \in Instance : rejected \cap local[i] # {} =>
          etag[i] # None /\ etag[i] # bucket
    /\ \A i \in Instance : etag[i] # None => bucket # None
    /\ \A i \in Instance : at[i] = "check" /\ arg[i] # None =>
          /\ arg[i] \notin Content(bucket)
          /\ \A k \in Instance \ {i} : arg[i] \notin local[k]

(* Numbers of writes are fresh, and a write is only on its way in a call.    *)
FreshInv ==
    /\ \A w \in Content(bucket) \cup rejected : w <= writes
    /\ \A i \in Instance :
          /\ \A w \in local[i] : w <= writes
          /\ arg[i] # None => arg[i] <= writes
          /\ at[i] \in {"idle", "down"} => arg[i] = None

OutInv == SyncInv /\ FreshInv /\ (exposed \/ RefusedInv)

LEMMA FreshSteps == ASSUME TypeOK, FreshInv, [Next]_vars PROVE FreshInv'
<1> USE S3Assumption, FileFacts DEF TypeOK, Content, FreshInv
<1>1. ASSUME NEW i \in Instance, Start(i) PROVE FreshInv'
  BY <1>1 DEF Start
<1>2. ASSUME NEW i \in Instance, NEW sync \in BOOLEAN, Put(i, sync) PROVE FreshInv'
  <2>1. writes' = writes + 1 /\ writes \in Nat /\ UNCHANGED <<bucket, rejected>>
    BY <1>2 DEF Put
  <2>2. \A w \in Content(bucket)' \cup rejected' : w <= writes'
    <3>1. \A w \in Content(bucket) \cup rejected : w \in Nat
      OBVIOUS
    <3>2. Content(bucket)' \cup rejected' = Content(bucket) \cup rejected
      BY <2>1 DEF Content
    <3>3. \A w \in Nat : w <= writes => w <= writes'
      BY <2>1
    <3>4. QED
      BY <3>1, <3>2, <3>3
  <2>3. ASSUME NEW k \in Instance PROVE \A w \in local'[k] : w <= writes'
    <3>1. local'[k] \subseteq local[k] \cup {writes + 1}
      BY <1>2 DEF Put
    <3>2. QED
      BY <2>1, <3>1
  <2>4. ASSUME NEW k \in Instance
        PROVE  /\ arg'[k] # None => arg'[k] <= writes'
               /\ at'[k] \in {"idle", "down"} => arg'[k] = None
    <3>1. CASE k = i
      BY <1>2, <2>1, <3>1 DEF Put
    <3>2. CASE k # i
      <4>1. arg'[k] = arg[k] /\ at'[k] = at[k]
        BY <1>2, <3>2 DEF Put
      <4>2. QED
        BY <2>1, <4>1
    <3>3. QED
      BY <3>1, <3>2
  <2>5. QED
    BY <2>2, <2>3, <2>4
<1>3. ASSUME NEW i \in Instance, Sync(i) \/ ForceSync(i) PROVE FreshInv'
  BY <1>3 DEF Sync, ForceSync
<1>4. ASSUME NEW i \in Instance, CheckPasses(i) PROVE FreshInv'
  BY <1>4 DEF CheckPasses
<1>5. ASSUME NEW i \in Instance, CheckConflicts(i) PROVE FreshInv'
  <2>1. Reload(i) \/ UNCHANGED <<local, etag>>
    BY <1>5, Zenon DEF CheckConflicts
  <2>2. CASE Reload(i)
    BY <1>5, <2>2 DEF CheckConflicts, Reload
  <2>3. CASE UNCHANGED <<local, etag>>
    BY <1>5, <2>3 DEF CheckConflicts
  <2>4. QED
    BY <2>1, <2>2, <2>3
<1>6. ASSUME NEW i \in Instance, Upload(i) PROVE FreshInv'
  BY <1>6 DEF Upload
<1>7. ASSUME NEW i \in Instance, Head(i) PROVE FreshInv'
  BY <1>7 DEF Head
<1>8. ASSUME NEW i \in Instance, Failure(i) PROVE FreshInv'
  <2>1. CASE Fail(i)
    BY <2>1 DEF Fail
  <2>2. CASE Crash(i)
    BY <2>2 DEF Crash
  <2>3. CASE ConflictReloadFails(i)
    BY <2>3 DEF ConflictReloadFails, Truncate
  <2>4. CASE ReadReloadFails(i)
    BY <2>4 DEF ReadReloadFails, Truncate
  <2>5. QED
    BY <1>8, <2>1, <2>2, <2>3, <2>4 DEF Failure
<1>9. ASSUME NEW i \in Instance, Read(i) PROVE FreshInv'
  BY <1>9 DEF Read, Reload
<1>10. CASE UNCHANGED vars
  BY <1>10 DEF vars
<1>11. QED
  BY <1>1, <1>2, <1>3, <1>4, <1>5, <1>6, <1>7, <1>8, <1>9, <1>10 DEF Next, Answer

LEMMA OutSteps == ASSUME OutInv, [Next]_vars PROVE OutInv'
<1> USE DEF OutInv
<1>1. SyncInv' /\ TypeOK /\ FreshInv'
  BY SyncSteps, FreshSteps DEF SyncInv
<1>2. ASSUME ~exposed' PROVE RefusedInv'
  <2>1. ~exposed /\ RefusedInv /\ LockInv
    BY <1>1, <1>2 DEF Next, Answer, Start, Put, Sync, ForceSync, CheckPasses,
                CheckConflicts, Upload, Head, Failure, Fail, ConflictReloadFails, ReadReloadFails,
                Read, Crash, vars, TypeOK, SyncInv
  <2> USE S3Assumption, FileFacts, <1>1, <2>1 DEF RefusedInv, TypeOK, Content
  <2>2. ASSUME NEW i \in Instance, Start(i) PROVE RefusedInv'
    BY <2>2 DEF Start
  <2>3. ASSUME NEW i \in Instance, NEW sync \in BOOLEAN, Put(i, sync) PROVE RefusedInv'
    BY <2>3 DEF Put, FreshInv
  <2>4. ASSUME NEW i \in Instance, Sync(i) PROVE RefusedInv'
    BY <2>4 DEF Sync, FreshInv
  <2>5. ASSUME NEW i \in Instance, CheckPasses(i) PROVE RefusedInv'
    BY <2>5 DEF CheckPasses
  <2>6. ASSUME NEW i \in Instance, CheckConflicts(i) PROVE RefusedInv'
    <3>1. Reload(i) \/ UNCHANGED <<local, etag>>
      BY <2>6, Zenon DEF CheckConflicts
    <3>2. CASE Reload(i)
      <4>1. /\ bucket' = bucket /\ rejected' = rejected \cup ({arg[i]} \ {None}) /\ at[i] = "check"
            /\ at'[i] = "idle" /\ local'[i] = Content(bucket) /\ etag'[i] = bucket
            /\ \A k \in Instance \ {i} : at'[k] = at[k] /\ local'[k] = local[k] /\ etag'[k] = etag[k] /\ arg'[k] = arg[k]
        BY <2>6, <3>2 DEF CheckConflicts, Reload
      <4>2. \A w \in {arg[i]} \ {None} : w \notin Content(bucket) /\ \A k \in Instance \ {i} : w \notin local[k]
        BY <4>1
      <4>r. \A w \in rejected' : w \notin Content(bucket)
        BY <4>1, <4>2
      <4>l. \A k \in Instance \ {i} : rejected' \cap local[k] # {} => rejected \cap local[k] # {}
        BY <4>1, <4>2
      <4>3. \A k \in Instance : rejected' \cap local'[k] # {} => etag'[k] # None /\ etag'[k] # bucket'
        BY <4>1, <4>r, <4>l
      <4>4. \A k \in Instance : etag'[k] # None => bucket' # None
        BY <4>1
      <4>5. \A k \in Instance : at'[k] = "check" /\ arg'[k] # None =>
               arg'[k] \notin Content(bucket) /\ \A j \in Instance \ {k} : arg'[k] \notin local'[j]
        BY <4>1
      <4>6. QED
        BY <4>1, <4>r, <4>3, <4>4, <4>5
    <3>3. CASE UNCHANGED <<local, etag>>
      <4>1. /\ bucket' = bucket /\ rejected' = rejected \cup ({arg[i]} \ {None}) /\ at[i] = "check"
            /\ at'[i] = "idle" /\ local' = local /\ etag' = etag /\ etag[i] # bucket /\ etag[i] # None
            /\ \A k \in Instance \ {i} : at'[k] = at[k] /\ arg'[k] = arg[k]
        BY <2>6, <3>3 DEF CheckConflicts, Unchanged
      <4>2. \A w \in {arg[i]} \ {None} : w \notin Content(bucket) /\ \A k \in Instance \ {i} : w \notin local[k]
        BY <4>1
      <4>3. \A k \in Instance : rejected' \cap local'[k] # {} => etag'[k] # None /\ etag'[k] # bucket'
        BY <4>1, <4>2
      <4>4. \A w \in rejected' : w \notin Content(bucket)
        BY <4>1, <4>2
      <4>5. QED
        BY <4>1, <4>3, <4>4
    <3>4. QED
      BY <3>1, <3>2, <3>3
  <2>7. ASSUME NEW i \in Instance, Upload(i) PROVE RefusedInv'
    <3>1. bucket' = local[i] /\ bucket' # None /\ etag[i] = bucket
      BY <2>7 DEF Upload, LockInv
    <3>2. rejected \cap local[i] = {} /\ Content(bucket) \subseteq local[i]
      BY <2>7, <3>1 DEF LockInv, Syncing, Upload
    <3>3. UNCHANGED <<local, etag, arg, rejected>>
      BY <2>7 DEF Upload
    <3>4. ASSUME NEW k \in Instance, rejected \cap local[k] # {}
          PROVE  etag[k] # None /\ etag[k] # bucket'
      <4>1. etag[k] # None /\ etag[k] # bucket /\ bucket # None
        BY <3>4
      <4>2. etag[k] \subseteq bucket /\ bucket \subseteq local[i]
        BY <3>2, <4>1 DEF LockInv
      <4>3. QED
        BY <3>1, <4>1, <4>2
    <3>5. ASSUME NEW k \in Instance, at'[k] = "check", arg[k] # None
          PROVE  k # i /\ at[k] = "check"
      BY <2>7, <3>5 DEF Upload
    <3>6. QED
      BY <3>1, <3>2, <3>3, <3>4, <3>5
  <2>8. ASSUME NEW i \in Instance, Head(i) PROVE RefusedInv'
    BY <2>8 DEF Head, LockInv
  <2>9. ASSUME NEW i \in Instance, Failure(i) PROVE RefusedInv'
    <3>1. CASE Fail(i)
      BY <3>1 DEF Fail
    <3>2. CASE Crash(i)
      BY <3>2 DEF Crash
    <3>3. CASE ConflictReloadFails(i)
      BY <3>3 DEF ConflictReloadFails, Truncate
    <3>4. CASE ReadReloadFails(i)
      BY <3>4 DEF ReadReloadFails, Truncate
    <3>5. QED
      BY <2>9, <3>1, <3>2, <3>3, <3>4 DEF Failure
  <2>10. ASSUME NEW i \in Instance, Read(i) PROVE RefusedInv'
    BY <2>10 DEF Read, Reload
  <2>11. CASE UNCHANGED vars
    BY <2>11 DEF vars
  <2>12. ASSUME NEW i \in Instance, ForceSync(i) PROVE FALSE
    BY <1>2, <2>12 DEF ForceSync
  <2>13. QED
    BY <2>2, <2>3, <2>4, <2>5, <2>6, <2>7, <2>8, <2>9, <2>10, <2>11, <2>12
       DEF Next, Answer
<1>3. QED
  BY <1>1, <1>2

(* A write that was answered with S3ConflictError is never uploaded by a     *)
(* later call of sync_to_s3, so that repeating it does not apply it twice.   *)
THEOREM RefusedWritesStayOut == Spec => []RejectedStaysOut
<1>1. Init => OutInv
  BY TypeInit, FileFacts DEF Init, OutInv, SyncInv, LockInv, FreshInv, RefusedInv, Content, Syncing
<1>2. OutInv => RejectedStaysOut
  BY DEF OutInv, RefusedInv, RejectedStaysOut, Content
<1>3. QED
  BY <1>1, <1>2, OutSteps, PTL DEF Spec

-----------------------------------------------------------------------------
(* A fast store in front of a slow one, for any resources, threads and      *)
(* kinds of fast store: a version whose change did not overlap a            *)
(* synchronisation is found by reads, and by searches that began after it.  *)

LEMMA TiersTypeInit == ASSUME TiersInit PROVE TiersTypeOK
BY DEF TiersInit, TiersTypeOK, Absent, NoVersion, Version

LEMMA TiersTypeSteps == ASSUME TiersTypeOK, [TiersNext]_tierVars PROVE TiersTypeOK'
<1> USE Threads DEF TiersTypeOK, Absent, NoVersion, Version, Syncs
<1>1. ASSUME NEW p \in Pk, Set(p) PROVE TiersTypeOK'
  BY <1>1 DEF Set
<1>2. ASSUME NEW p \in Pk, DeleteFast(p) PROVE TiersTypeOK'
  BY <1>2 DEF DeleteFast
<1>3. ASSUME NEW d \in Deleters, NEW p \in Pk, MissFast(d, p) PROVE TiersTypeOK'
  BY <1>3 DEF MissFast
<1>4. ASSUME NEW d \in Deleters, DeleteSlow(d) PROVE TiersTypeOK'
  BY <1>4 DEF DeleteSlow
<1>5. ASSUME NEW s \in Syncs, Begin(s) PROVE TiersTypeOK'
  BY <1>5 DEF Begin, After
<1>6. ASSUME NEW s \in Syncs, Save(s) PROVE TiersTypeOK'
  BY <1>6 DEF Save
<1>7. ASSUME NEW s \in Syncs, SaveFails(s) PROVE TiersTypeOK'
  BY <1>7 DEF SaveFails
<1>8. ASSUME NEW s \in Syncs, Clear(s) PROVE TiersTypeOK'
  BY <1>8 DEF Clear, Cleared, After
<1>9. ASSUME NEW s \in Syncs, Search(s) PROVE TiersTypeOK'
  BY <1>9 DEF Search
<1>10. CASE Restart
  BY <1>10 DEF Restart
<1>11. CASE UNCHANGED tierVars
  BY <1>11 DEF tierVars
<1>12. QED
  BY <1>1, <1>2, <1>3, <1>4, <1>5, <1>6, <1>7, <1>8, <1>9, <1>10, <1>11 DEF TiersNext, SyncFastToSlow

(* Every operation, synchronisation and crash keeps the two stores and the   *)
(* threads well typed.                                                       *)
THEOREM TiersTypeCorrect == TiersSpec => []TiersTypeOK
BY TiersTypeInit, TiersTypeSteps, PTL DEF TiersSpec

(* No version is newer than the number of writes: a write is new.            *)
Numbered ==
    /\ \A p \in Pk : fast[p] <= versions /\ slow[p] <= versions /\ latest[p] <= versions
    /\ \A s \in Syncs, p \in Pk : metas[s][p] <= versions /\ begun[s][p] <= versions

(* What a thread that synchronises holds of a resource nobody changed since: *)
(* the copy in the fast store, if one is left, which is the latest version;  *)
(* and once it was saved, the slow store has it.                             *)
Held(s, p) ==
    step[s] \in {"save", "clear"} =>
        /\ fast[p] # NoVersion => metas[s][p] = fast[p]
        /\ metas[s][p] # NoVersion => metas[s][p] = latest[p]
        /\ step[s] = "clear" /\ metas[s][p] # NoVersion => slow[p] = metas[s][p]

(* What was there when a search began, and still is, moved.                  *)
Searched(s, p) == step[s] = "search" /\ latest[p] = begun[s][p] => fast[p] = NoVersion /\ slow[p] = latest[p]

(* Where the version of some metadata lies, whether reads get at it or not.  *)
Stored(p) == IF fast[p] # NoVersion THEN fast[p] ELSE slow[p]

TiersInv ==
    /\ TiersTypeOK /\ Numbered
    /\ \A p \in Pk \ raced : Stored(p) = latest[p]
    /\ \A p \in Pk \ raced, s \in Syncs : Held(s, p) /\ Searched(s, p)

LEMMA NumberedSteps == ASSUME TiersTypeOK, Numbered, [TiersNext]_tierVars PROVE Numbered'
<1> USE Threads DEF TiersTypeOK, Numbered, Absent, NoVersion, Version, Syncs
<1>1. ASSUME NEW p \in Pk, Set(p) PROVE Numbered'
  BY <1>1 DEF Set
<1>2. ASSUME NEW p \in Pk, DeleteFast(p) PROVE Numbered'
  BY <1>2 DEF DeleteFast
<1>3. ASSUME NEW d \in Deleters, NEW p \in Pk, MissFast(d, p) PROVE Numbered'
  BY <1>3 DEF MissFast
<1>4. ASSUME NEW d \in Deleters, DeleteSlow(d) PROVE Numbered'
  BY <1>4 DEF DeleteSlow
<1>5. ASSUME NEW s \in Syncs, Begin(s) PROVE Numbered'
  BY <1>5 DEF Begin
<1>6. ASSUME NEW s \in Syncs, Save(s) PROVE Numbered'
  BY <1>6 DEF Save
<1>7. ASSUME NEW s \in Syncs, SaveFails(s) PROVE Numbered'
  BY <1>7 DEF SaveFails
<1>8. ASSUME NEW s \in Syncs, Clear(s) PROVE Numbered'
  BY <1>8 DEF Clear, Cleared
<1>9. ASSUME NEW s \in Syncs, Search(s) PROVE Numbered'
  BY <1>9 DEF Search
<1>10. CASE Restart
  BY <1>10 DEF Restart
<1>11. CASE UNCHANGED tierVars
  BY <1>11 DEF tierVars
<1>12. QED
  BY <1>1, <1>2, <1>3, <1>4, <1>5, <1>6, <1>7, <1>8, <1>9, <1>10, <1>11 DEF TiersNext, SyncFastToSlow

LEMMA TiersInvSteps == ASSUME TiersInv, [TiersNext]_tierVars PROVE TiersInv'
<1> USE DEF TiersInv
<1>1. TiersTypeOK' /\ Numbered'
  BY TiersTypeSteps, NumberedSteps
<1>2. SUFFICES ASSUME NEW p \in Pk, p \notin raced'
               PROVE  Stored(p)' = latest[p]' /\ \A s \in Syncs : Held(s, p)' /\ Searched(s, p)'
  BY <1>1
<1> USE <1>1, Threads DEF TiersTypeOK, Numbered, Stored, Held, Searched, Moving, Absent, NoVersion, Version
<1>3. ASSUME NEW q \in Pk, Set(q) PROVE Stored(p)' = latest[p]' /\ \A s \in Syncs : Held(s, p)' /\ Searched(s, p)'
  <2>1. CASE p = q
    BY <1>2, <1>3, <2>1 DEF Set
  <2>2. CASE p # q
    <3>1. p \notin raced /\ fast'[p] = fast[p] /\ latest'[p] = latest[p]
      BY <1>2, <1>3, <2>2 DEF Set
    <3>2. QED
      BY <1>3, <3>1 DEF Set
  <2>3. QED
    BY <2>1, <2>2
<1>4. ASSUME NEW q \in Pk, DeleteFast(q) PROVE Stored(p)' = latest[p]' /\ \A s \in Syncs : Held(s, p)' /\ Searched(s, p)'
  <2>1. CASE p = q
    BY <1>2, <1>4, <2>1 DEF DeleteFast
  <2>2. CASE p # q
    <3>1. p \notin raced /\ fast'[p] = fast[p] /\ latest'[p] = latest[p]
      BY <1>2, <1>4, <2>2 DEF DeleteFast
    <3>2. QED
      BY <1>4, <3>1 DEF DeleteFast
  <2>3. QED
    BY <2>1, <2>2
<1>5. ASSUME NEW d \in Deleters, NEW q \in Pk, MissFast(d, q)
      PROVE  Stored(p)' = latest[p]' /\ \A s \in Syncs : Held(s, p)' /\ Searched(s, p)'
  BY <1>2, <1>5 DEF MissFast
<1>6. ASSUME NEW d \in Deleters, DeleteSlow(d)
      PROVE  Stored(p)' = latest[p]' /\ \A s \in Syncs : Held(s, p)' /\ Searched(s, p)'
  <2>1. victim[d] \in Pk
    BY <1>6 DEF DeleteSlow
  <2>2. CASE p = victim[d] /\ fast[p] = NoVersion
    BY <1>2, <1>6, <2>2 DEF DeleteSlow
  <2>3. CASE p = victim[d] /\ fast[p] # NoVersion
    <3>1. p \notin raced /\ ~Moving
      BY <1>2, <1>6, <2>3 DEF DeleteSlow
    <3>2. QED
      BY <1>6, <2>3, <3>1 DEF DeleteSlow
  <2>4. CASE p # victim[d]
    <3>1. p \notin raced /\ slow'[p] = slow[p] /\ latest'[p] = latest[p]
      BY <1>2, <1>6, <2>1, <2>4 DEF DeleteSlow
    <3>2. QED
      BY <1>6, <3>1 DEF DeleteSlow
  <2>5. QED
    BY <2>2, <2>3, <2>4
<1>7. ASSUME NEW t \in Syncs, Begin(t) PROVE Stored(p)' = latest[p]' /\ \A s \in Syncs : Held(s, p)' /\ Searched(s, p)'
  <2>1. p \notin raced /\ fast' = fast /\ slow' = slow /\ latest' = latest
    BY <1>2, <1>7 DEF Begin
  <2>2. Held(t, p)' /\ Searched(t, p)'
    BY <1>7, <2>1 DEF Begin, After
  <2>3. ASSUME NEW s \in Syncs, s # t PROVE Held(s, p)' /\ Searched(s, p)'
    BY <1>7, <2>1, <2>3 DEF Begin
  <2>4. QED
    BY <2>1, <2>2, <2>3
<1>8. ASSUME NEW t \in Syncs, Save(t) PROVE Stored(p)' = latest[p]' /\ \A s \in Syncs : Held(s, p)' /\ Searched(s, p)'
  <2>1. p \notin raced /\ fast' = fast /\ latest' = latest /\ metas' = metas /\ begun' = begun
    BY <1>2, <1>8 DEF Save
  <2>2. slow'[p] = IF metas[t][p] # NoVersion THEN latest[p] ELSE slow[p]
    BY <1>8, <2>1 DEF Save
  <2>3. Held(t, p)' /\ Searched(t, p)'
    BY <1>8, <2>1, <2>2 DEF Save
  <2>4. ASSUME NEW s \in Syncs, s # t PROVE Held(s, p)' /\ Searched(s, p)'
    BY <1>8, <2>1, <2>2, <2>4 DEF Save
  <2>5. QED
    BY <2>1, <2>2, <2>3, <2>4
<1>9. ASSUME NEW t \in Syncs, SaveFails(t) PROVE Stored(p)' = latest[p]' /\ \A s \in Syncs : Held(s, p)' /\ Searched(s, p)'
  BY <1>2, <1>9 DEF SaveFails
<1>10. ASSUME NEW t \in Syncs, Clear(t) PROVE Stored(p)' = latest[p]' /\ \A s \in Syncs : Held(s, p)' /\ Searched(s, p)'
  <2>1. p \notin raced /\ slow' = slow /\ latest' = latest
    BY <1>2, <1>10 DEF Clear
  <2>2. fast'[p] = NoVersion \/ (fast'[p] = fast[p] /\ metas[t][p] = NoVersion)
    BY <1>10 DEF Clear, Cleared
  <2>3. fast[p] # NoVersion => slow[p] = latest[p] /\ metas[t][p] # NoVersion
    BY <1>10, <2>1 DEF Clear
  <2>4. fast'[p] = NoVersion /\ slow[p] = latest[p]
    BY <2>1, <2>2, <2>3
  <2>5. ASSUME NEW s \in Syncs PROVE Held(s, p)' /\ Searched(s, p)'
    <3>1. CASE s = t
      BY <1>10, <2>1, <2>4, <3>1 DEF Clear, After
    <3>2. CASE s # t
      BY <1>10, <2>1, <2>4, <3>2 DEF Clear
    <3>3. QED
      BY <3>1, <3>2
  <2>6. QED
    BY <2>1, <2>4, <2>5
<1>11. ASSUME NEW t \in Syncs, Search(t) PROVE Stored(p)' = latest[p]' /\ \A s \in Syncs : Held(s, p)' /\ Searched(s, p)'
  BY <1>2, <1>11 DEF Search
<1>12. CASE Restart
  BY <1>12 DEF Restart
<1>13. CASE UNCHANGED tierVars
  BY <1>2, <1>13 DEF tierVars
<1>14. QED
  BY <1>3, <1>4, <1>5, <1>6, <1>7, <1>8, <1>9, <1>10, <1>11, <1>12, <1>13 DEF TiersNext, SyncFastToSlow

LEMMA TiersInvInit == ASSUME TiersInit PROVE TiersInv
BY TiersTypeInit DEF TiersInit, TiersInv, Numbered, Stored, Held, Searched, Absent, NoVersion, Syncs

LEMMA TiersInvariant == TiersSpec => []TiersInv
BY TiersInvInit, TiersInvSteps, PTL DEF TiersSpec

(* Reads return the latest version of whatever was not changed while a       *)
(* thread synchronised, whichever threads synchronise now and however saves  *)
(* fail; in front of a disk store a read may raise instead, of a version     *)
(* that is the slow store's by then.                                         *)
THEOREM ReadsLatest == TiersSpec => []LatestUnlessRaced
<1>1. TiersInv => LatestUnlessRaced
  BY DEF TiersInv, LatestUnlessRaced, Lookup, Stored, FallsBack
<1>2. QED
  BY <1>1, TiersInvariant, PTL

(* A search finds what was written before it, for the same resources.        *)
THEOREM SearchesSee == TiersSpec => []SearchSeesWrites
<1>1. TiersInv => SearchSeesWrites
  BY DEF TiersInv, SearchSeesWrites, Searched, Syncs
<1>2. QED
  BY <1>1, TiersInvariant, PTL
=============================================================================
