-------------------------- MODULE S3SqliteMetaStore --------------------------
(***************************************************************************)
(* S3SqliteMetaStore (autocrud/resource_manager/meta_store/sqlite3.py):    *)
(* instances of the program share one SQLite file in S3.  Each works on a  *)
(* local copy, uploads the whole file after a write, and remembers the     *)
(* ETag of the version its copy comes from: before an upload it compares   *)
(* that ETag with the one in S3.                                           *)
(*                                                                         *)
(* A file is the set of writes (settings and deletions of metadata) that   *)
(* went into it.  An ETag is a hash of the content, so it is modelled by   *)
(* the content.  An instance does one call of the store at a time; every   *)
(* request to S3 is a step, except that a reload looks at the ETag, asks    *)
(* for the file and reads it in one: only the call itself sees what is in  *)
(* between.  The reading may fail, when the ETag is taken over and the     *)
(* local copy emptied already.  enable_locking is on.                      *)
(***************************************************************************)
EXTENDS Naturals

CONSTANTS
    Instance,     \* copies of the program
    MaxWrites,    \* bound: writes in a behaviour
    Deferred,     \* sync_interval > 0: a write may stay local
    AutoReload,   \* those with auto_reload_on_conflict
    CheckOnRead,  \* check_etag_on_read
    None          \* no file in S3, no ETag, no write

ASSUME S3Assumption ==
    /\ MaxWrites \in Nat
    /\ Deferred \in BOOLEAN /\ AutoReload \subseteq Instance /\ CheckOnRead \in BOOLEAN
    /\ None \notin 1..MaxWrites
    /\ \A f \in SUBSET (0..MaxWrites) : f # None

Write == 1..MaxWrites

\* A file of no bytes, which is a database without tables; 0 is no write.
Bare == {0}

File == (SUBSET Write) \cup {Bare}

VARIABLES
    bucket,    \* the file in S3, or None
    local,     \* local[i]: the local copy
    etag,      \* etag[i]: _current_etag
    at,        \* at[i]: what i is doing
    arg,       \* arg[i]: the write whose call is in progress
    writes,    \* number of writes so far
    synced,    \* writes a sync that succeeded covered (history)
    rejected,  \* writes answered with S3ConflictError (history)
    exposed    \* some upload was not protected by its check, or sent the file
               \* that a failed download had emptied (history)

vars == <<bucket, local, etag, at, arg, writes, synced, rejected, exposed>>

TypeOK ==
    /\ bucket \in File \cup {None}
    /\ local \in [Instance -> File]
    /\ etag \in [Instance -> File \cup {None}]
    /\ at \in [Instance -> {"down", "idle", "check", "upload", "head"}]
    /\ arg \in [Instance -> Write \cup {None}]
    /\ writes \in 0..MaxWrites
    /\ synced \subseteq Write /\ rejected \subseteq Write
    /\ exposed \in BOOLEAN

\* an upload is on its way, or its ETag not read yet
Syncing(i) == at[i] \in {"upload", "head"}

\* what a download gives: without a file in S3, an empty database
Content(b) == IF b = None THEN {} ELSE b

-----------------------------------------------------------------------------
Reload_EtagOnly(i) ==
    /\ etag' = [etag EXCEPT ![i] = bucket]
    /\ UNCHANGED local

\* _reload_from_s3: local changes are discarded
Reload(i) ==
    /\ etag' = [etag EXCEPT ![i] = bucket]
    /\ local' = [local EXCEPT ![i] = Content(bucket)]

\* _reload_from_s3 when the body cannot be read: the new ETag on an empty file,
\* and an error that is none of S3's (a reload that S3 refuses changes nothing).
Truncate(i) ==
    /\ bucket # None
    /\ etag' = [etag EXCEPT ![i] = bucket]
    /\ local' = [local EXCEPT ![i] = Bare]

\* __init__: the same download, and tables if there are none; if it fails there
\* is no store.
Start(i) ==
    /\ at[i] = "down"
    /\ etag' = [etag EXCEPT ![i] = bucket]
    /\ local' = [local EXCEPT ![i] = IF bucket = Bare THEN {} ELSE Content(bucket)]
    /\ at' = [at EXCEPT ![i] = "idle"]
    /\ UNCHANGED <<bucket, arg, writes, synced, rejected, exposed>>

Put_NeedsNoTables(i, sync) ==
    /\ at[i] = "idle"
    /\ writes < MaxWrites
    /\ sync \/ Deferred
    /\ writes' = writes + 1
    /\ local' = [local EXCEPT ![i] = @ \cup {writes + 1}]
    /\ arg' = [arg EXCEPT ![i] = IF sync THEN writes + 1 ELSE None]
    /\ at' = [at EXCEPT ![i] = IF sync THEN "check" ELSE "idle"]
    /\ UNCHANGED <<bucket, etag, synced, rejected, exposed>>

\* __setitem__, __delitem__, save_many: commit to the local copy, which needs
\* tables, then _maybe_sync, which does nothing before the interval is over
Put(i, sync) ==
    /\ at[i] = "idle" /\ local[i] # Bare
    /\ writes < MaxWrites
    /\ sync \/ Deferred
    /\ writes' = writes + 1
    /\ local' = [local EXCEPT ![i] = @ \cup {writes + 1}]
    /\ arg' = [arg EXCEPT ![i] = IF sync THEN writes + 1 ELSE None]
    /\ at' = [at EXCEPT ![i] = IF sync THEN "check" ELSE "idle"]
    /\ UNCHANGED <<bucket, etag, synced, rejected, exposed>>

\* sync_to_s3 called by the program, or by close()
Sync(i) ==
    /\ at[i] = "idle"
    /\ at' = [at EXCEPT ![i] = "check"]
    /\ UNCHANGED <<bucket, local, etag, arg, writes, synced, rejected, exposed>>

\* sync_to_s3(force=True)
ForceSync(i) ==
    /\ at[i] = "idle"
    /\ at' = [at EXCEPT ![i] = "upload"]
    /\ exposed' = TRUE
    /\ UNCHANGED <<bucket, local, etag, arg, writes, synced, rejected>>

\* _check_etag_conflict passes: there is no ETag to compare with (no check is
\* made), no file in S3, or the ETags are equal.
Unchanged(i) == etag[i] = None \/ bucket = None \/ bucket = etag[i]

CheckPasses(i) ==
    /\ at[i] = "check"
    /\ Unchanged(i)
    /\ at' = [at EXCEPT ![i] = "upload"]
    /\ exposed' = (\/ exposed
                   \/ \E k \in Instance \ {i} : Syncing(k)
                   \/ etag[i] # bucket
                   \/ local[i] = Bare)
    /\ UNCHANGED <<bucket, local, etag, arg, writes, synced, rejected>>

CheckConflicts_AdoptsETag(i) ==
    /\ at[i] = "check"
    /\ ~Unchanged(i)
    /\ etag' = [etag EXCEPT ![i] = bucket]
    /\ rejected' = rejected \cup ({arg[i]} \ {None})
    /\ at' = [at EXCEPT ![i] = "idle"]
    /\ arg' = [arg EXCEPT ![i] = None]
    /\ UNCHANGED <<bucket, local, writes, synced, exposed>>

\* S3ConflictError: the write stays in the local copy unless it is reloaded ...
CheckConflicts(i) ==
    /\ at[i] = "check"
    /\ ~Unchanged(i)
    /\ IF i \in AutoReload THEN Reload(i) ELSE UNCHANGED <<local, etag>>
    /\ rejected' = rejected \cup ({arg[i]} \ {None})
    /\ at' = [at EXCEPT ![i] = "idle"]
    /\ arg' = [arg EXCEPT ![i] = None]
    /\ UNCHANGED <<bucket, writes, synced, exposed>>

\* ... or RuntimeError, when reloading fails
ConflictReloadFails(i) ==
    /\ at[i] = "check"
    /\ ~Unchanged(i) /\ i \in AutoReload
    /\ Truncate(i)
    /\ at' = [at EXCEPT ![i] = "idle"]
    /\ arg' = [arg EXCEPT ![i] = None]
    /\ UNCHANGED <<bucket, writes, synced, rejected, exposed>>

Upload(i) ==
    /\ at[i] = "upload"
    /\ bucket' = local[i]
    /\ at' = [at EXCEPT ![i] = "head"]
    /\ UNCHANGED <<local, etag, arg, writes, synced, rejected, exposed>>

\* head_object after the upload
Head(i) ==
    /\ at[i] = "head"
    /\ etag' = [etag EXCEPT ![i] = bucket]
    /\ synced' = synced \cup (local[i] \cap Write)
    /\ at' = [at EXCEPT ![i] = "idle"]
    /\ arg' = [arg EXCEPT ![i] = None]
    /\ UNCHANGED <<bucket, local, writes, rejected, exposed>>

\* a request to S3 fails: RuntimeError, and nobody knows
Fail(i) ==
    /\ at[i] \in {"check", "upload", "head"}
    /\ at' = [at EXCEPT ![i] = "idle"]
    /\ arg' = [arg EXCEPT ![i] = None]
    /\ UNCHANGED <<bucket, local, etag, writes, synced, rejected, exposed>>

Moved_Never(i) == FALSE

\* _check_and_reload_if_needed finds another ETag (head_object raises when
\* there is no file, and the error is ignored)
Moved(i) == CheckOnRead /\ bucket # None /\ bucket # etag[i]

\* a read at least a second after the last check
Read(i) ==
    /\ at[i] = "idle"
    /\ Moved(i)
    /\ Reload(i)
    /\ UNCHANGED <<bucket, at, arg, writes, synced, rejected, exposed>>

\* The same when reloading fails: the read raises.
ReadReloadFails(i) ==
    /\ at[i] = "idle"
    /\ Moved(i)
    /\ Truncate(i)
    /\ UNCHANGED <<bucket, at, arg, writes, synced, rejected, exposed>>

\* The process dies, and the local copy with it.
Crash(i) ==
    /\ at[i] # "down"
    /\ at' = [at EXCEPT ![i] = "down"]
    /\ local' = [local EXCEPT ![i] = {}]
    /\ etag' = [etag EXCEPT ![i] = None]
    /\ arg' = [arg EXCEPT ![i] = None]
    /\ UNCHANGED <<bucket, writes, synced, rejected, exposed>>

-----------------------------------------------------------------------------
Init ==
    /\ bucket = None
    /\ local = [i \in Instance |-> {}]
    /\ etag = [i \in Instance |-> None]
    /\ at = [i \in Instance |-> "down"]
    /\ arg = [i \in Instance |-> None]
    /\ writes = 0
    /\ synced = {}
    /\ rejected = {}
    /\ exposed = FALSE

Answer(i) == CheckPasses(i) \/ CheckConflicts(i) \/ Upload(i) \/ Head(i)

Failure(i) == Fail(i) \/ ConflictReloadFails(i) \/ ReadReloadFails(i) \/ Crash(i)

Next ==
    \E i \in Instance :
        \/ Start(i)
        \/ \E sync \in BOOLEAN : Put(i, sync)
        \/ Sync(i)
        \/ ForceSync(i)
        \/ Answer(i)
        \/ Read(i)
        \/ Failure(i)

Spec == Init /\ [][Next]_vars

\* Calls under way go on; clients read again and again, and a second passes
\* between some of their reads.
Fairness == \A i \in Instance : WF_vars(Answer(i)) /\ SF_vars(Read(i))

FairSpec == Spec /\ Fairness

-----------------------------------------------------------------------------
(* Properties *)

\* The optimistic lock: a write covered by a sync that succeeded stays in the
\* file for ever, whatever other instances write, and whichever requests fail or
\* instances crash, unless an upload overlapped another one, was forced, came
\* from an instance that started on an empty bucket, or sent the empty file that
\* a download left which broke off.
SyncedKept == exposed \/ synced \subseteq Content(bucket)

\* A write answered with S3ConflictError never gets into the file with a later
\* sync, so the client can do it again; with the same exceptions.
RejectedStaysOut == exposed \/ bucket = None \/ rejected \cap bucket = {}

\* What an instance has uploaded is seen by the reads of every other one, unless
\* the download of that very file breaks off: the ETag says then that the empty
\* copy is up to date, until somebody uploads another file.
ReadersCatchUp ==
    \A i \in Instance, w \in Write :
        (w \in Content(bucket)) ~>
            \/ w \in local[i]
            \/ local[i] = Bare /\ etag[i] = bucket
            \/ at[i] = "down" \/ exposed

\* Nothing is promised after an exposed upload, so runs need not go on from there.
Protected == ~exposed

\* What the comparison of ETags rests on: a copy holds the file its ETag names.
\* False after a download that broke off.
CopyHasItsFile == \A i \in Instance : etag[i] # None => etag[i] \subseteq local[i]
=============================================================================
