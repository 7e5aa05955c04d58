-------------------------- MODULE FastSlowMetaStore --------------------------
(***************************************************************************)
(* meta_store/fast_slow.py: metadata is written to a fast store and moved, *)
(* all of it at once, to a slow store: by a background thread at every     *)
(* interval and by every search.  The move copies, saves and clears in     *)
(* three steps without a lock; what the fast store clears depends on its   *)
(* kind (meta_store/simple.py, meta_store/redis.py).                       *)
(*                                                                         *)
(* A version of some metadata is the number of the write that made it.     *)
(* __getitem__ looks into the fast store first: Lookup.  It goes on to the *)
(* slow store when the fast one raises KeyError, which DiskMetaStore does  *)
(* not: for what it does not have it raises FileNotFoundError.             *)
(***************************************************************************)
EXTENDS Naturals

CONSTANTS
    Pk,           \* resource ids
    NoPk,         \* none of them
    Searchers,    \* threads that search
    Deleters,     \* threads that delete
    Background,   \* the synchronisation thread
    Kinds,        \* what the fast store may be: of "memory", "disk" and "redis"
    MaxVersions,  \* bound: writes
    MaxFaults     \* bound: failed transactions of the slow store, and crashes

ASSUME Threads == Background \notin Searchers /\ NoPk \notin Pk
ASSUME Bounds == MaxVersions \in Nat /\ MaxFaults \in Nat

Syncs == Searchers \cup {Background}
NoVersion == 0
Version == Nat

VARIABLES
    kind,      \* the kind of fast store this program was built with
    fast,      \* _fast_store
    slow,      \* _slow_store
    step,      \* of each thread in _sync_fast_to_slow(): "idle", "save", "clear" or "search"
    metas,     \* what get_then_delete() handed to each thread
    victim,    \* the pk a thread is about to delete in the slow store, or NoPk
    versions,  \* number of writes: the newest version
    faults,    \* number of failed transactions and crashes
    latest,    \* the version callers wrote last, NoVersion if they deleted it since
    begun,     \* latest, when the thread's synchronisation began
    raced      \* the pks whose last change overlapped a synchronisation, or that
               \* were deleted in the fast store only

tierVars == <<kind, fast, slow, step, metas, victim, versions, faults, latest, begun, raced>>

Absent == [p \in Pk |-> NoVersion]

\* A miss of the fast store leads on to the slow one.
FallsBack == kind # "disk"

\* __getitem__(): NoVersion when it raises.
Lookup(p) == IF fast[p] = NoVersion /\ FallsBack THEN slow[p] ELSE fast[p]

\* Some thread holds a copy of the fast store that it will save, or will clear the fast store.
Moving == \E s \in Syncs : step[s] \in {"save", "clear"}

TiersInit ==
    /\ kind \in Kinds
    /\ fast = Absent /\ slow = Absent /\ latest = Absent
    /\ step = [s \in Syncs |-> "idle"]
    /\ metas = [s \in Syncs |-> Absent]
    /\ begun = [s \in Syncs |-> Absent]
    /\ victim = [d \in Deleters |-> NoPk]
    /\ versions = 0 /\ faults = 0 /\ raced = {}

-----------------------------------------------------------------------------
\* __setitem__(): the fast store only.
Set(p) ==
    /\ versions < MaxVersions
    /\ versions' = versions + 1
    /\ fast' = [fast EXCEPT ![p] = versions + 1]
    /\ latest' = [latest EXCEPT ![p] = versions + 1]
    /\ raced' = IF Moving THEN raced \cup {p} ELSE raced \ {p}
    /\ UNCHANGED <<kind, slow, step, metas, victim, faults, begun>>

\* __delitem__(): the fast copy if there is one; a copy in the slow store stays.
DeleteFast(p) ==
    /\ fast[p] # NoVersion
    /\ fast' = [fast EXCEPT ![p] = NoVersion]
    /\ latest' = [latest EXCEPT ![p] = NoVersion]
    /\ raced' = IF Moving \/ slow[p] # NoVersion THEN raced \cup {p} ELSE raced \ {p}
    /\ UNCHANGED <<kind, slow, step, metas, victim, versions, faults, begun>>

\* The fast store raised KeyError (after any other error the caller is told, and
\* nothing has changed) ...
MissFast(d, p) ==
    /\ victim[d] = NoPk /\ fast[p] = NoVersion /\ FallsBack
    /\ victim' = [victim EXCEPT ![d] = p]
    /\ UNCHANGED <<kind, fast, slow, step, metas, versions, faults, latest, begun, raced>>

\* ... so that the slow copy is deleted, or KeyError raised.  A version that
\* is in the fast store by now was written after the deletion.
DeleteSlow(d) ==
    LET p == victim[d]
    IN  /\ p # NoPk
        /\ victim' = [victim EXCEPT ![d] = NoPk]
        /\ slow' = [slow EXCEPT ![p] = NoVersion]
        /\ latest' = IF fast[p] = NoVersion THEN [latest EXCEPT ![p] = NoVersion] ELSE latest
        /\ raced' = IF Moving THEN raced \cup {p} ELSE IF fast[p] = NoVersion THEN raced \ {p} ELSE raced
        /\ UNCHANGED <<kind, fast, step, metas, versions, faults, begun>>

\* What a thread does after it synchronised.
After(s) == IF s = Background THEN "idle" ELSE "search"

Begin_SkipsBusy(s) ==
    /\ step[s] = "idle"
    /\ metas' = [metas EXCEPT ![s] = fast]
    /\ begun' = [begun EXCEPT ![s] = latest]
    /\ step' = [step EXCEPT ![s] = IF Moving THEN After(s) ELSE "save"]
    /\ UNCHANGED <<kind, fast, slow, victim, versions, faults, latest, raced>>

\* get_then_delete(), up to its yield.  Redis hands over a list, and an empty
\* one ends the synchronisation; the others hand over a generator, which is
\* never false.
Begin(s) ==
    /\ step[s] = "idle"
    /\ metas' = [metas EXCEPT ![s] = fast]
    /\ begun' = [begun EXCEPT ![s] = latest]
    /\ step' = [step EXCEPT ![s] = IF kind = "redis" /\ fast = Absent THEN After(s) ELSE "save"]
    /\ UNCHANGED <<kind, fast, slow, victim, versions, faults, latest, raced>>

Save_Inserts(s) ==
    /\ step[s] = "save"
    /\ slow' = [p \in Pk |-> IF slow[p] = NoVersion THEN metas[s][p] ELSE slow[p]]
    /\ step' = [step EXCEPT ![s] = "clear"]
    /\ UNCHANGED <<kind, fast, metas, victim, versions, faults, latest, begun, raced>>

\* save_many(): one transaction of the slow store ...
Save(s) ==
    /\ step[s] = "save"
    /\ slow' = [p \in Pk |-> IF metas[s][p] # NoVersion THEN metas[s][p] ELSE slow[p]]
    /\ step' = [step EXCEPT ![s] = "clear"]
    /\ UNCHANGED <<kind, fast, metas, victim, versions, faults, latest, begun, raced>>

SaveFails_Clears(s) ==
    /\ step[s] = "save" /\ faults < MaxFaults
    /\ faults' = faults + 1
    /\ step' = [step EXCEPT ![s] = "clear"]
    /\ UNCHANGED <<kind, fast, slow, metas, victim, versions, latest, begun, raced>>

\* ... that may fail: nothing is cleared, the background thread goes on.
SaveFails(s) ==
    /\ step[s] = "save" /\ faults < MaxFaults
    /\ faults' = faults + 1
    /\ step' = [step EXCEPT ![s] = "idle"]
    /\ metas' = [metas EXCEPT ![s] = Absent]
    /\ begun' = [begun EXCEPT ![s] = Absent]
    /\ UNCHANGED <<kind, fast, slow, victim, versions, latest, raced>>

Cleared_Pops(s) == [p \in {q \in Pk : metas[s][q] = NoVersion} |-> fast[p]]

\* get_then_delete(), after its yield: memory and Redis clear all there is now,
\* the disk store the files it handed over.
Cleared(s) == IF kind = "disk" THEN [p \in Pk |-> IF metas[s][p] # NoVersion THEN NoVersion ELSE fast[p]] ELSE Absent

Clear(s) ==
    /\ step[s] = "clear"
    /\ fast' = Cleared(s)
    /\ step' = [step EXCEPT ![s] = After(s)]
    /\ metas' = [metas EXCEPT ![s] = Absent]
    /\ begun' = IF s = Background THEN [begun EXCEPT ![s] = Absent] ELSE begun
    /\ UNCHANGED <<kind, slow, victim, versions, faults, latest, raced>>

\* iter_search() returns what the slow store finds.
Search(s) ==
    /\ step[s] = "search"
    /\ step' = [step EXCEPT ![s] = "idle"]
    /\ begun' = [begun EXCEPT ![s] = Absent]
    /\ UNCHANGED <<kind, fast, slow, metas, victim, versions, faults, latest, raced>>

\* The process dies and starts again: what the memory store held is lost, as
\* IFastMetaStore says, and callers go on from what is left.
Restart ==
    /\ faults < MaxFaults
    /\ faults' = faults + 1
    /\ fast' = IF kind = "memory" THEN Absent ELSE fast
    /\ latest' = [p \in Pk |-> IF fast'[p] # NoVersion THEN fast'[p] ELSE slow[p]]
    /\ raced' = {}
    /\ step' = [s \in Syncs |-> "idle"]
    /\ metas' = [s \in Syncs |-> Absent]
    /\ begun' = [s \in Syncs |-> Absent]
    /\ victim' = [d \in Deleters |-> NoPk]
    /\ UNCHANGED <<kind, slow, versions>>

SyncFastToSlow(s) == Begin(s) \/ Save(s) \/ Clear(s)

TiersNext ==
    \/ \E p \in Pk : Set(p) \/ DeleteFast(p)
    \/ \E d \in Deleters : DeleteSlow(d) \/ \E p \in Pk : MissFast(d, p)
    \/ \E s \in Syncs : SyncFastToSlow(s) \/ SaveFails(s) \/ Search(s)
    \/ Restart

TiersSpec == TiersInit /\ [][TiersNext]_tierVars

\* The background thread never ends: it waits for the interval and synchronises.
FairTiersSpec == TiersSpec /\ WF_tierVars(SyncFastToSlow(Background))

-----------------------------------------------------------------------------
TiersTypeOK ==
    /\ fast \in [Pk -> Version] /\ slow \in [Pk -> Version] /\ latest \in [Pk -> Version]
    /\ step \in [Syncs -> {"idle", "save", "clear", "search"}]
    /\ metas \in [Syncs -> [Pk -> Version]] /\ begun \in [Syncs -> [Pk -> Version]]
    /\ victim \in [Deleters -> Pk \cup {NoPk}]
    /\ kind \in Kinds /\ versions \in Nat /\ faults \in Nat /\ raced \subseteq Pk

\* A read returns what was written last, also while the metadata moves, after
\* failed saves and deletions and with several threads synchronising at once,
\* unless the last change overlapped a synchronisation or left a slow copy.  In
\* front of a disk store it raises FileNotFoundError for what has moved; that is
\* in the slow store then, as nothing is cleared that was not saved.
LatestUnlessRaced ==
    \A p \in Pk \ raced :
        \/ Lookup(p) = latest[p]
        \/ ~FallsBack /\ fast[p] = NoVersion /\ slow[p] = latest[p]

\* What docs.bk says of reads: what the fast store misses is read from the slow
\* store.  False in front of a disk store.
ReadsFallBack == \A p \in Pk : slow[p] # NoVersion => Lookup(p) # NoVersion

\* A search returns every version that was the last one when the search began
\* and still is.
SearchSeesWrites ==
    \A s \in Searchers, p \in Pk \ raced :
        step[s] = "search" /\ latest[p] = begun[s][p] => slow[p] = latest[p]

\* What is written last reaches the slow store, though saves may fail.
ReachesSlow == \A p \in Pk : []<>(p \in raced \/ slow[p] = latest[p])
=============================================================================
