-------------------------- MODULE RevisionLifecycle --------------------------
(***************************************************************************)
(* The life of ONE resource under ResourceManager                          *)
(* (autocrud/resource_manager/core.py): the metadata record in the meta    *)
(* store, and the revisions in the resource store, which are two stores    *)
(* written one after the other without a transaction.                      *)
(*                                                                         *)
(* A resource_id never touches the keys of another one, so one resource    *)
(* stands for all of them.  One process runs the operations one at a time  *)
(* (the HTTP handlers do not await inside a ResourceManager call); it can  *)
(* crash between the two writes of an operation, which `pending' holds.    *)
(*                                                                         *)
(* Payloads are members of Value; what the bytes of a payload look like    *)
(* matters only through the schema they were encoded under (`fmt').        *)
(* Schema versions are numbered in the order they are deployed, 0 being    *)
(* the lowest (None, or the first version).  A deployed schema cannot      *)
(* decode the bytes of another one: operations that decode raise.          *)
(***************************************************************************)
EXTENDS Naturals

CONSTANTS
    Value,       \* payloads (domain objects)
    MaxRev,      \* bound: revision numbers are 1..MaxRev
    MaxSv,       \* bound: schema versions are 0..MaxSv
    MaxCrashes,  \* bound: crashes in a behaviour
    LexRank,     \* rank of each schema version in the order of Python strings
    Recreate,    \* whether a caller may create() over an id that is in use
    Backend,     \* resource store: "memory", "disk" or "s3"
    None         \* no record, no revision, nothing pending, UNSET

Rev == 1..MaxRev
Sv == 0..MaxSv
Status == {"draft", "stable"}

Hash == [val: Value, fmt: Sv]

\* What the resource store holds under one (revision, schema version) key.
\* `born' stands for the uid: save() writes data and info under info.uid and
\* points the key at it; uuid4 makes the uid new except in migrate(), which
\* saves under the uid of the entry it read.  Two keys of a revision share
\* the stored object exactly when they have the same `born', the schema
\* version deployed when the uid was made.
Entry == [born: Sv, sv: Sv, val: Value, fmt: Sv, hash: Hash,
          status: Status, parent: Rev \cup {None}]

Meta == [cur: Rev, total: Nat, sv: Sv, deleted: BOOLEAN, idx: Value]

\* The second write of an operation under way.
Pending ==
         [write: {"meta"}, meta: Meta]
    \cup [write: {"revision"}, rev: Rev, entry: Entry]
    \cup [write: {"purge"}]

ASSUME LifecycleAssumption ==
    /\ MaxRev \in Nat \ {0}
    /\ MaxSv \in Nat
    /\ MaxCrashes \in Nat
    /\ LexRank \in [Sv -> Nat]
    /\ \A s, t \in Sv : s # t => LexRank[s] # LexRank[t]
    /\ Recreate \in BOOLEAN
    /\ Backend \in {"memory", "disk", "s3"}

ASSUME NoneAssumption ==
    /\ None \notin Rev
    /\ None \notin Status
    /\ None \notin Entry
    /\ None \notin Meta
    /\ None \notin Pending

VARIABLES
    meta,      \* the ResourceMeta record, or None
    store,     \* store[r][s]: the entry of revision r at schema version s
    pending,   \* the write the running operation still has to do
    deployed,  \* the schema version of the running program
    crashes    \* number of crashes so far

vars == <<meta, store, pending, deployed, crashes>>

TypeOK ==
    /\ meta \in Meta \cup {None}
    /\ store \in [Rev -> [Sv -> Entry \cup {None}]]
    /\ pending \in Pending \cup {None}
    /\ deployed \in Sv
    /\ crashes \in 0..MaxCrashes

-----------------------------------------------------------------------------
(* Reading the two stores *)

\* schema versions under which revision r is stored (list_schema_versions)
Versions(r) == {s \in Sv : store[r][s] # None}

\* revisions the resource store knows (list_revisions)
Stored == {r \in Rev : Versions(r) # {}}

\* the entry a reader gets for HEAD: revision meta.cur at key meta.sv
Head == store[meta.cur][meta.sv]

HeadStored == meta # None /\ Head # None

Alive_IgnoresDeleted == meta # None

\* get_meta: the resource exists and is not soft-deleted
Alive == meta # None /\ ~meta.deleted

Decodes(e) == e.fmt = deployed

\* find_revision_schema_version(r) returns s: max(non_none), where Python
\* compares schema versions as strings (UNSET if r was never stored)
Finds(r, s) ==
    /\ s \in Versions(r)
    /\ \A t \in Versions(r) : LexRank[t] <= LexRank[s]

-----------------------------------------------------------------------------
(* Writing the two stores *)

\* IResourceStore.save: the object of the entry's uid is (over)written, and
\* the key (r, e.sv) points at it; every other key of that uid sees it too.
Saved(r, e) ==
    [store EXCEPT ![r] =
        [s \in Sv |-> IF s = e.sv \/ (@[s] # None /\ @[s].born = e.born)
                      THEN e
                      ELSE @[s]]]

NewEntry(v, st, parent) ==
    [born |-> deployed, sv |-> deployed, val |-> v, fmt |-> deployed,
     hash |-> [val |-> v, fmt |-> deployed], status |-> st, parent |-> parent]

\* An operation that saves a revision and then the metadata.
SaveRevisionThenMeta(r, e, m) ==
    /\ store' = Saved(r, e)
    /\ pending' = [write |-> "meta", meta |-> m]
    /\ UNCHANGED <<meta, deployed, crashes>>

SaveMeta(m) ==
    /\ meta' = m
    /\ UNCHANGED <<store, pending, deployed, crashes>>

Idle == pending = None

-----------------------------------------------------------------------------
(* Operations of ResourceManager.  An operator named <Action>_<Bug> is the   *)
(* action with a plausible mistake in it; it is not part of Next, and shows  *)
(* that a property of the runs can tell the difference.                      *)

Create(v, st) ==
    /\ Idle
    /\ meta = None \/ Recreate
    /\ SaveRevisionThenMeta(1, NewEntry(v, st, None),
          [cur |-> 1, total |-> 1, sv |-> deployed, deleted |-> FALSE, idx |-> v])

Update_CountFromHead(v, st) ==
    /\ Idle /\ Alive /\ Head # None
    /\ Head.hash # [val |-> v, fmt |-> deployed]
    /\ meta.cur < MaxRev
    /\ SaveRevisionThenMeta(meta.cur + 1, NewEntry(v, st, meta.cur),
          [cur |-> meta.cur + 1, total |-> meta.cur + 1, sv |-> deployed,
           deleted |-> FALSE, idx |-> v])

Update_MetaFirst(v, st) ==
    /\ Idle /\ Alive /\ Head # None
    /\ Head.hash # [val |-> v, fmt |-> deployed]
    /\ meta.total < MaxRev
    /\ meta' = [cur |-> meta.total + 1, total |-> meta.total + 1,
                sv |-> deployed, deleted |-> FALSE, idx |-> v]
    /\ pending' = [write |-> "revision", rev |-> meta.total + 1,
                   entry |-> NewEntry(v, st, meta.cur)]
    /\ UNCHANGED <<store, deployed, crashes>>

Update(v, st) ==
    /\ Idle
    /\ Alive
    /\ Head # None
    /\ Head.hash # [val |-> v, fmt |-> deployed]
    /\ meta.total < MaxRev
    /\ SaveRevisionThenMeta(meta.total + 1, NewEntry(v, st, meta.cur),
          [cur |-> meta.total + 1, total |-> meta.total + 1, sv |-> deployed,
           deleted |-> FALSE, idx |-> v])

Modified(v, st, parent) ==
    SaveRevisionThenMeta(meta.cur, NewEntry(v, st, parent),
        [cur |-> meta.cur, total |-> meta.total, sv |-> deployed,
         deleted |-> FALSE, idx |-> v])

Modifiable(v) ==
    Idle /\ Alive /\ Head # None /\ Head.hash # [val |-> v, fmt |-> deployed]

ModifyData_StoresUnsetStatus(v, st) ==
    /\ Modifiable(v)
    /\ Head.status = "draft" \/ st = "draft"
    /\ Modified(v, st, Head.parent)

ModifyData_ParentIsHead(v, st) ==
    /\ Modifiable(v)
    /\ Head.status = "draft" \/ st = "draft"
    /\ Modified(v, IF st = None THEN Head.status ELSE st, meta.cur)

ModifyData_NoDraftCheck(v, st) ==
    /\ Modifiable(v)
    /\ Modified(v, IF st = None THEN Head.status ELSE st, Head.parent)

\* modify(data) and modify(data, status); st = None when no status is given.
ModifyData(v, st) ==
    /\ Modifiable(v)
    /\ Head.status = "draft" \/ st = "draft"
    /\ Modified(v, IF st = None THEN Head.status ELSE st, Head.parent)

\* modify(status): the stored bytes are copied as they are.
ModifyStatus(st) ==
    /\ Idle
    /\ Alive
    /\ Head # None
    /\ Head.status # st
    /\ SaveRevisionThenMeta(meta.cur,
          [Head EXCEPT !.born = deployed, !.sv = deployed, !.status = st],
          [meta EXCEPT !.sv = deployed])

\* patch: read and decode HEAD, apply the JSON patch, then update.
Patch(v, st) ==
    /\ HeadStored /\ Decodes(Head)
    /\ Update(v, st)

Switch_NoVersionCheck(r) ==
    /\ Idle /\ Alive
    /\ meta.cur # r
    /\ \E s \in Sv :
        /\ Finds(r, s)
        /\ SaveMeta([meta EXCEPT !.cur = r, !.idx = store[r][s].val])

Switch_NoReindex(r) ==
    /\ Idle /\ Alive
    /\ meta.cur # r
    /\ Finds(r, meta.sv)
    /\ SaveMeta([meta EXCEPT !.cur = r])

Switch(r) ==
    /\ Idle
    /\ Alive
    /\ meta.cur # r
    /\ Finds(r, meta.sv)
    /\ Decodes(store[r][meta.sv])
    /\ SaveMeta([meta EXCEPT !.cur = r, !.idx = store[r][meta.sv].val])

Delete ==
    /\ Idle
    /\ Alive
    /\ SaveMeta([meta EXCEPT !.deleted = TRUE])

Restore ==
    /\ Idle
    /\ meta # None /\ meta.deleted
    /\ SaveMeta([meta EXCEPT !.deleted = FALSE])

\* SimpleStorage.purge_resource: the metadata first, then the revisions.
PermanentlyDelete ==
    /\ Idle
    /\ meta # None
    /\ meta' = None
    /\ pending' = [write |-> "purge"]
    /\ UNCHANGED <<store, deployed, crashes>>

Migrated_KeepsLabel(e) == [e EXCEPT !.fmt = deployed]

\* The entry migrate() writes back: the same uid, status, parent and hash;
\* only the bytes and the label are new.  A migration step cannot read bytes
\* of another format than the label says.
Migrated(e) == [e EXCEPT !.sv = deployed, !.fmt = deployed]

\* migrate(id): the metadata is saved before the migrated revision.
MigrateCurrent ==
    /\ Idle
    /\ HeadStored
    /\ Head.sv # deployed
    /\ Head.fmt = Head.sv
    /\ meta' = [meta EXCEPT !.sv = deployed, !.idx = Head.val]
    /\ pending' = [write |-> "revision", rev |-> meta.cur, entry |-> Migrated(Head)]
    /\ UNCHANGED <<store, deployed, crashes>>

\* migrate(id, revision_id = r): the metadata is left alone.
MigrateRevision(r) ==
    /\ Idle
    /\ meta # None
    /\ \E s \in Sv :
        /\ Finds(r, s)
        /\ store[r][s].sv # deployed
        /\ store[r][s].fmt = store[r][s].sv
        /\ store' = Saved(r, Migrated(store[r][s]))
    /\ UNCHANGED <<meta, pending, deployed, crashes>>

-----------------------------------------------------------------------------
(* The second write, crashes, and new versions of the program *)

\* MemoryResourceStore removes every revision; DiskResourceStore looks in a
\* directory that does not exist; the S3 stores do not implement the call
\* and raise.
Purged ==
    IF Backend = "memory" THEN [r \in Rev |-> [s \in Sv |-> None]] ELSE store

FinishMeta ==
    /\ ~Idle /\ pending.write = "meta"
    /\ meta' = pending.meta
    /\ pending' = None
    /\ UNCHANGED <<store, deployed, crashes>>

FinishRevision ==
    /\ ~Idle /\ pending.write = "revision"
    /\ store' = Saved(pending.rev, pending.entry)
    /\ pending' = None
    /\ UNCHANGED <<meta, deployed, crashes>>

FinishPurge ==
    /\ ~Idle /\ pending.write = "purge"
    /\ store' = Purged
    /\ pending' = None
    /\ UNCHANGED <<meta, deployed, crashes>>

\* The process dies, or the second write raises, before it took effect.
Crash ==
    /\ ~Idle
    /\ crashes < MaxCrashes
    /\ pending' = None
    /\ crashes' = crashes + 1
    /\ UNCHANGED <<meta, store, deployed>>

\* The program is deployed again with the next schema version.
Upgrade ==
    /\ Idle
    /\ deployed < MaxSv
    /\ deployed' = deployed + 1
    /\ UNCHANGED <<meta, store, pending, crashes>>

-----------------------------------------------------------------------------
Init ==
    /\ meta = None
    /\ store = [r \in Rev |-> [s \in Sv |-> None]]
    /\ pending = None
    /\ deployed = 0
    /\ crashes = 0

Next ==
    \/ \E v \in Value, st \in Status : Create(v, st)
    \/ \E v \in Value, st \in Status : Update(v, st)
    \/ \E v \in Value, st \in Status \cup {None} : ModifyData(v, st)
    \/ \E st \in Status : ModifyStatus(st)
    \/ \E v \in Value, st \in Status : Patch(v, st)
    \/ \E r \in Rev : Switch(r)
    \/ Delete
    \/ Restore
    \/ PermanentlyDelete
    \/ MigrateCurrent
    \/ \E r \in Rev : MigrateRevision(r)
    \/ FinishMeta
    \/ FinishRevision
    \/ FinishPurge
    \/ Crash
    \/ Upgrade

Spec == Init /\ [][Next]_vars

-----------------------------------------------------------------------------
(* Properties *)

\* The metadata of a resource always names a revision that the resource store
\* holds under some schema version: no crash between the two writes of an
\* operation, and no operation, leaves a HEAD whose payload is gone.
HeadRecoverable == meta # None => meta.cur \in Stored

\* Without crashes, what get() reads (HEAD under the schema version of the
\* metadata) is there, except while migrate() is between its two writes.
HeadResolves ==
    meta # None => Head # None \/ (~Idle /\ pending.write = "revision")

\* A payload is never encoded under a newer schema than its label says, so a
\* migration step never runs on bytes it already migrated, crashes included.
FormatNotAhead ==
    \A r \in Rev, s \in Sv :
        store[r][s] # None => store[r][s].fmt <= store[r][s].sv

\* The parent of a revision is an older revision: the graph of revisions that
\* update() after switch() builds has no cycle (data-model.md, "revision DAG").
LineageGrows ==
    \A r \in Rev, s \in Sv :
        store[r][s] # None /\ store[r][s].parent # None =>
            store[r][s].parent < r

\* Searches read indexed_data instead of the payload: once an operation is
\* done, the index holds what HEAD's payload holds.
IndexMatchesHead == Idle /\ HeadStored => meta.idx = Head.val

SameContent(e, f) ==
    /\ f # None
    /\ <<e.val, e.status, e.parent, e.hash>> = <<f.val, f.status, f.parent, f.hash>>

\* A revision that is not HEAD keeps its payload, status and parent as long
\* as the resource is not purged: update() appends, modify() edits HEAD only,
\* and migrating any revision, through keys that share an object, rewrites
\* no payload.
HistoryFrozen ==
    [][\A r \in Rev, s \in Sv :
         meta # None /\ r # meta.cur /\ store[r][s] # None
            => SameContent(store[r][s], store'[r][s])]_vars

\* No operation reaches through a soft delete: while a resource is deleted
\* neither its HEAD nor any payload changes.
DeletedFrozen ==
    [][meta # None /\ meta.deleted /\ meta' # None
         => /\ meta'.cur = meta.cur
            /\ \A r \in Rev, s \in Sv : store[r][s] # None
                    => SameContent(store[r][s], store'[r][s])]_vars

-----------------------------------------------------------------------------
(* The abstract document a run of the lifecycle implements *)

\* the latest stored form of revision r
Latest(r) ==
    store[r][CHOOSE s \in Versions(r) : \A t \in Versions(r) : t <= s]

Document ==
    IF meta = None THEN None
    ELSE [head    |-> meta.cur,
          deleted |-> meta.deleted,
          history |-> [r \in 1..meta.total |->
              [val |-> Latest(r).val, status |-> Latest(r).status,
               parent |-> Latest(r).parent]]]

Abstract == INSTANCE VersionedDocument WITH doc <- Document

\* Without crashes and without reuse of an id in use, every operation looks
\* like one atomic step on the abstract document, although it writes two
\* stores: revisions written ahead of the metadata are not visible, an edit in
\* place takes effect with its first write, a migration is not visible at all.
ImplementsDocument == Abstract!Spec

=============================================================================
