----------------------- MODULE RevisionLifecycle_proofs -----------------------
(***************************************************************************)
(* Theorems about RevisionLifecycle, for every value of its constants:     *)
(* any number of revisions, schema versions and crashes, any order of the  *)
(* version strings, any backend.                                           *)
(*                                                                         *)
(* The second part is about HEAD, the index and the history when no        *)
(* process dies between its two writes (NoCrash).  Two more hypotheses     *)
(* are used where they are needed, and named in each theorem: the versions *)
(* of the schema sort as strings in the order in which they are deployed   *)
(* (SortedVersions), and an id is never created again over revisions that  *)
(* are still stored (FreshIds).                                            *)
(***************************************************************************)
EXTENDS RevisionLifecycle, TLAPS

-----------------------------------------------------------------------------
(* Lemmas about the operators the actions are built from *)

\* save() yields a well-typed resource store.
LEMMA SavedType ==
    ASSUME TypeOK, NEW r \in Rev, NEW e \in Entry
    PROVE  Saved(r, e) \in [Rev -> [Sv -> Entry \cup {None}]]
  BY DEF TypeOK, Saved

\* save() never removes an entry: a key that was stored stays stored, and so
\* is the key that is written.
LEMMA SavedKeeps ==
    ASSUME TypeOK, NEW r \in Rev, NEW e \in Entry, NEW q \in Rev, NEW s \in Sv,
           store[q][s] # None \/ (q = r /\ s = e.sv)
    PROVE  Saved(r, e)[q][s] # None
  BY NoneAssumption DEF TypeOK, Saved

\* The entry of a new revision is well typed.
LEMMA NewEntryType ==
    ASSUME TypeOK, NEW v \in Value, NEW st \in Status, NEW p \in Rev \cup {None}
    PROVE  /\ NewEntry(v, st, p) \in Entry
           /\ NewEntry(v, st, p).sv \in Sv
  BY DEF TypeOK, NewEntry, Entry, Hash

\* HEAD, where there is one, is a well-typed entry.
LEMMA HeadType ==
    ASSUME TypeOK, HeadStored
    PROVE  Head \in Entry /\ meta \in Meta /\ meta.cur \in Rev /\ meta.sv \in Sv
  BY DEF TypeOK, HeadStored, Head, Meta

\* find_revision_schema_version finds a stored version of a stored revision.
LEMMA FindsStored ==
    ASSUME TypeOK, NEW r \in Rev, NEW s \in Sv, Finds(r, s)
    PROVE  store[r][s] \in Entry
  BY DEF TypeOK, Finds, Versions

\* What each kind of pending write carries.
LEMMA PendingType ==
    ASSUME TypeOK, pending # None
    PROVE  /\ pending.write = "meta" => pending.meta \in Meta
           /\ pending.write = "revision" =>
                 pending.rev \in Rev /\ pending.entry \in Entry
  BY DEF TypeOK, Pending

-----------------------------------------------------------------------------
(* Type correctness *)

\* Every operation, crash and redeployment keeps the two stores well typed:
\* in particular revision numbers stay within those the metadata can name and
\* no status is left UNSET in the store.
THEOREM TypeCorrect == Spec => []TypeOK
<1>1. Init => TypeOK
  BY LifecycleAssumption DEF Init, TypeOK, Sv, Rev
<1>2. TypeOK /\ [Next]_vars => TypeOK'
  <2> SUFFICES ASSUME TypeOK, [Next]_vars PROVE TypeOK'
    OBVIOUS
  <2>1. ASSUME NEW r \in Rev, NEW e \in Entry, NEW m \in Meta,
               SaveRevisionThenMeta(r, e, m)
        PROVE  TypeOK'
    <3>1. store' \in [Rev -> [Sv -> Entry \cup {None}]]
      BY <2>1, SavedType DEF SaveRevisionThenMeta
    <3>2. pending' \in Pending
      BY <2>1 DEF SaveRevisionThenMeta, Pending
    <3>. QED
      BY <2>1, <3>1, <3>2 DEF SaveRevisionThenMeta, TypeOK
  <2>2. ASSUME NEW m \in Meta, SaveMeta(m) PROVE TypeOK'
    BY <2>2 DEF SaveMeta, TypeOK
  <2>3. CASE \E v \in Value, st \in Status : Create(v, st)
    <3>1. PICK v \in Value, st \in Status : Create(v, st)
      BY <2>3
    <3>2. NewEntry(v, st, None) \in Entry
      BY NewEntryType
    <3>3. 1 \in Rev
      BY LifecycleAssumption DEF Rev
    <3>4. [cur |-> 1, total |-> 1, sv |-> deployed, deleted |-> FALSE, idx |-> v] \in Meta
      BY <3>3 DEF Meta, TypeOK
    <3>. QED
      BY <2>1, <3>1, <3>2, <3>3, <3>4 DEF Create
  <2>4. ASSUME NEW v \in Value, NEW st \in Status, Update(v, st) PROVE TypeOK'
    <3>1. meta \in Meta /\ meta.cur \in Rev /\ meta.total \in Nat
      BY <2>4 DEF Update, Alive, TypeOK, Meta
    <3>2. meta.total + 1 \in Rev
      BY <2>4, <3>1, LifecycleAssumption DEF Update, Rev
    <3>3. NewEntry(v, st, meta.cur) \in Entry
      BY <3>1, NewEntryType
    <3>4. [cur |-> meta.total + 1, total |-> meta.total + 1, sv |-> deployed,
           deleted |-> FALSE, idx |-> v] \in Meta
      BY <3>1, <3>2 DEF Meta, TypeOK
    <3>. QED
      BY <2>1, <2>4, <3>2, <3>3, <3>4 DEF Update
  <2>5. CASE \E v \in Value, st \in Status : Update(v, st)
    BY <2>4, <2>5
  <2>6. CASE \E v \in Value, st \in Status \cup {None} : ModifyData(v, st)
    <3>1. PICK v \in Value, st \in Status \cup {None} : ModifyData(v, st)
      BY <2>6
    <3>2. Head \in Entry /\ meta \in Meta /\ meta.cur \in Rev /\ meta.total \in Nat
      BY <3>1, HeadType DEF ModifyData, Modifiable, Alive, HeadStored, Meta
    <3>3. Head.status \in Status /\ Head.parent \in Rev \cup {None}
      BY <3>2 DEF Entry
    <3>4. NewEntry(v, IF st = None THEN Head.status ELSE st, Head.parent) \in Entry
      <4>. DEFINE status == IF st = None THEN Head.status ELSE st
      <4>1. status \in Status
        BY <3>3
      <4>. HIDE DEF status
      <4>. QED
        BY <4>1, <3>3, NewEntryType
    <3>5. [cur |-> meta.cur, total |-> meta.total, sv |-> deployed,
           deleted |-> FALSE, idx |-> v] \in Meta
      BY <3>2 DEF Meta, TypeOK
    <3>. QED
      BY <2>1, <3>1, <3>2, <3>4, <3>5 DEF ModifyData, Modified
  <2>7. CASE \E st \in Status : ModifyStatus(st)
    <3>1. PICK st \in Status : ModifyStatus(st)
      BY <2>7
    <3>2. Head \in Entry /\ meta \in Meta /\ meta.cur \in Rev
      BY <3>1, HeadType DEF ModifyStatus, Alive, HeadStored
    <3>3. [Head EXCEPT !.born = deployed, !.sv = deployed, !.status = st] \in Entry
      BY <3>2 DEF Entry, TypeOK
    <3>4. [meta EXCEPT !.sv = deployed] \in Meta
      BY <3>2 DEF Meta, TypeOK
    <3>. QED
      BY <2>1, <3>1, <3>2, <3>3, <3>4 DEF ModifyStatus
  <2>8. CASE \E v \in Value, st \in Status : Patch(v, st)
    BY <2>4, <2>8 DEF Patch
  <2>9. CASE \E r \in Rev : Switch(r)
    <3>1. PICK r \in Rev : Switch(r)
      BY <2>9
    <3>2. meta \in Meta /\ meta.sv \in Sv
      BY <3>1 DEF Switch, Alive, TypeOK, Meta
    <3>3. store[r][meta.sv].val \in Value
      BY <3>1, <3>2, FindsStored DEF Switch, Entry
    <3>4. [meta EXCEPT !.cur = r, !.idx = store[r][meta.sv].val] \in Meta
      BY <3>2, <3>3 DEF Meta
    <3>. QED
      BY <2>2, <3>1, <3>4 DEF Switch
  <2>10. CASE Delete
    <3>1. [meta EXCEPT !.deleted = TRUE] \in Meta
      BY <2>10 DEF Delete, Alive, TypeOK, Meta
    <3>. QED
      BY <2>2, <2>10, <3>1 DEF Delete
  <2>11. CASE Restore
    <3>1. [meta EXCEPT !.deleted = FALSE] \in Meta
      BY <2>11 DEF Restore, TypeOK, Meta
    <3>. QED
      BY <2>2, <2>11, <3>1 DEF Restore
  <2>12. CASE PermanentlyDelete
    BY <2>12 DEF PermanentlyDelete, TypeOK, Pending
  <2>13. CASE MigrateCurrent
    <3>1. Head \in Entry /\ meta \in Meta /\ meta.cur \in Rev
      BY <2>13, HeadType DEF MigrateCurrent
    <3>2. Migrated(Head) \in Entry /\ Head.val \in Value
      BY <3>1 DEF Migrated, Entry, TypeOK
    <3>3. [meta EXCEPT !.sv = deployed, !.idx = Head.val] \in Meta
      BY <3>1, <3>2 DEF Meta, TypeOK
    <3>4. [write |-> "revision", rev |-> meta.cur, entry |-> Migrated(Head)] \in Pending
      BY <3>1, <3>2 DEF Pending
    <3>. QED
      BY <2>13, <3>3, <3>4 DEF MigrateCurrent, TypeOK
  <2>14. CASE \E r \in Rev : MigrateRevision(r)
    <3>1. PICK r \in Rev, s \in Sv :
             /\ Finds(r, s)
             /\ store' = Saved(r, Migrated(store[r][s]))
             /\ UNCHANGED <<meta, pending, deployed, crashes>>
      BY <2>14 DEF MigrateRevision
    <3>2. Migrated(store[r][s]) \in Entry
      BY <3>1, FindsStored DEF Migrated, Entry, TypeOK
    <3>. QED
      BY <3>1, <3>2, SavedType DEF TypeOK
  <2>15. CASE FinishMeta
    BY <2>15, PendingType DEF FinishMeta, Idle, TypeOK
  <2>16. CASE FinishRevision
    BY <2>16, PendingType, SavedType DEF FinishRevision, Idle, TypeOK
  <2>17. CASE FinishPurge
    BY <2>17 DEF FinishPurge, Purged, TypeOK
  <2>18. CASE Crash
    BY <2>18, LifecycleAssumption DEF Crash, TypeOK
  <2>19. CASE Upgrade
    BY <2>19, LifecycleAssumption DEF Upgrade, TypeOK, Sv
  <2>20. CASE UNCHANGED vars
    BY <2>20 DEF vars, TypeOK
  <2>. QED
    BY <2>3, <2>5, <2>6, <2>7, <2>8, <2>9, <2>10, <2>11, <2>12, <2>13, <2>14,
       <2>15, <2>16, <2>17, <2>18, <2>19, <2>20 DEF Next
<1>. QED
  BY <1>1, <1>2, PTL DEF Spec

-----------------------------------------------------------------------------
(* Steps shared by the proofs below *)

\* save() keeps every stored revision and stores the one it is given.
LEMMA SavedStored ==
    ASSUME TypeOK, NEW r \in Rev, NEW e \in Entry, store' = Saved(r, e)
    PROVE  Stored' = Stored \cup {r}
<1>1. ASSUME NEW q \in Rev, q # r PROVE store'[q] = store[q]
  BY <1>1 DEF TypeOK, Saved
<1>2. store'[r][e.sv] # None /\ e.sv \in Sv
  <2>1. e.sv \in Sv
    BY DEF Entry
  <2>. QED
    BY <2>1, SavedKeeps
<1>. QED
  BY <1>1, <1>2 DEF Stored, Versions

\* The operations that save a revision and then the metadata, each with the
\* revision, the entry and the metadata it saves.
LEMMA SaveSteps ==
    ASSUME TypeOK
    PROVE
      /\ \A v \in Value, st \in Status : Create(v, st) =>
           /\ NewEntry(v, st, None) \in Entry
           /\ 1 \in Rev
           /\ [cur |-> 1, total |-> 1, sv |-> deployed, deleted |-> FALSE,
               idx |-> v] \in Meta
      /\ \A v \in Value, st \in Status : Update(v, st) =>
           /\ meta \in Meta
           /\ NewEntry(v, st, meta.cur) \in Entry
           /\ meta.total + 1 \in Rev
           /\ [cur |-> meta.total + 1, total |-> meta.total + 1, sv |-> deployed,
               deleted |-> FALSE, idx |-> v] \in Meta
      /\ \A v \in Value, st \in Status \cup {None} : ModifyData(v, st) =>
           /\ meta \in Meta /\ Head \in Entry
           /\ NewEntry(v, IF st = None THEN Head.status ELSE st, Head.parent) \in Entry
           /\ meta.cur \in Rev
           /\ [cur |-> meta.cur, total |-> meta.total, sv |-> deployed,
               deleted |-> FALSE, idx |-> v] \in Meta
      /\ \A st \in Status : ModifyStatus(st) =>
           /\ meta \in Meta /\ Head \in Entry
           /\ [Head EXCEPT !.born = deployed, !.sv = deployed, !.status = st] \in Entry
           /\ meta.cur \in Rev
           /\ [meta EXCEPT !.sv = deployed] \in Meta
<1>1. ASSUME NEW v \in Value, NEW st \in Status, Create(v, st)
      PROVE  /\ NewEntry(v, st, None) \in Entry
             /\ 1 \in Rev
             /\ [cur |-> 1, total |-> 1, sv |-> deployed, deleted |-> FALSE,
                 idx |-> v] \in Meta
  <2>1. NewEntry(v, st, None) \in Entry
    BY NewEntryType
  <2>2. 1 \in Rev
    BY LifecycleAssumption DEF Rev
  <2>. QED
    BY <2>1, <2>2 DEF Meta, TypeOK
<1>2. ASSUME NEW v \in Value, NEW st \in Status, Update(v, st)
      PROVE  /\ meta \in Meta
             /\ NewEntry(v, st, meta.cur) \in Entry
             /\ meta.total + 1 \in Rev
             /\ [cur |-> meta.total + 1, total |-> meta.total + 1, sv |-> deployed,
                 deleted |-> FALSE, idx |-> v] \in Meta
  <2>1. meta \in Meta /\ meta.cur \in Rev /\ meta.total \in Nat
    BY <1>2 DEF Update, Alive, TypeOK, Meta
  <2>2. meta.total + 1 \in Rev
    BY <1>2, <2>1, LifecycleAssumption DEF Update, Rev
  <2>3. NewEntry(v, st, meta.cur) \in Entry
    BY <2>1, NewEntryType
  <2>. QED
    BY <2>1, <2>2, <2>3 DEF Meta, TypeOK
<1>3. ASSUME NEW v \in Value, NEW st \in Status \cup {None}, ModifyData(v, st)
      PROVE  /\ meta \in Meta /\ Head \in Entry
             /\ NewEntry(v, IF st = None THEN Head.status ELSE st, Head.parent) \in Entry
             /\ meta.cur \in Rev
             /\ [cur |-> meta.cur, total |-> meta.total, sv |-> deployed,
                 deleted |-> FALSE, idx |-> v] \in Meta
  <2>1. Head \in Entry /\ meta \in Meta /\ meta.cur \in Rev /\ meta.total \in Nat
    BY <1>3, HeadType DEF ModifyData, Modifiable, Alive, HeadStored, Meta
  <2>. DEFINE status == IF st = None THEN Head.status ELSE st
  <2>2. status \in Status /\ Head.parent \in Rev \cup {None}
    BY <2>1 DEF Entry
  <2>3. NewEntry(v, status, Head.parent) \in Entry
    <3>. HIDE DEF status
    <3>. QED
      BY <2>2, NewEntryType
  <2>. QED
    BY <2>1, <2>3 DEF Meta, TypeOK
<1>4. ASSUME NEW st \in Status, ModifyStatus(st)
      PROVE  /\ meta \in Meta /\ Head \in Entry
             /\ [Head EXCEPT !.born = deployed, !.sv = deployed, !.status = st] \in Entry
             /\ meta.cur \in Rev
             /\ [meta EXCEPT !.sv = deployed] \in Meta
  <2>1. Head \in Entry /\ meta \in Meta /\ meta.cur \in Rev
    BY <1>4, HeadType DEF ModifyStatus, Alive, HeadStored
  <2>2. [Head EXCEPT !.born = deployed, !.sv = deployed, !.status = st] \in Entry
    BY <2>1 DEF Entry, TypeOK
  <2>3. [meta EXCEPT !.sv = deployed] \in Meta
    BY <2>1 DEF Meta, TypeOK
  <2>. QED
    BY <2>1, <2>2, <2>3
<1>. QED
  BY <1>1, <1>2, <1>3, <1>4

\* The operations that save the metadata only.
LEMMA MetaSteps ==
    ASSUME TypeOK
    PROVE
      /\ \A r \in Rev : Switch(r) =>
           /\ meta \in Meta /\ meta.sv \in Sv
           /\ r \in Stored
           /\ store[r][meta.sv] \in Entry
           /\ [meta EXCEPT !.cur = r, !.idx = store[r][meta.sv].val] \in Meta
      /\ Delete => meta \in Meta /\ [meta EXCEPT !.deleted = TRUE] \in Meta
      /\ Restore => meta \in Meta /\ [meta EXCEPT !.deleted = FALSE] \in Meta
<1>1. ASSUME NEW r \in Rev, Switch(r)
      PROVE  /\ meta \in Meta /\ meta.sv \in Sv
             /\ r \in Stored
             /\ store[r][meta.sv] \in Entry
             /\ [meta EXCEPT !.cur = r, !.idx = store[r][meta.sv].val] \in Meta
  <2>1. meta \in Meta /\ meta.sv \in Sv /\ r \in Stored
    BY <1>1 DEF Switch, Alive, TypeOK, Meta, Finds, Stored
  <2>2. store[r][meta.sv] \in Entry
    BY <1>1, <2>1, FindsStored DEF Switch
  <2>3. store[r][meta.sv].val \in Value
    BY <2>2 DEF Entry
  <2>. QED
    BY <2>1, <2>2, <2>3 DEF Meta
<1>. QED
  BY <1>1 DEF Delete, Restore, Alive, TypeOK, Meta

\* What the two forms of migrate() write.
LEMMA MigrateSteps ==
    ASSUME TypeOK
    PROVE
      /\ MigrateCurrent =>
           /\ meta \in Meta /\ meta.cur \in Rev /\ meta.sv \in Sv
           /\ Head \in Entry
           /\ Migrated(Head) \in Entry
           /\ [meta EXCEPT !.sv = deployed, !.idx = Head.val] \in Meta
      /\ \A r \in Rev : MigrateRevision(r) =>
           \E s \in Sv : /\ Finds(r, s)
                         /\ store[r][s] \in Entry
                         /\ store[r][s].sv # deployed
                         /\ Migrated(store[r][s]) \in Entry
                         /\ store' = Saved(r, Migrated(store[r][s]))
<1>1. ASSUME MigrateCurrent
      PROVE  /\ meta \in Meta /\ meta.cur \in Rev /\ meta.sv \in Sv
             /\ Head \in Entry
             /\ Migrated(Head) \in Entry
             /\ [meta EXCEPT !.sv = deployed, !.idx = Head.val] \in Meta
  <2>1. Head \in Entry /\ meta \in Meta /\ meta.cur \in Rev /\ meta.sv \in Sv
    BY <1>1, HeadType DEF MigrateCurrent
  <2>2. Migrated(Head) \in Entry /\ Head.val \in Value
    BY <2>1 DEF Migrated, Entry, TypeOK
  <2>. QED
    BY <2>1, <2>2 DEF Meta, TypeOK
<1>2. ASSUME NEW r \in Rev, MigrateRevision(r)
      PROVE  \E s \in Sv : /\ Finds(r, s)
                           /\ store[r][s] \in Entry
                           /\ store[r][s].sv # deployed
                           /\ Migrated(store[r][s]) \in Entry
                           /\ store' = Saved(r, Migrated(store[r][s]))
  <2>1. PICK s \in Sv : /\ Finds(r, s)
                        /\ store[r][s].sv # deployed
                        /\ store' = Saved(r, Migrated(store[r][s]))
    BY <1>2 DEF MigrateRevision
  <2>2. store[r][s] \in Entry
    BY <2>1, FindsStored
  <2>3. Migrated(store[r][s]) \in Entry
    BY <2>2 DEF Migrated, Entry, TypeOK
  <2>. QED
    BY <2>1, <2>2, <2>3
<1>. QED
  BY <1>1, <1>2

-----------------------------------------------------------------------------
(* HEAD's payload is never lost *)

\* HeadRecoverable is not inductive: while an operation is between its two
\* writes, the revision the coming metadata names must be stored already, and
\* a purge must have removed the metadata.
RecoverInv ==
    /\ HeadRecoverable
    /\ pending # None /\ pending.write = "meta" => pending.meta.cur \in Stored
    /\ pending # None /\ pending.write = "purge" => meta = None

\* No sequence of operations, crashes between their two writes and new
\* versions of the program leaves metadata whose revision is not stored:
\* revisions are saved before the metadata that names them, migrate() saves
\* the metadata first but under a revision that is already stored, and
\* permanently_delete() removes the metadata before the revisions.
THEOREM HeadIsRecoverable == Spec => []HeadRecoverable
<1>1. Init => RecoverInv
  BY DEF Init, RecoverInv, HeadRecoverable
<1>2. TypeOK /\ TypeOK' /\ RecoverInv /\ [Next]_vars => RecoverInv'
  <2> SUFFICES ASSUME TypeOK, TypeOK', RecoverInv, [Next]_vars PROVE RecoverInv'
    OBVIOUS
  <2>1. ASSUME NEW r \in Rev, NEW e \in Entry, NEW m \in Meta, m.cur = r,
               SaveRevisionThenMeta(r, e, m)
        PROVE  RecoverInv'
    <3>1. Stored' = Stored \cup {r}
      BY <2>1, SavedStored DEF SaveRevisionThenMeta
    <3>2. meta' = meta /\ pending' = [write |-> "meta", meta |-> m]
      BY <2>1 DEF SaveRevisionThenMeta
    <3>3. m.cur \in Stored'
      BY <2>1, <3>1
    <3>. QED
      BY <3>1, <3>2, <3>3 DEF RecoverInv, HeadRecoverable
  <2>2. ASSUME NEW m \in Meta, m.cur \in Stored, Idle, SaveMeta(m)
        PROVE  RecoverInv'
    <3>1. Stored' = Stored
      BY <2>2 DEF SaveMeta, Stored, Versions
    <3>. QED
      BY <2>2, <3>1 DEF SaveMeta, RecoverInv, HeadRecoverable, Idle
  <2>3. CASE \E v \in Value, st \in Status : Create(v, st)
    BY <2>1, <2>3, SaveSteps DEF Create
  <2>4. ASSUME NEW v \in Value, NEW st \in Status, Update(v, st) PROVE RecoverInv'
    BY <2>1, <2>4, SaveSteps DEF Update
  <2>5. CASE \E v \in Value, st \in Status : Update(v, st)
    BY <2>4, <2>5
  <2>6. CASE \E v \in Value, st \in Status \cup {None} : ModifyData(v, st)
    BY <2>1, <2>6, SaveSteps DEF ModifyData, Modified
  <2>7. CASE \E st \in Status : ModifyStatus(st)
    <3>1. PICK st \in Status : ModifyStatus(st)
      BY <2>7
    <3>2. meta \in Meta /\ [meta EXCEPT !.sv = deployed].cur = meta.cur
      BY <3>1, SaveSteps DEF Meta
    <3>. QED
      BY <2>1, <3>1, <3>2, SaveSteps DEF ModifyStatus
  <2>8. CASE \E v \in Value, st \in Status : Patch(v, st)
    BY <2>4, <2>8 DEF Patch
  <2>9. CASE \E r \in Rev : Switch(r)
    <3>1. PICK r \in Rev : Switch(r)
      BY <2>9
    <3>2. meta \in Meta /\ [meta EXCEPT !.cur = r, !.idx = store[r][meta.sv].val].cur = r
      BY <3>1, MetaSteps DEF Meta
    <3>. QED
      BY <2>2, <3>1, <3>2, MetaSteps DEF Switch
  <2>10. CASE Delete
    <3>1. meta \in Meta /\ [meta EXCEPT !.deleted = TRUE].cur = meta.cur
      BY <2>10, MetaSteps DEF Meta
    <3>. QED
      BY <2>2, <2>10, <3>1, MetaSteps DEF Delete, Alive, RecoverInv, HeadRecoverable
  <2>11. CASE Restore
    <3>1. meta \in Meta /\ [meta EXCEPT !.deleted = FALSE].cur = meta.cur
      BY <2>11, MetaSteps DEF Meta
    <3>. QED
      BY <2>2, <2>11, <3>1, MetaSteps DEF Restore, RecoverInv, HeadRecoverable
  <2>12. CASE PermanentlyDelete
    BY <2>12 DEF PermanentlyDelete, RecoverInv, HeadRecoverable
  <2>13. CASE MigrateCurrent
    <3>1. meta # None /\ meta.cur \in Stored
      BY <2>13 DEF MigrateCurrent, HeadStored, RecoverInv, HeadRecoverable
    <3>2. Stored' = Stored
      BY <2>13 DEF MigrateCurrent, Stored, Versions
    <3>3. meta'.cur = meta.cur
      BY <2>13, MigrateSteps DEF MigrateCurrent, Meta
    <3>4. pending'.write = "revision"
      BY <2>13 DEF MigrateCurrent
    <3>. QED
      BY <3>1, <3>2, <3>3, <3>4 DEF RecoverInv, HeadRecoverable
  <2>14. CASE \E r \in Rev : MigrateRevision(r)
    <3>1. PICK r \in Rev : MigrateRevision(r)
      BY <2>14
    <3>2. PICK s \in Sv : Migrated(store[r][s]) \in Entry
                          /\ store' = Saved(r, Migrated(store[r][s]))
      BY <3>1, MigrateSteps
    <3>3. Stored' = Stored \cup {r}
      BY <3>2, SavedStored
    <3>4. UNCHANGED <<meta, pending>>
      BY <3>1 DEF MigrateRevision
    <3>. QED
      BY <3>3, <3>4 DEF RecoverInv, HeadRecoverable
  <2>15. CASE FinishMeta
    <3>1. Stored' = Stored
      BY <2>15 DEF FinishMeta, Stored, Versions
    <3>. QED
      BY <2>15, <3>1 DEF FinishMeta, Idle, RecoverInv, HeadRecoverable
  <2>16. CASE FinishRevision
    <3>1. Stored' = Stored \cup {pending.rev}
      BY <2>16, PendingType, SavedStored DEF FinishRevision, Idle
    <3>. QED
      BY <2>16, <3>1 DEF FinishRevision, RecoverInv, HeadRecoverable
  <2>17. CASE FinishPurge
    BY <2>17 DEF FinishPurge, Idle, RecoverInv, HeadRecoverable
  <2>18. CASE Crash
    <3>1. Stored' = Stored
      BY <2>18 DEF Crash, Stored, Versions
    <3>. QED
      BY <2>18, <3>1 DEF Crash, RecoverInv, HeadRecoverable
  <2>19. CASE Upgrade
    <3>1. Stored' = Stored
      BY <2>19 DEF Upgrade, Stored, Versions
    <3>. QED
      BY <2>19, <3>1 DEF Upgrade, RecoverInv, HeadRecoverable
  <2>20. CASE UNCHANGED vars
    <3>1. Stored' = Stored
      BY <2>20 DEF vars, Stored, Versions
    <3>. QED
      BY <2>20, <3>1 DEF vars, RecoverInv, HeadRecoverable
  <2>. QED
    BY <2>3, <2>5, <2>6, <2>7, <2>8, <2>9, <2>10, <2>11, <2>12, <2>13, <2>14,
       <2>15, <2>16, <2>17, <2>18, <2>19, <2>20 DEF Next
<1>3. RecoverInv => HeadRecoverable
  BY DEF RecoverInv
<1>. QED
  BY <1>1, <1>2, <1>3, TypeCorrect, PTL DEF Spec

-----------------------------------------------------------------------------
(* No payload is ahead of its label *)

\* An entry that migrate() may pick up: its bytes are not newer than its
\* label, and its label is not newer than the running program.
LabelBound(e) == e.fmt <= e.sv /\ e.sv <= deployed

\* FormatNotAhead is not inductive: modify(status) copies bytes under the
\* label of the running program, so no label may be ahead of the program, and
\* the entry migrate() is about to write must be bounded too.
FormatInv ==
    /\ \A r \in Rev, s \in Sv : store[r][s] # None => LabelBound(store[r][s])
    /\ pending # None /\ pending.write = "revision" => LabelBound(pending.entry)

\* A payload is never encoded under a newer schema than its label says, with
\* any number of crashes and new versions of the program: migrate() converts
\* bytes and label in one write, and every other operation writes the label of
\* the running program.  A migration step never runs twice on the same bytes.
THEOREM NeverMigratedTwice == Spec => []FormatNotAhead
<1>1. Init => FormatInv
  BY DEF Init, FormatInv
<1>2. TypeOK /\ TypeOK' /\ FormatInv /\ [Next]_vars => FormatInv'
  <2> SUFFICES ASSUME TypeOK, TypeOK', FormatInv, [Next]_vars PROVE FormatInv'
    OBVIOUS
  <2>0. deployed \in Nat
    BY LifecycleAssumption DEF TypeOK, Sv
  <2>1. ASSUME NEW r \in Rev, NEW e \in Entry, LabelBound(e), store' = Saved(r, e)
        PROVE  \A q \in Rev, s \in Sv : store'[q][s] # None => LabelBound(store'[q][s])
    BY <2>1 DEF FormatInv, Saved, TypeOK
  <2>2. ASSUME NEW r \in Rev, NEW e \in Entry, NEW m \in Meta, LabelBound(e),
               SaveRevisionThenMeta(r, e, m)
        PROVE  FormatInv'
    <3>1. pending'.write = "meta" /\ deployed' = deployed
      BY <2>2 DEF SaveRevisionThenMeta
    <3>2. store' = Saved(r, e)
      BY <2>2 DEF SaveRevisionThenMeta
    <3>. QED
      BY <2>1, <2>2, <3>1, <3>2 DEF FormatInv, LabelBound
  <2>3. ASSUME NEW v, NEW st, NEW p PROVE LabelBound(NewEntry(v, st, p))
    BY <2>0 DEF LabelBound, NewEntry
  <2>4. CASE \E v \in Value, st \in Status : Create(v, st)
    BY <2>2, <2>3, <2>4, SaveSteps DEF Create
  <2>5. ASSUME NEW v \in Value, NEW st \in Status, Update(v, st) PROVE FormatInv'
    BY <2>2, <2>3, <2>5, SaveSteps DEF Update
  <2>6. CASE \E v \in Value, st \in Status : Update(v, st)
    BY <2>5, <2>6
  <2>7. CASE \E v \in Value, st \in Status \cup {None} : ModifyData(v, st)
    BY <2>2, <2>3, <2>7, SaveSteps DEF ModifyData, Modified
  <2>8. CASE \E st \in Status : ModifyStatus(st)
    <3>1. PICK st \in Status : ModifyStatus(st)
      BY <2>8
    <3>2. meta \in Meta /\ Head \in Entry /\ Head # None
      BY <3>1, SaveSteps DEF ModifyStatus
    <3>3. LabelBound(Head)
      BY <3>2 DEF FormatInv, Head, Meta
    <3>4. LabelBound([Head EXCEPT !.born = deployed, !.sv = deployed, !.status = st])
      BY <2>0, <3>2, <3>3, LifecycleAssumption DEF LabelBound, Entry, Sv
    <3>. QED
      BY <2>2, <3>1, <3>4, SaveSteps DEF ModifyStatus
  <2>9. CASE \E v \in Value, st \in Status : Patch(v, st)
    BY <2>5, <2>9 DEF Patch
  <2>10. ASSUME NEW m \in Meta, SaveMeta(m) PROVE FormatInv'
    BY <2>10 DEF SaveMeta, FormatInv, LabelBound
  <2>11. CASE \E r \in Rev : Switch(r)
    BY <2>10, <2>11, MetaSteps DEF Switch
  <2>12. CASE Delete
    BY <2>10, <2>12, MetaSteps DEF Delete
  <2>13. CASE Restore
    BY <2>10, <2>13, MetaSteps DEF Restore
  <2>14. CASE PermanentlyDelete
    BY <2>14 DEF PermanentlyDelete, FormatInv, LabelBound
  <2>15. ASSUME NEW e \in Entry PROVE LabelBound(Migrated(e))
    BY <2>0 DEF LabelBound, Migrated, Entry
  <2>16. CASE MigrateCurrent
    <3>1. pending' = [write |-> "revision", rev |-> meta.cur, entry |-> Migrated(Head)]
      BY <2>16 DEF MigrateCurrent
    <3>2. LabelBound(Migrated(Head))
      BY <2>15, <2>16, MigrateSteps
    <3>3. UNCHANGED <<store, deployed>>
      BY <2>16 DEF MigrateCurrent
    <3>. QED
      BY <3>1, <3>2, <3>3 DEF FormatInv, LabelBound
  <2>17. CASE \E r \in Rev : MigrateRevision(r)
    <3>1. PICK r \in Rev : MigrateRevision(r)
      BY <2>17
    <3>2. PICK s \in Sv : /\ store[r][s] \in Entry
                          /\ Migrated(store[r][s]) \in Entry
                          /\ store' = Saved(r, Migrated(store[r][s]))
      BY <3>1, MigrateSteps
    <3>3. UNCHANGED <<pending, deployed>>
      BY <3>1 DEF MigrateRevision
    <3>4. \A q \in Rev, t \in Sv : store'[q][t] # None => LabelBound(store'[q][t])
      BY <2>1, <2>15, <3>2
    <3>. QED
      BY <3>3, <3>4 DEF FormatInv, LabelBound
  <2>18. CASE FinishMeta
    BY <2>18 DEF FinishMeta, FormatInv, LabelBound
  <2>19. CASE FinishRevision
    <3>1. \A q \in Rev, t \in Sv : store'[q][t] # None => LabelBound(store'[q][t])
      BY <2>1, <2>19, PendingType DEF FinishRevision, Idle, FormatInv
    <3>. QED
      BY <2>19, <3>1 DEF FinishRevision, FormatInv, LabelBound
  <2>20. CASE FinishPurge
    BY <2>20 DEF FinishPurge, Purged, FormatInv, LabelBound
  <2>21. CASE Crash
    BY <2>21 DEF Crash, FormatInv, LabelBound
  <2>22. CASE Upgrade
    <3>1. deployed' = deployed + 1 /\ UNCHANGED <<store, pending>> /\ pending = None
      BY <2>22 DEF Upgrade, Idle
    <3>2. ASSUME NEW q \in Rev, NEW t \in Sv, store[q][t] # None
          PROVE  store[q][t].fmt <= store[q][t].sv /\ store[q][t].sv <= deployed + 1
      <4>1. store[q][t] \in Entry /\ LabelBound(store[q][t])
        BY <3>2 DEF TypeOK, FormatInv
      <4>2. store[q][t].sv \in Nat
        BY <4>1, LifecycleAssumption DEF Entry, Sv
      <4>. QED
        BY <2>0, <4>1, <4>2 DEF LabelBound
    <3>. QED
      BY <3>1, <3>2 DEF FormatInv, LabelBound
  <2>23. CASE UNCHANGED vars
    BY <2>23 DEF vars, FormatInv, LabelBound
  <2>. QED
    BY <2>4, <2>6, <2>7, <2>8, <2>9, <2>11, <2>12, <2>13, <2>14, <2>16, <2>17,
       <2>18, <2>19, <2>20, <2>21, <2>22, <2>23 DEF Next
<1>3. FormatInv => FormatNotAhead
  BY DEF FormatInv, LabelBound, FormatNotAhead
<1>. QED
  BY <1>1, <1>2, <1>3, TypeCorrect, PTL DEF Spec

-----------------------------------------------------------------------------
(* HEAD, the index and the history without crashes *)

NoCrash == MaxCrashes = 0

SortedVersions == \A s, t \in Sv : s < t => LexRank[s] < LexRank[t]

FreshIds == ~Recreate /\ Backend = "memory"

Writing(w) == pending # None /\ pending.write = w

-----------------------------------------------------------------------------
(* The operations that write, by what they write *)

\* An operation that saves entry e as revision r, and will save metadata m.
Saves(r, e, m) ==
    /\ Idle
    /\ SaveRevisionThenMeta(r, e, m)
    /\ m.cur = r /\ m.sv = deployed /\ ~m.deleted
    /\ e.sv = deployed /\ e.born = deployed

\* create()
Starts(r, e, m) ==
    /\ meta = None \/ Recreate
    /\ r = 1 /\ m.total = 1
    /\ e.parent = None /\ m.idx = e.val

\* update(), patch()
Appends(r, e, m) ==
    /\ Alive /\ Head # None
    /\ r = meta.total + 1 /\ m.total = r
    /\ e.parent = meta.cur /\ m.idx = e.val

\* modify()
Edits(r, e, m) ==
    /\ Alive /\ Head # None
    /\ r = meta.cur /\ m.total = meta.total
    /\ e.parent = Head.parent
    /\ \/ m.idx = e.val /\ "draft" \in {Head.status, e.status}
       \/ m.idx = meta.idx /\ e.val = Head.val

SomeSave ==
    \E r \in Rev, e \in Entry, m \in Meta :
        /\ Saves(r, e, m)
        /\ Starts(r, e, m) \/ Appends(r, e, m) \/ Edits(r, e, m)

\* delete() and restore() change the flag of the metadata only.
SomeFlag ==
    /\ Idle /\ meta # None
    /\ \E b \in BOOLEAN : SaveMeta([meta EXCEPT !.deleted = b])

\* The steps of the system, sorted by what they write.
LEMMA Steps ==
    ASSUME TypeOK, [Next]_vars
    PROVE  \/ SomeSave
           \/ \E r \in Rev : Switch(r)
           \/ SomeFlag
           \/ PermanentlyDelete
           \/ MigrateCurrent
           \/ \E r \in Rev : MigrateRevision(r)
           \/ FinishMeta \/ FinishRevision \/ FinishPurge
           \/ Crash \/ Upgrade \/ UNCHANGED vars
<1>1. ASSUME NEW v \in Value, NEW st \in Status, Create(v, st) PROVE SomeSave
  <2>. DEFINE e == NewEntry(v, st, None)
              m == [cur |-> 1, total |-> 1, sv |-> deployed, deleted |-> FALSE, idx |-> v]
  <2>1. Saves(1, e, m) /\ Starts(1, e, m)
    BY <1>1 DEF Create, Saves, Starts, NewEntry
  <2>2. 1 \in Rev /\ e \in Entry /\ m \in Meta
    BY <1>1, SaveSteps
  <2>. QED
    BY <2>1, <2>2 DEF SomeSave
<1>2. ASSUME NEW v \in Value, NEW st \in Status, Update(v, st) PROVE SomeSave
  <2>. DEFINE r == meta.total + 1
              e == NewEntry(v, st, meta.cur)
              m == [cur |-> r, total |-> r, sv |-> deployed, deleted |-> FALSE, idx |-> v]
  <2>1. Saves(r, e, m) /\ Appends(r, e, m)
    BY <1>2 DEF Update, Saves, Appends, NewEntry
  <2>2. r \in Rev /\ e \in Entry /\ m \in Meta
    BY <1>2, SaveSteps
  <2>. QED
    BY <2>1, <2>2 DEF SomeSave
<1>3. ASSUME NEW v \in Value, NEW st \in Status \cup {None}, ModifyData(v, st)
      PROVE  SomeSave
  <2>. DEFINE r == meta.cur
              status == IF st = None THEN Head.status ELSE st
              e == NewEntry(v, status, Head.parent)
              m == [cur |-> r, total |-> meta.total, sv |-> deployed,
                    deleted |-> FALSE, idx |-> v]
  <2>1. Saves(r, e, m)
    BY <1>3 DEF ModifyData, Modifiable, Modified, Saves, NewEntry
  <2>2. Edits(r, e, m)
    BY <1>3, NoneAssumption DEF ModifyData, Modifiable, Edits, NewEntry, Status
  <2>3. r \in Rev /\ e \in Entry /\ m \in Meta
    BY <1>3, SaveSteps
  <2>. QED
    BY <2>1, <2>2, <2>3 DEF SomeSave
<1>4. ASSUME NEW st \in Status, ModifyStatus(st) PROVE SomeSave
  <2>. DEFINE r == meta.cur
              e == [Head EXCEPT !.born = deployed, !.sv = deployed, !.status = st]
              m == [meta EXCEPT !.sv = deployed]
  <2>1. r \in Rev /\ e \in Entry /\ m \in Meta /\ meta \in Meta /\ Head \in Entry
    BY <1>4, SaveSteps
  <2>2. Saves(r, e, m)
    BY <1>4, <2>1 DEF ModifyStatus, Saves, Meta, Entry, Alive
  <2>3. Edits(r, e, m)
    BY <1>4, <2>1 DEF ModifyStatus, Edits, Meta, Entry
  <2>. QED
    BY <2>1, <2>2, <2>3 DEF SomeSave
<1>5. ASSUME Delete \/ Restore PROVE SomeFlag
  BY <1>5 DEF Delete, Restore, SomeFlag, Alive
<1>6. ASSUME NEW v \in Value, NEW st \in Status, Patch(v, st) PROVE SomeSave
  BY <1>2, <1>6 DEF Patch
<1>7. CASE Next
  BY <1>1, <1>2, <1>3, <1>4, <1>5, <1>6, <1>7 DEF Next
<1>. QED
  BY <1>7

-----------------------------------------------------------------------------
(* The keys of a revision *)

\* What a key of a revision holds after a save.
LEMMA ReadSaved ==
    ASSUME TypeOK, NEW r \in Rev, NEW e \in Entry, NEW q \in Rev, NEW s \in Sv
    PROVE  Saved(r, e)[q][s] =
             IF q = r /\ (s = e.sv \/ (store[r][s] # None /\ store[r][s].born = e.born))
             THEN e ELSE store[q][s]
  BY DEF TypeOK, Saved

Newest(r, s) == store[r][s] # None /\ \A t \in Sv : store[r][t] # None => t <= s

\* A key is not newer than the label of what it holds, the label not newer than
\* the program; keys that share an object hold the same; and the newest key of
\* a revision is the one its label names.
KeysOK ==
    /\ \A r \in Rev, s \in Sv : store[r][s] # None =>
         s <= store[r][s].sv /\ store[r][s].sv <= deployed
    /\ \A r \in Rev : \A s, t \in Sv :
         store[r][s] # None /\ store[r][t] # None /\ store[r][s].born = store[r][t].born
           => store[r][s] = store[r][t]
    /\ \A r \in Rev, s \in Sv : Newest(r, s) => store[r][s].sv = s

KeyInv ==
    /\ KeysOK
    /\ Writing("revision") => pending.entry.sv = deployed

LEMMA SaveKeepsKeys ==
    ASSUME TypeOK, KeysOK, NEW r \in Rev, NEW e \in Entry, e.sv = deployed,
           store' = Saved(r, e), deployed' = deployed
    PROVE  KeysOK'
<1>0. e # None /\ deployed \in Sv /\ Sv \subseteq Nat
  BY NoneAssumption, LifecycleAssumption DEF TypeOK, Sv
<1>1. ASSUME NEW q \in Rev, NEW s \in Sv
      PROVE  store'[q][s] =
               IF q = r /\ (s = deployed \/ (store[r][s] # None /\ store[r][s].born = e.born))
               THEN e ELSE store[q][s]
  BY <1>1, ReadSaved
<1>2. ASSUME NEW q \in Rev, NEW s \in Sv, store'[q][s] # None
      PROVE  s <= store'[q][s].sv /\ store'[q][s].sv <= deployed
  <2>1. CASE store[q][s] # None
    <3>1. s <= store[q][s].sv /\ store[q][s].sv <= deployed
      BY <2>1 DEF KeysOK
    <3>2. store[q][s].sv \in Nat /\ s \in Nat /\ deployed \in Nat
      BY <1>0, <2>1 DEF TypeOK, Entry
    <3>3. s <= deployed
      BY <3>1, <3>2
    <3>4. store'[q][s] \in {e, store[q][s]}
      BY <1>1
    <3>. QED
      BY <1>0, <3>1, <3>2, <3>3, <3>4
  <2>2. CASE store[q][s] = None
    BY <1>0, <1>1, <1>2, <2>2
  <2>. QED
    BY <2>1, <2>2
<1>3. ASSUME NEW q \in Rev, NEW s \in Sv, NEW t \in Sv, store'[q][s] # None,
             store'[q][t] # None, store'[q][s].born = store'[q][t].born
      PROVE  store'[q][s] = store'[q][t]
  <2>1. CASE q = r
    <3>. DEFINE Hit(x) == x = deployed \/ (store[r][x] # None /\ store[r][x].born = e.born)
    <3>1. store'[q][s] = (IF Hit(s) THEN e ELSE store[r][s])
      BY <1>1, <2>1
    <3>2. store'[q][t] = (IF Hit(t) THEN e ELSE store[r][t])
      BY <1>1, <2>1
    <3>3. CASE Hit(s) /\ Hit(t)
      BY <3>1, <3>2, <3>3
    <3>4. CASE Hit(s) /\ ~Hit(t)
      BY <1>3, <3>1, <3>2, <3>4
    <3>5. CASE ~Hit(s) /\ Hit(t)
      BY <1>3, <3>1, <3>2, <3>5
    <3>6. CASE ~Hit(s) /\ ~Hit(t)
      BY <1>3, <3>1, <3>2, <3>6 DEF KeysOK
    <3>. QED
      BY <3>3, <3>4, <3>5, <3>6
  <2>2. CASE q # r
    <3>1. store'[q][s] = store[q][s] /\ store'[q][t] = store[q][t]
      BY <1>1, <2>2
    <3>. QED
      BY <1>3, <3>1 DEF KeysOK
  <2>. QED
    BY <2>1, <2>2
<1>4. ASSUME NEW q \in Rev, NEW s \in Sv, Newest(q, s)' PROVE store'[q][s].sv = s
  <2>1. CASE q = r
    <3>1. store'[r][deployed] = e
      BY <1>0, <1>1
    <3>2. deployed <= s
      BY <1>0, <1>4, <2>1, <3>1 DEF Newest
    <3>3. s <= deployed
      <4>1. store'[q][s] # None /\ store'[q][s].sv \in Sv
        <5>1. store'[q][s] # None
          BY <1>4 DEF Newest
        <5>2. store[q][s] \in Entry \cup {None}
          BY DEF TypeOK
        <5>3. store'[q][s] = e \/ store'[q][s] = store[q][s]
          BY <1>1
        <5>4. store'[q][s] \in Entry
          BY <5>1, <5>2, <5>3
        <5>. QED
          BY <5>1, <5>4 DEF Entry
      <4>2. store'[q][s].sv \in Nat /\ s \in Nat /\ deployed \in Nat
        BY <1>0, <4>1
      <4>3. s <= store'[q][s].sv /\ store'[q][s].sv <= deployed
        BY <1>2, <4>1
      <4>. QED
        BY <4>2, <4>3
    <3>. QED
      BY <1>0, <2>1, <3>1, <3>2, <3>3
  <2>2. CASE q # r
    <3>1. \A t \in Sv : store'[q][t] = store[q][t]
      BY <1>1, <2>2
    <3>2. Newest(q, s)
      BY <1>4, <3>1 DEF Newest
    <3>. QED
      BY <3>1, <3>2 DEF KeysOK
  <2>. QED
    BY <2>1, <2>2
<1>. QED
  BY <1>2, <1>3, <1>4 DEF KeysOK

\* KeyInv holds with any crashes and any order of the version strings.
LEMMA KeysHold == Spec => []KeyInv
<1>1. Init => KeyInv
  BY DEF Init, KeyInv, KeysOK, Newest, Writing
<1>2. TypeOK /\ KeyInv /\ [Next]_vars => KeyInv'
  <2> SUFFICES ASSUME TypeOK, KeyInv, [Next]_vars PROVE KeyInv'
    OBVIOUS
  <2>1. CASE SomeSave
    <3>1. PICK r \in Rev, e \in Entry, m \in Meta : Saves(r, e, m)
      BY <2>1 DEF SomeSave
    <3>2. store' = Saved(r, e) /\ e.sv = deployed /\ deployed' = deployed
          /\ pending'.write = "meta"
      BY <3>1 DEF Saves, SaveRevisionThenMeta
    <3>. QED
      BY <3>2, SaveKeepsKeys DEF KeyInv, Writing
  <2>2. ASSUME UNCHANGED <<store, deployed>>, pending' \in {pending, None}
                 \/ pending'.write # "revision"
        PROVE  KeyInv'
    BY <2>2 DEF KeyInv, KeysOK, Newest, Writing
  <2>3. CASE \E r \in Rev : Switch(r)
    BY <2>2, <2>3 DEF Switch, SaveMeta
  <2>4. CASE SomeFlag
    BY <2>2, <2>4 DEF SomeFlag, SaveMeta
  <2>5. CASE PermanentlyDelete
    BY <2>2, <2>5 DEF PermanentlyDelete
  <2>6. CASE MigrateCurrent
    <3>1. pending'.entry = Migrated(Head) /\ Migrated(Head).sv = deployed
      BY <2>6, MigrateSteps DEF MigrateCurrent, Migrated, Entry
    <3>. QED
      BY <2>6, <3>1 DEF MigrateCurrent, KeyInv, KeysOK, Newest, Writing
  <2>7. CASE \E r \in Rev : MigrateRevision(r)
    <3>1. PICK r \in Rev, s \in Sv : /\ store[r][s] \in Entry
                                    /\ Migrated(store[r][s]) \in Entry
                                    /\ store' = Saved(r, Migrated(store[r][s]))
      BY <2>7, MigrateSteps
    <3>2. Migrated(store[r][s]).sv = deployed
      BY <3>1 DEF Migrated, Entry
    <3>3. deployed' = deployed /\ pending' = pending /\ Idle
      BY <2>7 DEF MigrateRevision
    <3>4. KeysOK'
      BY <3>1, <3>2, <3>3, SaveKeepsKeys DEF KeyInv
    <3>. QED
      BY <3>3, <3>4 DEF KeyInv, Writing, Idle
  <2>8. CASE FinishMeta
    BY <2>2, <2>8 DEF FinishMeta
  <2>9. CASE FinishRevision
    <3>1. KeysOK'
      BY <2>9, PendingType, SaveKeepsKeys DEF FinishRevision, Idle, KeyInv, Writing
    <3>. QED
      BY <2>9, <3>1 DEF FinishRevision, KeyInv, Writing
  <2>10. CASE FinishPurge
    BY <2>10 DEF FinishPurge, Purged, KeyInv, KeysOK, Newest, Writing
  <2>11. CASE Crash
    BY <2>2, <2>11 DEF Crash
  <2>12. CASE Upgrade
    <3>1. deployed' = deployed + 1 /\ UNCHANGED <<store, pending>> /\ pending = None
          /\ deployed \in Nat
      BY <2>12, LifecycleAssumption DEF Upgrade, Idle, TypeOK, Sv
    <3>2. ASSUME NEW q \in Rev, NEW t \in Sv, store[q][t] # None
          PROVE  t <= store[q][t].sv /\ store[q][t].sv <= deployed + 1
      <4>1. store[q][t].sv \in Nat
        BY <3>2, LifecycleAssumption DEF TypeOK, Entry, Sv
      <4>. QED
        BY <3>1, <3>2, <4>1 DEF KeyInv, KeysOK
    <3>. QED
      BY <3>1, <3>2 DEF KeyInv, KeysOK, Newest, Writing
  <2>13. CASE UNCHANGED vars
    BY <2>2, <2>13 DEF vars
  <2>. QED
    BY <2>1, <2>3, <2>4, <2>5, <2>6, <2>7, <2>8, <2>9, <2>10, <2>11, <2>12, <2>13, Steps
<1>. QED
  BY <1>1, <1>2, TypeCorrect, PTL DEF Spec

-----------------------------------------------------------------------------
(* HEAD can be read *)

\* HeadResolves is not inductive: the metadata of a pending write must find
\* its revision too, and the revision that migrate() still has to write is the
\* one that the metadata it wrote names.
ResolveInv ==
    /\ HeadResolves
    /\ Writing("meta") => store[pending.meta.cur][pending.meta.sv] # None
    /\ Writing("revision") =>
         meta # None /\ pending.rev = meta.cur /\ pending.entry.sv = meta.sv
    /\ Writing("purge") => meta = None

LEMMA SaveKeepsHead ==
    ASSUME TypeOK, NEW r \in Rev, NEW e \in Entry, store' = Saved(r, e)
    PROVE  /\ \A q \in Rev, s \in Sv : store[q][s] # None => store'[q][s] # None
           /\ store'[r][e.sv] # None
  BY SavedKeeps DEF Entry

LEMMA ResolveHolds == ASSUME NoCrash PROVE Spec => []ResolveInv
<1>1. Init => ResolveInv
  BY DEF Init, ResolveInv, HeadResolves, Writing
<1>2. TypeOK /\ TypeOK' /\ ResolveInv /\ [Next]_vars => ResolveInv'
  <2> SUFFICES ASSUME TypeOK, TypeOK', ResolveInv, [Next]_vars PROVE ResolveInv'
    OBVIOUS
  <2>0. meta # None => meta \in Meta /\ meta.cur \in Rev /\ meta.sv \in Sv
    BY DEF TypeOK, Meta
  <2>1. CASE SomeSave
    <3>1. PICK r \in Rev, e \in Entry, m \in Meta : Saves(r, e, m)
      BY <2>1 DEF SomeSave
    <3>2. /\ store' = Saved(r, e) /\ e.sv = m.sv /\ m.cur = r /\ pending = None
          /\ meta' = meta /\ pending' = [write |-> "meta", meta |-> m]
      BY <3>1 DEF Saves, SaveRevisionThenMeta, Idle
    <3>3. store'[m.cur][m.sv] # None
      BY <3>2, SaveKeepsHead
    <3>4. meta # None => Head' # None
      BY <2>0, <3>2, SaveKeepsHead DEF ResolveInv, HeadResolves, Head, Idle
    <3>. QED
      BY <3>2, <3>3, <3>4 DEF ResolveInv, HeadResolves, Writing
  <2>2. CASE \E r \in Rev : Switch(r)
    <3>1. PICK r \in Rev : Switch(r)
      BY <2>2
    <3>2. /\ meta'.cur = r /\ meta'.sv = meta.sv /\ store' = store /\ pending' = None
          /\ store[r][meta.sv] # None
      BY <2>0, <3>1 DEF Switch, SaveMeta, Idle, Alive, Meta, Finds, Versions
    <3>. QED
      BY <3>2 DEF ResolveInv, HeadResolves, Head, Writing
  <2>3. CASE SomeFlag
    <3>1. /\ meta'.cur = meta.cur /\ meta'.sv = meta.sv /\ store' = store
          /\ pending' = None /\ pending = None /\ meta # None
      BY <2>0, <2>3 DEF SomeFlag, SaveMeta, Idle, Meta
    <3>. QED
      BY <3>1 DEF ResolveInv, HeadResolves, Head, Writing, Idle
  <2>4. CASE PermanentlyDelete
    BY <2>4 DEF PermanentlyDelete, ResolveInv, HeadResolves, Writing
  <2>5. CASE MigrateCurrent
    <3>1. /\ pending' = [write |-> "revision", rev |-> meta.cur, entry |-> Migrated(Head)]
          /\ meta' = [meta EXCEPT !.sv = deployed, !.idx = Head.val] /\ meta # None
      BY <2>5 DEF MigrateCurrent, HeadStored
    <3>2. Head \in Entry /\ meta \in Meta /\ meta' \in Meta
      BY <2>5, <3>1, MigrateSteps
    <3>3. meta'.cur = meta.cur /\ meta'.sv = deployed /\ meta' # None
      BY <3>1, <3>2, NoneAssumption DEF Meta
    <3>4. Migrated(Head).sv = deployed
      BY <3>2 DEF Migrated, Entry
    <3>5. pending' # None
      <4>1. pending' \in Pending
        BY <2>5, <3>1, MigrateSteps DEF Pending
      <4>. QED
        BY <4>1, NoneAssumption
    <3>6. pending'.write = "revision" /\ pending'.rev = meta.cur
          /\ pending'.entry.sv = deployed
      BY <3>1, <3>4
    <3>. QED
      BY <3>3, <3>5, <3>6 DEF ResolveInv, HeadResolves, Writing, Idle
  <2>6. CASE \E r \in Rev : MigrateRevision(r)
    <3>1. PICK r \in Rev, s \in Sv : /\ Migrated(store[r][s]) \in Entry
                                     /\ store' = Saved(r, Migrated(store[r][s]))
      BY <2>6, MigrateSteps
    <3>2. meta' = meta /\ pending' = pending /\ pending = None
      BY <2>6 DEF MigrateRevision, Idle
    <3>3. meta # None => Head' # None
      BY <2>0, <3>1, <3>2, SaveKeepsHead DEF ResolveInv, HeadResolves, Head, Idle
    <3>. QED
      BY <3>2, <3>3 DEF ResolveInv, HeadResolves, Writing
  <2>7. CASE FinishMeta
    BY <2>7 DEF FinishMeta, ResolveInv, HeadResolves, Head, Writing, Idle
  <2>8. CASE FinishRevision
    <3>1. /\ store' = Saved(pending.rev, pending.entry) /\ meta' = meta /\ pending' = None
          /\ pending.rev \in Rev /\ pending.entry \in Entry
          /\ pending.rev = meta.cur /\ pending.entry.sv = meta.sv
      BY <2>8, PendingType DEF FinishRevision, Idle, ResolveInv, Writing
    <3>2. Head' # None
      BY <3>1, SaveKeepsHead DEF Head
    <3>. QED
      BY <3>1, <3>2 DEF ResolveInv, HeadResolves, Writing
  <2>9. CASE FinishPurge
    BY <2>9 DEF FinishPurge, ResolveInv, HeadResolves, Writing, Idle
  <2>10. CASE Crash
    BY <2>10 DEF Crash, NoCrash, TypeOK
  <2>11. CASE Upgrade
    BY <2>11 DEF Upgrade, ResolveInv, HeadResolves, Head, Writing, Idle
  <2>12. CASE UNCHANGED vars
    BY <2>12 DEF vars, ResolveInv, HeadResolves, Head, Writing, Idle
  <2>. QED
    BY <2>1, <2>2, <2>3, <2>4, <2>5, <2>6, <2>7, <2>8, <2>9, <2>10, <2>11, <2>12, Steps
<1>. QED
  BY <1>1, <1>2, TypeCorrect, PTL DEF Spec

\* As long as no process dies between two writes, get() finds HEAD under the
\* schema version of the metadata, except in the middle of migrate(): switch()
\* takes only revisions that are stored at that version, and every other
\* operation stores HEAD at the version it puts into the metadata.
THEOREM HeadIsReadable == ASSUME NoCrash PROVE Spec => []HeadResolves
<1>1. ResolveInv => HeadResolves
  BY DEF ResolveInv
<1>. QED
  BY <1>1, ResolveHolds, PTL

-----------------------------------------------------------------------------
(* The index *)

\* A revision stored under the label of the program has no newer key.
DeployedNewest ==
    \A r \in Rev : store[r][deployed] # None =>
        Newest(r, deployed) /\ store[r][deployed].sv = deployed

LEMMA DeployedIsNewest == TypeOK /\ KeyInv => DeployedNewest
<1>. SUFFICES ASSUME TypeOK, KeysOK, NEW r \in Rev, store[r][deployed] # None
              PROVE  Newest(r, deployed) /\ store[r][deployed].sv = deployed
  BY DEF DeployedNewest, KeyInv
<1>0. deployed \in Sv /\ deployed \in Nat
  BY LifecycleAssumption DEF TypeOK, Sv
<1>1. ASSUME NEW t \in Sv, store[r][t] # None PROVE t <= deployed
  <2>1. t <= store[r][t].sv /\ store[r][t].sv <= deployed
    BY <1>1 DEF KeysOK
  <2>2. t \in Nat /\ store[r][t].sv \in Nat
    BY <1>1, LifecycleAssumption DEF TypeOK, Entry, Sv
  <2>. QED
    BY <1>0, <2>1, <2>2
<1>2. Newest(r, deployed)
  BY <1>1 DEF Newest
<1>. QED
  BY <1>0, <1>2 DEF KeysOK

\* Where versions sort as they are deployed, the version that is found is the
\* newest.
LEMMA FindsNewest ==
    ASSUME TypeOK, SortedVersions, NEW r \in Rev, NEW s \in Sv, Finds(r, s)
    PROVE  Newest(r, s)
<1>1. store[r][s] # None
  BY DEF Finds, Versions
<1>2. ASSUME NEW t \in Sv, store[r][t] # None PROVE t <= s
  <2>1. LexRank[t] <= LexRank[s]
    BY <1>2 DEF Finds, Versions
  <2>2. t \in Nat /\ s \in Nat /\ LexRank[t] \in Nat /\ LexRank[s] \in Nat
    BY LifecycleAssumption DEF Sv
  <2>3. ~(s < t)
    BY <2>1, <2>2 DEF SortedVersions
  <2>. QED
    BY <2>2, <2>3
<1>. QED
  BY <1>1, <1>2 DEF Newest

\* migrate(id, revision_id) then rewrites the newest form of the revision, under
\* each key that shares it, and a key that was free.
LEMMA MigratesNewest ==
    ASSUME TypeOK, KeysOK, SortedVersions, NEW r \in Rev, MigrateRevision(r)
    PROVE  \E s \in Sv :
             /\ Newest(r, s) /\ store[r][s] \in Entry /\ s < deployed
             /\ store[r][deployed] = None
             /\ Migrated(store[r][s]) \in Entry
             /\ \A q \in Rev, t \in Sv :
                  store'[q][t] =
                    IF q = r /\ (t = deployed \/ store[q][t] = store[r][s])
                    THEN Migrated(store[r][s]) ELSE store[q][t]
<1>1. PICK s \in Sv : /\ Finds(r, s)
                      /\ store[r][s] \in Entry
                      /\ store[r][s].sv # deployed
                      /\ Migrated(store[r][s]) \in Entry
                      /\ store' = Saved(r, Migrated(store[r][s]))
  BY MigrateSteps
<1>. DEFINE e == store[r][s]
<1>2. Newest(r, s) /\ e.sv = s /\ e # None
  BY <1>1, FindsNewest DEF KeysOK, Newest
<1>3. s < deployed
  <2>1. s <= deployed
    BY <1>2 DEF KeysOK
  <2>2. s \in Nat /\ deployed \in Nat
    BY LifecycleAssumption DEF TypeOK, Sv
  <2>. QED
    BY <1>1, <1>2, <2>1, <2>2
<1>4. store[r][deployed] = None
  <2>1. s \in Nat /\ deployed \in Nat /\ deployed \in Sv
    BY LifecycleAssumption DEF TypeOK, Sv
  <2>. QED
    BY <1>2, <1>3, <2>1 DEF Newest
<1>5. ASSUME NEW q \in Rev, NEW t \in Sv
      PROVE  store'[q][t] = IF q = r /\ (t = deployed \/ store[q][t] = e)
                            THEN Migrated(e) ELSE store[q][t]
  <2>1. Migrated(e).born = e.born /\ Migrated(e).sv = deployed
    BY <1>1 DEF Migrated, Entry
  <2>2. store'[q][t] =
          IF q = r /\ (t = deployed \/ (store[r][t] # None /\ store[r][t].born = e.born))
          THEN Migrated(e) ELSE store[q][t]
    BY <1>1, <2>1, ReadSaved
  <2>3. (store[r][t] # None /\ store[r][t].born = e.born) <=> store[r][t] = e
    BY <1>2 DEF KeysOK
  <2>. QED
    BY <2>2, <2>3
<1>. QED
  BY <1>1, <1>2, <1>3, <1>4, <1>5

\* IndexMatchesHead is not inductive: migrate() by id changes HEAD through
\* another key if HEAD's key is not the newest of its revision, so the newest
\* key must hold what HEAD's key holds; and a pending write must agree with
\* the write that was made.
HeadIsNewest ==
    /\ Newest(meta.cur, Head.sv)
    /\ store[meta.cur][Head.sv] = Head

IndexInv ==
    /\ (Idle /\ meta # None) => meta.idx = Head.val /\ HeadIsNewest
    /\ Writing("meta") =>
         /\ pending.meta.sv = deployed
         /\ pending.meta.idx = store[pending.meta.cur][deployed].val
    /\ Writing("revision") => pending.entry.val = meta.idx

LEMMA IndexHolds == ASSUME NoCrash, SortedVersions PROVE Spec => []IndexInv
<1>1. Init => IndexInv
  BY DEF Init, IndexInv, Writing
<1>2. TypeOK /\ KeyInv /\ DeployedNewest' /\ ResolveInv /\ IndexInv /\ [Next]_vars
      => IndexInv'
  <2> SUFFICES ASSUME TypeOK, KeyInv, DeployedNewest', ResolveInv, IndexInv, [Next]_vars
               PROVE  IndexInv'
    OBVIOUS
  <2>0. /\ meta # None => meta \in Meta /\ meta.cur \in Rev /\ meta.sv \in Sv
        /\ deployed \in Sv
    BY DEF TypeOK, Meta
  <2>00. Idle /\ meta # None => Head \in Entry /\ Head # None /\ Head.sv \in Sv
    BY <2>0 DEF TypeOK, ResolveInv, HeadResolves, Head, Entry
  <2>1. CASE SomeSave
    <3>1. PICK r \in Rev, e \in Entry, m \in Meta :
             /\ Saves(r, e, m)
             /\ Starts(r, e, m) \/ Appends(r, e, m) \/ Edits(r, e, m)
      BY <2>1 DEF SomeSave
    <3>2. /\ store' = Saved(r, e) /\ e.sv = deployed /\ m.cur = r /\ m.sv = deployed
          /\ pending' = [write |-> "meta", meta |-> m] /\ deployed' = deployed /\ Idle
      BY <3>1 DEF Saves, SaveRevisionThenMeta
    <3>3. store'[r][deployed] = e
      BY <2>0, <3>2, ReadSaved
    <3>4. m.idx = e.val
      BY <3>1, <3>2 DEF Starts, Appends, Edits, Alive, IndexInv
    <3>5. pending' # None
      <4>1. pending' \in Pending
        BY <3>2 DEF Pending
      <4>. QED
        BY <4>1, NoneAssumption
    <3>. QED
      BY <3>2, <3>3, <3>4, <3>5 DEF IndexInv, Writing, Idle
  <2>2. CASE \E r \in Rev : Switch(r)
    <3>1. PICK r \in Rev : Switch(r)
      BY <2>2
    <3>2. /\ meta'.cur = r /\ meta'.sv = meta.sv /\ store' = store /\ pending' = None
          /\ meta'.idx = store[r][meta.sv].val /\ Finds(r, meta.sv) /\ meta # None
      BY <2>0, <3>1 DEF Switch, SaveMeta, Idle, Alive, Meta
    <3>3. Newest(r, meta.sv) /\ store[r][meta.sv].sv = meta.sv
      BY <2>0, <3>2, FindsNewest DEF KeyInv, KeysOK
    <3>4. Head' = store[r][meta.sv]
      BY <3>2 DEF Head
    <3>5. HeadIsNewest'
      BY <3>2, <3>3, <3>4 DEF HeadIsNewest, Newest
    <3>. QED
      BY <3>2, <3>4, <3>5 DEF IndexInv, Writing
  <2>3. CASE SomeFlag
    <3>1. /\ meta'.cur = meta.cur /\ meta'.sv = meta.sv /\ meta'.idx = meta.idx
          /\ store' = store /\ pending' = None /\ Idle /\ meta # None
      BY <2>0, <2>3 DEF SomeFlag, SaveMeta, Idle, Meta
    <3>2. Head' = Head
      BY <3>1 DEF Head
    <3>. QED
      BY <3>1, <3>2 DEF IndexInv, HeadIsNewest, Newest, Writing
  <2>4. CASE PermanentlyDelete
    BY <2>4 DEF PermanentlyDelete, IndexInv, Writing, Idle
  <2>5. CASE MigrateCurrent
    <3>1. /\ pending' = [write |-> "revision", rev |-> meta.cur, entry |-> Migrated(Head)]
          /\ meta' = [meta EXCEPT !.sv = deployed, !.idx = Head.val]
      BY <2>5 DEF MigrateCurrent
    <3>2. Head \in Entry /\ meta \in Meta /\ Migrated(Head) \in Entry /\ meta.cur \in Rev
      BY <2>5, MigrateSteps
    <3>3. meta'.idx = Head.val /\ Migrated(Head).val = Head.val
      BY <3>1, <3>2 DEF Meta, Migrated, Entry
    <3>4. pending' # None
      <4>1. pending' \in Pending
        BY <3>1, <3>2 DEF Pending
      <4>. QED
        BY <4>1, NoneAssumption
    <3>5. pending'.write = "revision" /\ pending'.entry.val = Head.val
      BY <3>1, <3>3
    <3>. QED
      BY <3>3, <3>4, <3>5 DEF IndexInv, Writing, Idle
  <2>6. CASE \E r \in Rev : MigrateRevision(r)
    <3>1. PICK r \in Rev : MigrateRevision(r)
      BY <2>6
    <3>2. PICK s \in Sv :
             /\ Newest(r, s) /\ store[r][s] \in Entry /\ s < deployed
             /\ Migrated(store[r][s]) \in Entry
             /\ \A q \in Rev, t \in Sv :
                  store'[q][t] =
                    IF q = r /\ (t = deployed \/ store[q][t] = store[r][s])
                    THEN Migrated(store[r][s]) ELSE store[q][t]
      BY <3>1, MigratesNewest DEF KeyInv
    <3>3. meta' = meta /\ pending' = pending /\ deployed' = deployed /\ Idle /\ meta # None
      BY <3>1 DEF MigrateRevision, Idle
    <3>4. meta.idx = Head.val /\ HeadIsNewest
      BY <3>3 DEF IndexInv
    <3>5. CASE meta.cur = r
      <4>1. s = Head.sv /\ store[r][s] = Head
        <5>1. Newest(r, Head.sv) /\ store[r][Head.sv] = Head
          BY <3>4, <3>5 DEF HeadIsNewest
        <5>2. s <= Head.sv /\ Head.sv <= s
          BY <2>00, <3>2, <3>3, <5>1 DEF Newest
        <5>3. s \in Nat /\ Head.sv \in Nat
          BY <2>00, <3>3, LifecycleAssumption DEF Sv
        <5>. QED
          BY <5>1, <5>2, <5>3
      <4>2. Head' = Migrated(Head) /\ store'[r][deployed] = Migrated(Head)
        <5>1. store[r][meta.sv] = Head
          BY <3>5 DEF Head
        <5>2. store'[r][meta.sv] = Migrated(Head)
          BY <2>0, <3>2, <3>3, <4>1, <5>1
        <5>. QED
          BY <2>0, <3>2, <3>3, <3>5, <4>1, <5>2 DEF Head
      <4>3. Migrated(Head).val = Head.val /\ Migrated(Head).sv = deployed
        BY <2>00, <3>3 DEF Migrated, Entry
      <4>4. store'[r][deployed'] # None
        BY <3>2, <3>3, <4>1, <4>2, NoneAssumption
      <4>5. Newest(r, deployed)'
        BY <4>4 DEF DeployedNewest
      <4>. QED
        BY <3>3, <3>4, <3>5, <4>2, <4>3, <4>5 DEF IndexInv, HeadIsNewest, Writing, Idle
    <3>6. CASE meta.cur # r
      <4>1. \A t \in Sv : store'[meta.cur][t] = store[meta.cur][t]
        BY <2>0, <3>2, <3>3, <3>6
      <4>2. Head' = Head
        BY <2>0, <3>3, <4>1 DEF Head
      <4>3. HeadIsNewest'
        BY <2>00, <3>3, <3>4, <4>1, <4>2 DEF HeadIsNewest, Newest
      <4>. QED
        BY <3>3, <3>4, <4>2, <4>3 DEF IndexInv, Writing, Idle
    <3>. QED
      BY <3>5, <3>6
  <2>7. CASE FinishMeta
    <3>1. /\ Writing("meta") /\ meta' = pending.meta /\ store' = store /\ pending' = None
          /\ deployed' = deployed
      BY <2>7 DEF FinishMeta, Writing, Idle
    <3>2. pending.meta \in Meta /\ pending.meta.cur \in Rev
      BY <3>1, PendingType DEF Writing, Meta
    <3>3. /\ meta'.cur = pending.meta.cur /\ meta'.sv = deployed
          /\ meta'.idx = store[pending.meta.cur][deployed].val
          /\ store[pending.meta.cur][deployed] # None
      BY <3>1 DEF IndexInv, ResolveInv
    <3>4. Head' = store[pending.meta.cur][deployed]
      BY <3>1, <3>3 DEF Head
    <3>5. Newest(pending.meta.cur, deployed) /\ store[pending.meta.cur][deployed].sv = deployed
      BY <3>2, <3>3, DeployedIsNewest DEF DeployedNewest
    <3>6. HeadIsNewest'
      BY <3>1, <3>3, <3>4, <3>5 DEF HeadIsNewest, Newest
    <3>. QED
      BY <3>1, <3>3, <3>4, <3>6 DEF IndexInv, Writing
  <2>8. CASE FinishRevision
    <3>1. /\ Writing("revision") /\ store' = Saved(pending.rev, pending.entry)
          /\ meta' = meta /\ pending' = None /\ deployed' = deployed
      BY <2>8 DEF FinishRevision, Writing, Idle
    <3>2. /\ pending.rev \in Rev /\ pending.entry \in Entry
          /\ pending.rev = meta.cur /\ pending.entry.sv = meta.sv
          /\ pending.entry.sv = deployed /\ pending.entry.val = meta.idx
      BY <3>1, PendingType DEF Writing, ResolveInv, KeyInv, IndexInv
    <3>3. Head' = pending.entry /\ store'[meta.cur][deployed] = pending.entry
      BY <2>0, <3>1, <3>2, ReadSaved DEF Head
    <3>4. store'[meta.cur][deployed'] # None
      BY <3>1, <3>2, <3>3, NoneAssumption
    <3>5. Newest(meta.cur, deployed)'
      <4>1. meta.cur \in Rev
        BY <3>2
      <4>2. \A r \in Rev : store'[r][deployed'] # None => Newest(r, deployed)'
        BY DEF DeployedNewest
      <4>. QED
        BY <3>1, <3>4, <4>1, <4>2 DEF Newest
    <3>6. HeadIsNewest'
      BY <3>1, <3>2, <3>3, <3>5 DEF HeadIsNewest, Newest
    <3>. QED
      BY <3>1, <3>2, <3>3, <3>6 DEF IndexInv, Writing
  <2>9. CASE FinishPurge
    BY <2>9 DEF FinishPurge, ResolveInv, IndexInv, Writing, Idle
  <2>10. CASE Crash
    BY <2>10 DEF Crash, NoCrash, TypeOK
  <2>11. CASE Upgrade
    <3>1. UNCHANGED <<meta, store, pending>> /\ Idle
      BY <2>11 DEF Upgrade
    <3>. QED
      BY <3>1 DEF IndexInv, HeadIsNewest, Newest, Head, Writing, Idle
  <2>12. CASE UNCHANGED vars
    BY <2>12 DEF vars, IndexInv, HeadIsNewest, Newest, Head, Writing, Idle
  <2>. QED
    BY <2>1, <2>2, <2>3, <2>4, <2>5, <2>6, <2>7, <2>8, <2>9, <2>10, <2>11, <2>12, Steps
<1>. QED
  BY <1>1, <1>2, TypeCorrect, KeysHold, DeployedIsNewest, ResolveHolds, PTL DEF Spec

\* Searches and reads agree: once an operation is done, indexed_data is what
\* HEAD holds, if no process died and the version strings sort as deployed.
\* With "v10" < "v9" migrate() of a revision by its id reads the old form of an
\* edited HEAD and writes it over the edit, and leaves the index alone.
THEOREM IndexIsHead == ASSUME NoCrash, SortedVersions PROVE Spec => []IndexMatchesHead
<1>1. IndexInv => IndexMatchesHead
  BY DEF IndexInv, IndexMatchesHead, HeadStored
<1>. QED
  BY <1>1, IndexHolds, PTL

-----------------------------------------------------------------------------
(* The history *)

\* No revision is stored whose number is above n.
Upto(n) == \A r \in Rev, s \in Sv : store[r][s] # None => r <= n

\* LineageGrows is not inductive: update() makes HEAD the parent of the
\* revision after the last one, so HEAD must be counted, and with it every
\* stored revision, which switch() may make HEAD.
LineageInv ==
    /\ LineageGrows
    /\ meta # None => meta.cur <= meta.total
    /\ Writing("meta") =>
         /\ pending.meta.cur <= pending.meta.total
         /\ Upto(pending.meta.total)
    /\ Writing("revision") =>
         \/ pending.entry.parent = None
         \/ pending.entry.parent < pending.rev
    /\ (~Writing("meta") /\ meta # None) => Upto(meta.total)
    /\ (Idle /\ meta = None) => Upto(0)

\* A save of an entry whose parent is older keeps the lineage.
LEMMA SaveKeepsLineage ==
    ASSUME TypeOK, LineageGrows, NEW r \in Rev, NEW e \in Entry, store' = Saved(r, e),
           e.parent = None \/ e.parent < r
    PROVE  LineageGrows'
<1>1. ASSUME NEW q \in Rev, NEW s \in Sv, store'[q][s] # None, store'[q][s].parent # None
      PROVE  store'[q][s].parent < q
  <2>1. store'[q][s] = store[q][s] \/ (q = r /\ store'[q][s] = e)
    BY ReadSaved
  <2>. QED
    BY <1>1, <2>1 DEF LineageGrows
<1>. QED
  BY <1>1 DEF LineageGrows

LEMMA SaveKeepsUpto ==
    ASSUME TypeOK, NEW n \in Nat, NEW k \in Nat, Upto(n), n <= k,
           NEW r \in Rev, r <= k, NEW e \in Entry, store' = Saved(r, e)
    PROVE  Upto(k)'
<1>1. ASSUME NEW q \in Rev, NEW s \in Sv, store'[q][s] # None PROVE q <= k
  <2>1. q = r \/ store[q][s] # None
    BY <1>1, ReadSaved
  <2>2. q \in Nat
    BY LifecycleAssumption DEF Rev
  <2>. QED
    BY <2>1, <2>2 DEF Upto
<1>. QED
  BY <1>1 DEF Upto

LEMMA LineageHolds == ASSUME NoCrash, FreshIds PROVE Spec => []LineageInv
<1>1. Init => LineageInv
  BY DEF Init, LineageInv, LineageGrows, Upto, Writing
<1>2. TypeOK /\ ResolveInv /\ LineageInv /\ [Next]_vars => LineageInv'
  <2> SUFFICES ASSUME TypeOK, ResolveInv, LineageInv, [Next]_vars PROVE LineageInv'
    OBVIOUS
  <2>0. /\ meta # None => /\ meta \in Meta /\ meta.cur \in Rev /\ meta.sv \in Sv
                          /\ meta.total \in Nat
        /\ Rev \subseteq Nat
    BY LifecycleAssumption DEF TypeOK, Meta, Rev
  <2>00. Idle /\ meta # None => Head \in Entry /\ Head # None
    BY <2>0 DEF TypeOK, ResolveInv, HeadResolves, Head
  <2>1. CASE SomeSave
    <3>1. PICK r \in Rev, e \in Entry, m \in Meta :
             /\ Saves(r, e, m)
             /\ Starts(r, e, m) \/ Appends(r, e, m) \/ Edits(r, e, m)
      BY <2>1 DEF SomeSave
    <3>2. /\ store' = Saved(r, e) /\ m.cur = r /\ Idle /\ meta' = meta
          /\ pending' = [write |-> "meta", meta |-> m]
      BY <3>1 DEF Saves, SaveRevisionThenMeta
    <3>3. r \in Nat /\ m.total \in Nat
      BY <2>0 DEF Meta
    <3>4. PICK n \in Nat : Upto(n) /\ n <= m.total /\ r <= m.total
                           /\ (e.parent = None \/ e.parent < r)
      <4>1. CASE Starts(r, e, m)
        BY <3>2, <4>1 DEF Starts, FreshIds, LineageInv
      <4>2. CASE Appends(r, e, m)
        <5>1. meta # None /\ r = meta.total + 1 /\ m.total = r /\ e.parent = meta.cur
          BY <4>2 DEF Appends, Alive
        <5>2. meta.total \in Nat /\ meta.cur \in Nat /\ meta.cur <= meta.total
          BY <2>0, <5>1 DEF LineageInv
        <5>3. Upto(meta.total)
          BY <3>2, <5>1 DEF LineageInv, Writing, Idle
        <5>. QED
          BY <3>3, <5>1, <5>2, <5>3
      <4>3. CASE Edits(r, e, m)
        <5>1. meta # None /\ r = meta.cur /\ m.total = meta.total /\ e.parent = Head.parent
          BY <4>3 DEF Edits, Alive
        <5>2. meta.total \in Nat /\ meta.cur <= meta.total
          BY <2>0, <5>1 DEF LineageInv
        <5>3. Upto(meta.total)
          BY <3>2, <5>1 DEF LineageInv, Writing, Idle
        <5>4. Head.parent = None \/ Head.parent < meta.cur
          BY <2>0, <2>00, <3>2, <5>1 DEF LineageInv, LineageGrows, Head
        <5>. QED
          BY <3>3, <5>1, <5>2, <5>3, <5>4
      <4>. QED
        BY <3>1, <4>1, <4>2, <4>3
    <3>5. LineageGrows'
      BY <3>2, <3>4, SaveKeepsLineage DEF LineageInv
    <3>6. Upto(m.total)'
      <4>0. PICK k \in Nat : k = m.total
        BY <3>3
      <4>1. Upto(n) /\ n <= k /\ r <= k
        BY <3>4, <4>0
      <4>2. Upto(k)'
        BY <3>2, <4>1, SaveKeepsUpto
      <4>3. \A q \in Rev, s \in Sv : store'[q][s] # None => q <= k
        BY <4>2 DEF Upto
      <4>. QED
        BY <4>0, <4>3 DEF Upto
    <3>7. pending'.write = "meta" /\ pending'.meta = m /\ pending' # None
      <4>1. pending' \in Pending
        BY <3>2 DEF Pending
      <4>. QED
        BY <3>2, <4>1, NoneAssumption
    <3>8. Upto(pending.meta.total)'
      BY <3>6, <3>7 DEF Upto
    <3>9. meta' # None => meta'.cur <= meta'.total
      BY <3>2 DEF LineageInv
    <3>. QED
      BY <3>2, <3>4, <3>5, <3>7, <3>8, <3>9 DEF LineageInv, Writing, Idle
  <2>2. CASE \E r \in Rev : Switch(r)
    <3>1. PICK r \in Rev : Switch(r)
      BY <2>2
    <3>2. /\ meta'.cur = r /\ meta'.total = meta.total /\ store' = store
          /\ pending' = pending /\ Idle /\ meta # None /\ store[r][meta.sv] # None
      BY <2>0, <3>1 DEF Switch, SaveMeta, Idle, Alive, Meta, Finds, Versions
    <3>3. r <= meta.total
      BY <2>0, <3>2 DEF LineageInv, Upto, Writing, Idle
    <3>4. meta' # None
      <4>1. meta' \in Meta
        BY <3>1, MetaSteps DEF Switch, SaveMeta
      <4>. QED
        BY <4>1, NoneAssumption
    <3>. QED
      BY <3>2, <3>3, <3>4 DEF LineageInv, LineageGrows, Upto, Writing, Idle
  <2>3. CASE SomeFlag
    <3>1. /\ meta'.cur = meta.cur /\ meta'.total = meta.total /\ store' = store
          /\ pending' = pending /\ Idle /\ meta # None
      BY <2>0, <2>3 DEF SomeFlag, SaveMeta, Meta
    <3>2. meta' # None
      <4>1. meta' \in Meta
        BY <2>0, <2>3 DEF SomeFlag, SaveMeta, Meta
      <4>. QED
        BY <4>1, NoneAssumption
    <3>. QED
      BY <3>1, <3>2 DEF LineageInv, LineageGrows, Upto, Writing, Idle
  <2>4. CASE PermanentlyDelete
    <3>1. pending' = [write |-> "purge"] /\ meta' = None /\ store' = store
      BY <2>4 DEF PermanentlyDelete
    <3>2. pending' # None /\ pending'.write = "purge"
      <4>1. pending' \in Pending
        BY <3>1 DEF Pending
      <4>. QED
        BY <3>1, <4>1, NoneAssumption
    <3>. QED
      BY <3>1, <3>2 DEF LineageInv, LineageGrows, Upto, Writing, Idle
  <2>5. CASE MigrateCurrent
    <3>1. /\ pending' = [write |-> "revision", rev |-> meta.cur, entry |-> Migrated(Head)]
          /\ meta' = [meta EXCEPT !.sv = deployed, !.idx = Head.val] /\ store' = store
          /\ meta # None /\ Idle
      BY <2>5 DEF MigrateCurrent, HeadStored
    <3>2. Head \in Entry /\ meta \in Meta /\ Migrated(Head) \in Entry /\ meta.cur \in Rev
      BY <2>5, MigrateSteps
    <3>3. meta'.cur = meta.cur /\ meta'.total = meta.total
      BY <3>1, <3>2 DEF Meta
    <3>4. Migrated(Head).parent = Head.parent
      BY <3>2 DEF Migrated, Entry
    <3>5. Head.parent = None \/ Head.parent < meta.cur
      BY <2>0, <2>00, <3>1 DEF LineageInv, LineageGrows, Head
    <3>6. pending'.write = "revision" /\ pending'.rev = meta.cur
          /\ pending'.entry.parent = Head.parent
      BY <3>1, <3>4
    <3>7. pending' # None
      <4>1. pending' \in Pending
        BY <3>1, <3>2 DEF Pending
      <4>. QED
        BY <4>1, NoneAssumption
    <3>. QED
      BY <3>1, <3>3, <3>5, <3>6, <3>7 DEF LineageInv, LineageGrows, Upto, Writing, Idle
  <2>6. CASE \E r \in Rev : MigrateRevision(r)
    <3>1. PICK r \in Rev, s \in Sv : /\ Finds(r, s)
                                     /\ store[r][s] \in Entry
                                     /\ Migrated(store[r][s]) \in Entry
                                     /\ store' = Saved(r, Migrated(store[r][s]))
      BY <2>6, MigrateSteps
    <3>2. meta' = meta /\ pending' = pending /\ Idle /\ meta # None
      BY <2>6 DEF MigrateRevision, Idle
    <3>3. store[r][s] # None
      BY <3>1 DEF Finds, Versions
    <3>4. Migrated(store[r][s]).parent = None \/ Migrated(store[r][s]).parent < r
      <4>1. Migrated(store[r][s]).parent = store[r][s].parent
        BY <3>1 DEF Migrated, Entry
      <4>. QED
        BY <3>3, <4>1 DEF LineageInv, LineageGrows
    <3>5. LineageGrows'
      BY <3>1, <3>4, SaveKeepsLineage DEF LineageInv
    <3>6. Upto(meta.total)'
      <4>0. PICK k \in Nat : k = meta.total
        BY <2>0, <3>2
      <4>1. Upto(k) /\ r <= k /\ k <= k
        BY <3>2, <3>3, <4>0 DEF LineageInv, Upto, Writing, Idle
      <4>2. Upto(k)'
        BY <3>1, <4>1, SaveKeepsUpto
      <4>3. \A q \in Rev, t \in Sv : store'[q][t] # None => q <= k
        BY <4>2 DEF Upto
      <4>. QED
        BY <3>2, <4>0, <4>3 DEF Upto
    <3>. QED
      BY <3>2, <3>5, <3>6 DEF LineageInv, Writing, Idle
  <2>7. CASE FinishMeta
    <3>1. /\ Writing("meta") /\ meta' = pending.meta /\ store' = store /\ pending' = None
          /\ pending.meta # None
      BY <2>7, PendingType, NoneAssumption DEF FinishMeta, Writing, Idle
    <3>. QED
      BY <3>1 DEF LineageInv, LineageGrows, Upto, Writing, Idle
  <2>8. CASE FinishRevision
    <3>1. /\ Writing("revision") /\ store' = Saved(pending.rev, pending.entry)
          /\ meta' = meta /\ pending' = None
      BY <2>8 DEF FinishRevision, Writing, Idle
    <3>2. /\ pending.rev \in Rev /\ pending.entry \in Entry /\ pending.rev = meta.cur
          /\ meta # None
      BY <3>1, PendingType DEF Writing, ResolveInv
    <3>3. LineageGrows'
      BY <3>1, <3>2, SaveKeepsLineage DEF LineageInv
    <3>4. Upto(meta.total)'
      <4>0. PICK k \in Nat : k = meta.total
        BY <2>0, <3>2
      <4>1. Upto(k) /\ pending.rev <= k /\ k <= k
        BY <3>1, <3>2, <4>0 DEF LineageInv, Writing
      <4>2. Upto(k)'
        BY <3>1, <3>2, <4>1, SaveKeepsUpto
      <4>3. \A q \in Rev, t \in Sv : store'[q][t] # None => q <= k
        BY <4>2 DEF Upto
      <4>. QED
        BY <3>1, <4>0, <4>3 DEF Upto
    <3>. QED
      BY <3>1, <3>2, <3>3, <3>4 DEF LineageInv, Writing, Idle
  <2>9. CASE FinishPurge
    <3>1. /\ store' = [r \in Rev |-> [s \in Sv |-> None]] /\ meta' = meta /\ pending' = None
          /\ meta = None
      BY <2>9 DEF FinishPurge, Purged, FreshIds, ResolveInv, Writing, Idle
    <3>. QED
      BY <3>1 DEF LineageInv, LineageGrows, Upto, Writing, Idle
  <2>10. CASE Crash
    BY <2>10 DEF Crash, NoCrash, TypeOK
  <2>11. CASE Upgrade
    BY <2>11 DEF Upgrade, LineageInv, LineageGrows, Upto, Writing, Idle
  <2>12. CASE UNCHANGED vars
    BY <2>12 DEF vars, LineageInv, LineageGrows, Upto, Writing, Idle
  <2>. QED
    BY <2>1, <2>2, <2>3, <2>4, <2>5, <2>6, <2>7, <2>8, <2>9, <2>10, <2>11, <2>12, Steps
<1>. QED
  BY <1>1, <1>2, TypeCorrect, ResolveHolds, PTL DEF Spec

\* The graph of revisions is acyclic for any number of updates, edits, switches
\* and migrations: update() numbers a revision after the last one ever made and
\* not after HEAD, and its parent is HEAD.  (After a crash in update() the
\* orphan is not counted: it can become HEAD and then its own parent.)
THEOREM LineageIsAcyclic == ASSUME NoCrash, FreshIds PROVE Spec => []LineageGrows
<1>1. LineageInv => LineageGrows
  BY DEF LineageInv
<1>. QED
  BY <1>1, LineageHolds, PTL

-----------------------------------------------------------------------------
(* What no step rewrites *)

\* Migrating a revision changes no content under any key.
LEMMA MigrateKeepsContent ==
    ASSUME TypeOK, KeysOK, SortedVersions, NEW r \in Rev, MigrateRevision(r),
           NEW q \in Rev, NEW t \in Sv, store[q][t] # None
    PROVE  SameContent(store[q][t], store'[q][t])
<1>1. PICK s \in Sv :
         /\ store[r][s] \in Entry
         /\ store[r][deployed] = None
         /\ Migrated(store[r][s]) \in Entry
         /\ store'[q][t] = IF q = r /\ (t = deployed \/ store[q][t] = store[r][s])
                           THEN Migrated(store[r][s]) ELSE store[q][t]
  BY MigratesNewest
<1>2. SameContent(store[r][s], Migrated(store[r][s]))
  BY <1>1, NoneAssumption DEF SameContent, Migrated, Entry
<1>3. store'[q][t] = store[q][t] \/ (store[q][t] = store[r][s]
                                     /\ store'[q][t] = Migrated(store[r][s]))
  BY <1>1
<1>4. SameContent(store[q][t], store[q][t])
  BY DEF SameContent
<1>. QED
  BY <1>2, <1>3, <1>4

\* Committed revisions are immutable: whatever is updated, edited, switched to
\* or migrated, by id or not, a revision that is not HEAD keeps its payload,
\* status and parent until the resource is purged.
THEOREM HistoryIsFrozen ==
    ASSUME NoCrash, FreshIds, SortedVersions PROVE Spec => HistoryFrozen
<1>. DEFINE Frozen ==
        \A r \in Rev, s \in Sv :
          meta # None /\ r # meta.cur /\ store[r][s] # None
            => SameContent(store[r][s], store'[r][s])
<1>1. TypeOK /\ KeyInv /\ ResolveInv /\ LineageInv /\ [Next]_vars => [Frozen]_vars
  <2> SUFFICES ASSUME TypeOK, KeyInv, ResolveInv, LineageInv, [Next]_vars,
                      NEW q \in Rev, NEW t \in Sv,
                      meta # None, q # meta.cur, store[q][t] # None
               PROVE  SameContent(store[q][t], store'[q][t])
    OBVIOUS
  <2>0. /\ meta \in Meta /\ meta.cur \in Rev /\ meta.total \in Nat
        /\ Rev \subseteq Nat
    BY LifecycleAssumption DEF TypeOK, Meta, Rev
  <2>1. ASSUME store'[q][t] = store[q][t] PROVE SameContent(store[q][t], store'[q][t])
    BY <2>1 DEF SameContent
  <2>2. CASE SomeSave
    <3>1. PICK r \in Rev, e \in Entry, m \in Meta :
             /\ Saves(r, e, m)
             /\ Starts(r, e, m) \/ Appends(r, e, m) \/ Edits(r, e, m)
      BY <2>2 DEF SomeSave
    <3>2. store' = Saved(r, e) /\ Idle
      BY <3>1 DEF Saves, SaveRevisionThenMeta
    <3>3. r # q
      <4>1. q <= meta.total
        BY <3>2 DEF LineageInv, Upto, Writing, Idle
      <4>2. r = meta.total + 1 \/ r = meta.cur
        BY <3>1 DEF Starts, Appends, Edits, FreshIds
      <4>. QED
        BY <2>0, <4>1, <4>2
    <3>. QED
      BY <2>1, <3>2, <3>3, ReadSaved
  <2>3. CASE \E r \in Rev : Switch(r)
    BY <2>1, <2>3 DEF Switch, SaveMeta
  <2>4. CASE SomeFlag
    BY <2>1, <2>4 DEF SomeFlag, SaveMeta
  <2>5. CASE PermanentlyDelete
    BY <2>1, <2>5 DEF PermanentlyDelete
  <2>6. CASE MigrateCurrent
    BY <2>1, <2>6 DEF MigrateCurrent
  <2>7. CASE \E r \in Rev : MigrateRevision(r)
    BY <2>7, MigrateKeepsContent DEF KeyInv
  <2>8. CASE FinishMeta
    BY <2>1, <2>8 DEF FinishMeta
  <2>9. CASE FinishRevision
    <3>1. /\ store' = Saved(pending.rev, pending.entry)
          /\ pending.rev = meta.cur /\ pending.rev \in Rev /\ pending.entry \in Entry
      BY <2>9, PendingType DEF FinishRevision, Idle, ResolveInv, Writing
    <3>. QED
      BY <2>1, <3>1, ReadSaved
  <2>10. CASE FinishPurge
    BY <2>10 DEF FinishPurge, ResolveInv, Writing, Idle
  <2>11. CASE Crash \/ Upgrade \/ UNCHANGED vars
    BY <2>1, <2>11 DEF Crash, Upgrade, vars
  <2>. QED
    BY <2>2, <2>3, <2>4, <2>5, <2>6, <2>7, <2>8, <2>9, <2>10, <2>11, Steps
<1>. QED
  BY <1>1, TypeCorrect, KeysHold, ResolveHolds, LineageHolds, PTL DEF Spec, HistoryFrozen

\* A resource that is soft-deleted while a write is pending would change under
\* the deletion; and what migrate() is about to write must be the content of
\* all keys it will reach.
DeletedInv ==
    /\ Writing("meta") => meta = None \/ ~meta.deleted
    /\ Writing("revision") =>
         \A s \in Sv :
            LET e == store[pending.rev][s] IN
            e # None /\ (s = pending.entry.sv \/ e.born = pending.entry.born)
                => SameContent(e, pending.entry)

LEMMA DeletedHolds ==
    ASSUME NoCrash, ~Recreate, SortedVersions PROVE Spec => []DeletedInv
<1>1. Init => DeletedInv
  BY DEF Init, DeletedInv, Writing
<1>2. TypeOK /\ KeyInv /\ ResolveInv /\ IndexInv /\ DeletedInv /\ [Next]_vars => DeletedInv'
  <2> SUFFICES ASSUME TypeOK, KeyInv, ResolveInv, IndexInv, DeletedInv, [Next]_vars
               PROVE  DeletedInv'
    OBVIOUS
  <2>1. CASE SomeSave
    <3>1. PICK r \in Rev, e \in Entry, m \in Meta :
             /\ Saves(r, e, m)
             /\ Starts(r, e, m) \/ Appends(r, e, m) \/ Edits(r, e, m)
      BY <2>1 DEF SomeSave
    <3>2. meta' = meta /\ pending' = [write |-> "meta", meta |-> m]
      BY <3>1 DEF Saves, SaveRevisionThenMeta
    <3>3. meta = None \/ ~meta.deleted
      BY <3>1 DEF Starts, Appends, Edits, Alive
    <3>. QED
      BY <3>2, <3>3 DEF DeletedInv, Writing
  <2>2. ASSUME Idle, pending' = None \/ pending'.write = "purge" PROVE DeletedInv'
    BY <2>2 DEF DeletedInv, Writing
  <2>3. CASE \E r \in Rev : Switch(r)
    BY <2>2, <2>3 DEF Switch, SaveMeta, Idle
  <2>4. CASE SomeFlag
    BY <2>2, <2>4 DEF SomeFlag, SaveMeta, Idle
  <2>5. CASE PermanentlyDelete
    BY <2>2, <2>5 DEF PermanentlyDelete
  <2>6. CASE MigrateCurrent
    <3>1. /\ pending' = [write |-> "revision", rev |-> meta.cur, entry |-> Migrated(Head)]
          /\ store' = store /\ meta # None /\ Idle /\ Head.sv # deployed /\ Head # None
      BY <2>6 DEF MigrateCurrent, HeadStored
    <3>2. Head \in Entry /\ meta.cur \in Rev /\ meta.sv \in Sv /\ deployed \in Sv
      BY <2>6, MigrateSteps DEF TypeOK
    <3>3. SameContent(Head, Migrated(Head)) /\ Migrated(Head).sv = deployed
          /\ Migrated(Head).born = Head.born
      <4>1. Migrated(Head) \in Entry
        BY <2>6, MigrateSteps
      <4>. QED
        BY <3>2, <4>1, NoneAssumption DEF SameContent, Migrated, Entry
    <3>4. store[meta.cur][deployed] = None
      <4>1. Newest(meta.cur, Head.sv) /\ Head.sv <= deployed
        BY <3>1, <3>2 DEF IndexInv, HeadIsNewest, KeyInv, KeysOK, Head
      <4>2. Head.sv \in Nat /\ deployed \in Nat
        BY <3>2, LifecycleAssumption DEF Entry, Sv
      <4>3. ~(deployed <= Head.sv)
        BY <3>1, <4>1, <4>2
      <4>. QED
        BY <3>2, <4>1, <4>3 DEF Newest
    <3>5. ASSUME NEW s \in Sv, store[meta.cur][s] # None, store[meta.cur][s].born = Head.born
          PROVE  store[meta.cur][s] = Head
      BY <3>1, <3>2, <3>5 DEF KeyInv, KeysOK, Head
    <3>6. pending'.write = "revision" /\ pending'.rev = meta.cur
          /\ pending'.entry = Migrated(Head)
      BY <3>1
    <3>7. ASSUME NEW s \in Sv, store'[pending'.rev][s] # None,
                 s = pending'.entry.sv \/ store'[pending'.rev][s].born = pending'.entry.born
          PROVE  SameContent(store'[pending'.rev][s], pending'.entry)
      BY <3>1, <3>3, <3>4, <3>5, <3>6, <3>7
    <3>. QED
      BY <3>6, <3>7 DEF DeletedInv, Writing, SameContent
  <2>7. CASE \E r \in Rev : MigrateRevision(r)
    BY <2>2, <2>7 DEF MigrateRevision, Idle
  <2>8. CASE FinishMeta \/ FinishRevision \/ FinishPurge \/ Crash
    BY <2>8 DEF FinishMeta, FinishRevision, FinishPurge, Crash, DeletedInv, Writing
  <2>9. CASE Upgrade
    BY <2>2, <2>9 DEF Upgrade, Idle
  <2>10. CASE UNCHANGED vars
    BY <2>10 DEF vars, DeletedInv, Writing, SameContent
  <2>. QED
    BY <2>1, <2>3, <2>4, <2>5, <2>6, <2>7, <2>8, <2>9, <2>10, Steps
<1>. QED
  BY <1>1, <1>2, TypeCorrect, KeysHold, ResolveHolds, IndexHolds, PTL DEF Spec

\* A soft-deleted resource is frozen: no sequence of operations begun before or
\* after the deletion moves its HEAD or changes any payload; only migration
\* reaches it, and rewrites no content.
THEOREM DeletedIsFrozen ==
    ASSUME NoCrash, ~Recreate, SortedVersions PROVE Spec => DeletedFrozen
<1>. DEFINE Frozen ==
        meta # None /\ meta.deleted /\ meta' # None
          => /\ meta'.cur = meta.cur
             /\ \A r \in Rev, s \in Sv :
                  store[r][s] # None => SameContent(store[r][s], store'[r][s])
<1>1. TypeOK /\ KeyInv /\ ResolveInv /\ DeletedInv /\ [Next]_vars => [Frozen]_vars
  <2> SUFFICES ASSUME TypeOK, KeyInv, ResolveInv, DeletedInv, [Next]_vars,
                      meta # None, meta.deleted, meta' # None
               PROVE  /\ meta'.cur = meta.cur
                      /\ \A r \in Rev, s \in Sv :
                           store[r][s] # None => SameContent(store[r][s], store'[r][s])
    OBVIOUS
  <2>0. meta \in Meta
    BY DEF TypeOK
  <2>1. store' = store => \A r \in Rev, s \in Sv :
                            store[r][s] # None => SameContent(store[r][s], store'[r][s])
    BY DEF SameContent
  <2>2. ~SomeSave
    BY DEF SomeSave, Starts, Appends, Edits, Alive
  <2>3. ~ \E r \in Rev : Switch(r)
    BY DEF Switch, Alive
  <2>4. CASE SomeFlag
    BY <2>0, <2>1, <2>4 DEF SomeFlag, SaveMeta, Meta
  <2>5. CASE PermanentlyDelete
    BY <2>5 DEF PermanentlyDelete
  <2>6. CASE MigrateCurrent
    BY <2>0, <2>1, <2>6 DEF MigrateCurrent, Meta
  <2>7. CASE \E r \in Rev : MigrateRevision(r)
    <3>1. meta' = meta
      BY <2>7 DEF MigrateRevision
    <3>. QED
      BY <2>7, <3>1, MigrateKeepsContent DEF KeyInv
  <2>8. CASE FinishMeta
    BY <2>8 DEF FinishMeta, DeletedInv, Writing, Idle
  <2>9. CASE FinishRevision
    <3>1. /\ Writing("revision") /\ store' = Saved(pending.rev, pending.entry) /\ meta' = meta
          /\ pending.rev \in Rev /\ pending.entry \in Entry
      BY <2>9, PendingType DEF FinishRevision, Idle, Writing
    <3>2. ASSUME NEW r \in Rev, NEW s \in Sv, store[r][s] # None
          PROVE  SameContent(store[r][s], store'[r][s])
      <4>1. CASE r = pending.rev /\ (s = pending.entry.sv
                                     \/ store[r][s].born = pending.entry.born)
        <5>1. store'[r][s] = pending.entry
          BY <3>1, <3>2, <4>1, ReadSaved
        <5>. QED
          BY <3>1, <3>2, <4>1, <5>1 DEF DeletedInv
      <4>2. CASE ~(r = pending.rev /\ (s = pending.entry.sv
                                       \/ store[r][s].born = pending.entry.born))
        <5>1. store'[r][s] = store[r][s]
          BY <3>1, <3>2, <4>2, ReadSaved
        <5>. QED
          BY <3>2, <5>1 DEF SameContent
      <4>. QED
        BY <4>1, <4>2
    <3>. QED
      BY <3>1, <3>2
  <2>10. CASE FinishPurge
    BY <2>10 DEF FinishPurge, ResolveInv, Writing, Idle
  <2>11. CASE Crash \/ Upgrade \/ UNCHANGED vars
    BY <2>1, <2>11 DEF Crash, Upgrade, vars
  <2>. QED
    BY <2>2, <2>3, <2>4, <2>5, <2>6, <2>7, <2>8, <2>9, <2>10, <2>11, Steps
<1>. QED
  BY <1>1, TypeCorrect, KeysHold, ResolveHolds, DeletedHolds, PTL DEF Spec, DeletedFrozen

-----------------------------------------------------------------------------
(* The abstract document *)

\* Sequences has a Head of its own.
Seqs == INSTANCE Sequences

\* What VersionedDocument keeps of an entry, and of the first n revisions.
Form(e) == [val |-> e.val, status |-> e.status, parent |-> e.parent]
Past(n) == [r \in 1..n |-> Form(Latest(r))]

\* None is no document either.
NoneIsNoDocument ==
    \A h, d, p : None # [head |-> h, deleted |-> d, history |-> p]

\* The newest key of a revision holds its latest form.
LatestIsNewest ==
    \A r \in Rev, s \in Sv : Newest(r, s) => Latest(r) = store[r][s]

LEMMA LatestHolds == LatestIsNewest
<1>. SUFFICES ASSUME NEW r \in Rev, NEW s \in Sv, Newest(r, s)
              PROVE  Latest(r) = store[r][s]
  BY DEF LatestIsNewest
<1>. DEFINE Last(x) == \A t \in Versions(r) : t <= x
            c == CHOOSE x \in Versions(r) : Last(x)
<1>1. s \in Versions(r) /\ Last(s)
  BY DEF Newest, Versions
<1>2. c \in Versions(r) /\ Last(c)
  BY <1>1
<1>3. c <= s /\ s <= c
  BY <1>1, <1>2
<1>4. c \in Nat /\ s \in Nat
  BY <1>2, LifecycleAssumption DEF Versions, Sv
<1>5. c = s
  BY <1>3, <1>4
<1>. QED
  BY <1>5 DEF Latest

LEMMA SameRow ==
    ASSUME NEW r \in Rev, store'[r] = store[r]
    PROVE  Form(Latest(r))' = Form(Latest(r))
<1>1. Versions(r)' = Versions(r)
  BY DEF Versions
<1>2. Latest(r)' = Latest(r)
  BY <1>1 DEF Latest
<1>. QED
  BY <1>2 DEF Form

LEMMA SamePast ==
    ASSUME NEW n \in Nat, \A r \in 1..n : Form(Latest(r))' = Form(Latest(r))
    PROVE  Past(n)' = Past(n)
  BY DEF Past

LEMMA AppendIs ==
    ASSUME NEW n \in Nat, NEW T, NEW h \in [1..n -> T], NEW x \in T,
           NEW g \in [1..(n+1) -> T], \A i \in 1..n : g[i] = h[i], g[n+1] = x
    PROVE  g = Seqs!Append(h, x) /\ Seqs!Len(h) = n
<1>1. h \in Seqs!Seq(T) /\ Seqs!Len(h) = n
  OBVIOUS
<1>2. Seqs!Append(h, x) \in Seqs!Seq(T) /\ Seqs!Len(Seqs!Append(h, x)) = n+1
  BY <1>1
<1>3. \A i \in 1..(n+1) : Seqs!Append(h, x)[i] = g[i]
  BY <1>1
<1>4. g \in Seqs!Seq(T) /\ Seqs!Len(g) = n+1
  OBVIOUS
<1>5. \A i \in 1..Seqs!Len(g) : Seqs!Append(h, x)[i] = g[i]
  BY <1>3, <1>4
<1>. QED
  BY <1>1, <1>2, <1>4, <1>5

LEMMA PastAppends ==
    ASSUME NEW n \in Nat
    PROVE  /\ Past(n+1) = Seqs!Append(Past(n), Form(Latest(n+1)))
           /\ Seqs!Len(Past(n)) = n
<1>. DEFINE g == Past(n+1)
            h == Past(n)
            x == Form(Latest(n+1))
            T == {Form(Latest(i)) : i \in 1..(n+1)}
<1>1. /\ g \in [1..(n+1) -> T] /\ h \in [1..n -> T] /\ x \in T
      /\ \A i \in 1..n : g[i] = h[i]
      /\ g[n+1] = x
  BY DEF Past
<1>. HIDE DEF g, h, x, T
<1>2. g = Seqs!Append(h, x) /\ Seqs!Len(h) = n
  BY <1>1, AppendIs
<1>. QED
  BY <1>2 DEF g, h, x

\* What a pending write will do to the document: start it, append to it, or
\* nothing, when it edits or migrates HEAD.
DocumentInv ==
    /\ meta # None => meta.total \in Rev
    /\ Writing("meta") =>
         LET m == pending.meta
             e == store[m.cur][deployed]
         IN  /\ ~m.deleted /\ m.total \in Rev
             /\ \/ meta = None /\ m.cur = 1 /\ m.total = 1 /\ e.parent = None
                \/ Alive /\ m.cur = meta.cur /\ m.total = meta.total
                \/ Alive /\ m.cur = meta.total + 1 /\ m.total = m.cur
                   /\ e.parent = meta.cur
    /\ Writing("revision") => Form(Latest(pending.rev)) = Form(pending.entry)

LEMMA DocumentHolds ==
    ASSUME NoCrash, FreshIds, SortedVersions PROVE Spec => []DocumentInv
<1>1. Init => DocumentInv
  BY DEF Init, DocumentInv, Writing
<1>2. TypeOK /\ LatestIsNewest /\ ResolveInv /\ IndexInv /\ DocumentInv /\ [Next]_vars
      => DocumentInv'
  <2> SUFFICES ASSUME TypeOK, LatestIsNewest, ResolveInv, IndexInv, DocumentInv, [Next]_vars
               PROVE  DocumentInv'
    OBVIOUS
  <2>1. CASE SomeSave
    <3>1. PICK r \in Rev, e \in Entry, m \in Meta :
             /\ Saves(r, e, m)
             /\ Starts(r, e, m) \/ Appends(r, e, m) \/ Edits(r, e, m)
      BY <2>1 DEF SomeSave
    <3>2. /\ meta' = meta /\ pending' = [write |-> "meta", meta |-> m] /\ deployed' = deployed
          /\ store' = Saved(r, e) /\ m.cur = r /\ e.sv = deployed /\ ~m.deleted
      BY <3>1 DEF Saves, SaveRevisionThenMeta
    <3>3. store'[r][deployed] = e
      BY <3>2, ReadSaved DEF TypeOK
    <3>4. \/ meta = None /\ r = 1 /\ m.total = 1 /\ e.parent = None
          \/ Alive /\ r = meta.cur /\ m.total = meta.total
          \/ Alive /\ r = meta.total + 1 /\ m.total = r /\ e.parent = meta.cur
      BY <3>1 DEF Starts, Appends, Edits, FreshIds
    <3>5. m.total \in Rev
      BY <3>4 DEF DocumentInv, Alive
    <3>6. pending'.meta = m /\ pending'.write = "meta"
      BY <3>2
    <3>. QED
      BY <3>2, <3>3, <3>4, <3>5, <3>6 DEF DocumentInv, Writing, Alive
  <2>2. ASSUME Idle, pending' = None \/ pending'.write = "purge",
               meta' # None => meta # None /\ meta'.total = meta.total
        PROVE  DocumentInv'
    BY <2>2 DEF DocumentInv, Writing
  <2>3. CASE \E r \in Rev : Switch(r)
    BY <2>2, <2>3 DEF Switch, SaveMeta, Idle, Alive, TypeOK, Meta
  <2>4. CASE SomeFlag
    BY <2>2, <2>4 DEF SomeFlag, SaveMeta, Idle, TypeOK, Meta
  <2>5. CASE PermanentlyDelete
    BY <2>2, <2>5 DEF PermanentlyDelete
  <2>6. CASE MigrateCurrent
    <3>1. /\ pending' = [write |-> "revision", rev |-> meta.cur, entry |-> Migrated(Head)]
          /\ meta' = [meta EXCEPT !.sv = deployed, !.idx = Head.val]
          /\ store' = store /\ meta # None /\ Idle
      BY <2>6 DEF MigrateCurrent, HeadStored
    <3>2. Head \in Entry /\ meta \in Meta /\ meta.cur \in Rev
      BY <2>6, MigrateSteps
    <3>3. Form(Migrated(Head)) = Form(Head)
      BY <3>2 DEF Form, Migrated, Entry
    <3>4. Latest(meta.cur) = Head
      <4>1. Newest(meta.cur, Head.sv) /\ store[meta.cur][Head.sv] = Head /\ Head.sv \in Sv
        BY <3>1, <3>2 DEF IndexInv, HeadIsNewest, Entry
      <4>. QED
        BY <3>2, <4>1 DEF LatestIsNewest
    <3>6. /\ pending'.write = "revision" /\ pending'.rev = meta.cur
          /\ pending'.entry = Migrated(Head)
      BY <3>1
    <3>7. Latest(pending.rev)' = Latest(meta.cur)
      BY <3>1, <3>6 DEF Latest, Versions
    <3>8. meta'.total = meta.total
      BY <3>1, <3>2 DEF Meta
    <3>. QED
      BY <3>1, <3>3, <3>4, <3>6, <3>7, <3>8 DEF DocumentInv, Writing, Form
  <2>7. CASE \E r \in Rev : MigrateRevision(r)
    BY <2>2, <2>7 DEF MigrateRevision, Idle
  <2>8. CASE FinishMeta
    BY <2>8 DEF FinishMeta, DocumentInv, Writing, Idle
  <2>9. CASE FinishRevision \/ FinishPurge \/ Crash
    BY <2>9 DEF FinishRevision, FinishPurge, Crash, DocumentInv, Writing
  <2>10. CASE Upgrade
    BY <2>2, <2>10 DEF Upgrade, Idle
  <2>11. CASE UNCHANGED vars
    <3>1. Latest(pending.rev)' = Latest(pending.rev)
      BY <2>11 DEF vars, Latest, Versions
    <3>. QED
      BY <2>11, <3>1 DEF vars, DocumentInv, Writing, Alive, Form
  <2>. QED
    BY <2>1, <2>3, <2>4, <2>5, <2>6, <2>7, <2>8, <2>9, <2>10, <2>11, Steps
<1>. QED
  BY <1>1, <1>2, TypeCorrect, LatestHolds, ResolveHolds, IndexHolds, PTL DEF Spec

\* The latest form of HEAD is what its own key holds.
LEMMA LatestHead ==
    ASSUME TypeOK, LatestIsNewest, ResolveInv, IndexInv, Idle, meta # None
    PROVE  Head \in Entry /\ Latest(meta.cur) = Head
<1>1. Head \in Entry /\ meta.cur \in Rev
  BY DEF TypeOK, Meta, ResolveInv, HeadResolves, Head
<1>2. Newest(meta.cur, Head.sv) /\ store[meta.cur][Head.sv] = Head /\ Head.sv \in Sv
  BY <1>1 DEF IndexInv, HeadIsNewest, Entry
<1>. QED
  BY <1>1, <1>2 DEF LatestIsNewest

\* After a save under the label of the program, the revision's latest form is
\* the entry saved, and no other revision has changed.
LEMMA SavedForms ==
    ASSUME TypeOK, LatestIsNewest', DeployedNewest', deployed' = deployed,
           NEW r \in Rev, NEW e \in Entry, e.sv = deployed, store' = Saved(r, e)
    PROVE  /\ Form(Latest(r))' = Form(e)
           /\ \A q \in Rev : q # r => Form(Latest(q))' = Form(Latest(q))
<1>1. store'[r][deployed] = e /\ e # None /\ deployed \in Sv
  BY ReadSaved, NoneAssumption DEF TypeOK
<1>2. Newest(r, deployed)'
  BY <1>1 DEF DeployedNewest
<1>3. Latest(r)' = e
  BY <1>1, <1>2 DEF LatestIsNewest
<1>4. ASSUME NEW q \in Rev, q # r PROVE Form(Latest(q))' = Form(Latest(q))
  <2>1. store'[q] = store[q]
    BY <1>4 DEF Saved, TypeOK
  <2>. QED
    BY <2>1, SameRow
<1>. QED
  BY <1>3, <1>4 DEF Form

\* The two stores are invisible: with no crash and no id reused, every
\* operation of ResourceManager on a resource of any size looks like one step of
\* VersionedDocument or like nothing.  A new revision becomes visible with the
\* metadata, an edit of HEAD with the revision, a migration never.
THEOREM DocumentIsImplemented ==
    ASSUME NoCrash, FreshIds, SortedVersions, NoneIsNoDocument
    PROVE  Spec => ImplementsDocument
<1>1. Init => Abstract!Init
  BY DEF Init, Abstract!Init, Document
<1>2. /\ TypeOK /\ KeyInv /\ LatestIsNewest /\ LatestIsNewest' /\ DeployedNewest'
      /\ ResolveInv /\ IndexInv /\ LineageInv /\ DocumentInv /\ [Next]_vars
      => [Abstract!Next]_Document
  <2> SUFFICES ASSUME TypeOK, KeyInv, LatestIsNewest, LatestIsNewest', DeployedNewest',
                      ResolveInv, IndexInv, LineageInv, DocumentInv, [Next]_vars
               PROVE  [Abstract!Next]_Document
    OBVIOUS
  <2>0. /\ meta # None => /\ meta \in Meta /\ meta.cur \in Rev /\ meta.total \in Rev
                          /\ meta.cur <= meta.total
        /\ Rev \subseteq Nat
        /\ \A n \in Rev : 1..n \subseteq Rev
    BY LifecycleAssumption DEF TypeOK, Meta, Rev, DocumentInv, LineageInv
  <2>00. meta # None =>
           /\ Document = [head |-> meta.cur, deleted |-> meta.deleted,
                          history |-> Past(meta.total)]
           /\ Document # None
    BY DEF Document, Past, Form, NoneIsNoDocument
  <2>000. meta' # None =>
            Document' = [head |-> meta'.cur, deleted |-> meta'.deleted,
                         history |-> Past(meta.total)']
    BY DEF Document, Past, Form
  <2>1. ASSUME meta # None, meta' # None, meta'.cur = meta.cur, meta'.total = meta.total,
               meta'.deleted = meta.deleted,
               \A r \in 1..meta.total : Form(Latest(r))' = Form(Latest(r))
        PROVE  Document' = Document
    <3>1. PICK n \in Nat : n = meta.total
      BY <2>0, <2>1
    <3>2. Past(n)' = Past(n)
      BY <2>1, <3>1, SamePast
    <3>3. Past(meta.total)' = Past(meta.total)
      BY <2>1, <3>1, <3>2 DEF Past
    <3>. QED
      BY <2>1, <2>00, <2>000, <3>3
  <2>2. ASSUME meta' = None, meta = None PROVE Document' = Document
    BY <2>2 DEF Document
  <2>3. ASSUME store' = store, NEW n \in Nat, n \in Rev PROVE Past(n)' = Past(n)
    BY <2>0, <2>3, SameRow, SamePast
  <2>4. CASE SomeSave
    <3>1. PICK r \in Rev, e \in Entry, m \in Meta :
             /\ Saves(r, e, m)
             /\ Starts(r, e, m) \/ Appends(r, e, m) \/ Edits(r, e, m)
      BY <2>4 DEF SomeSave
    <3>2. meta' = meta /\ Idle
      BY <3>1 DEF Saves, SaveRevisionThenMeta
    <3>3. /\ Form(Latest(r))' = Form(e)
          /\ \A q \in Rev : q # r => Form(Latest(q))' = Form(Latest(q))
      BY <3>1, SavedForms DEF Saves, SaveRevisionThenMeta
    <3>4. CASE Starts(r, e, m)
      BY <2>2, <3>2, <3>4 DEF Starts, FreshIds
    <3>5. CASE Appends(r, e, m)
      <4>1. meta # None /\ r = meta.total + 1
        BY <3>5 DEF Appends, Alive
      <4>2. meta.total \in Nat /\ 1..meta.total \subseteq Rev
        BY <2>0, <4>1
      <4>3. \A q \in 1..meta.total : q \in Rev /\ q # r
        BY <4>1, <4>2
      <4>. QED
        BY <2>1, <3>2, <3>3, <4>1, <4>3
    <3>6. CASE Edits(r, e, m)
      <4>1. /\ meta # None /\ ~meta.deleted /\ r = meta.cur
            /\ e.parent = Head.parent
            /\ "draft" \in {Head.status, e.status} \/ e.val = Head.val
        BY <3>6 DEF Edits, Alive
      <4>2. Latest(meta.cur) = Head
        BY <3>2, <4>1, LatestHead
      <4>3. PICK n \in Nat : n = meta.total
        BY <2>0, <4>1
      <4>4. r \in 1..n
        BY <2>0, <4>1, <4>3, LifecycleAssumption DEF Rev
      <4>5. Past(n)' = [Past(n) EXCEPT ![r] = Form(e)]
        BY <2>0, <3>3, <4>1, <4>3 DEF Past
      <4>6. Past(n)[r] = Form(Head)
        BY <4>1, <4>2, <4>4 DEF Past
      <4>7. Form(e) = [val |-> e.val, status |-> e.status, parent |-> Past(n)[r].parent]
        BY <4>1, <4>6 DEF Form
      <4>. DEFINE h == Past(n)
                  f == [val |-> e.val, status |-> e.status, parent |-> h[r].parent]
      <4>8. /\ Document = [head |-> r, deleted |-> meta.deleted, history |-> h]
            /\ Document' = [head |-> r, deleted |-> meta.deleted, history |-> [h EXCEPT ![r] = f]]
            /\ Document # None
        <5>1. Past(meta.total)' = Past(n)'
          BY <3>2, <4>3 DEF Past
        <5>. QED
          BY <2>00, <2>000, <3>2, <4>1, <4>3, <4>5, <4>7, <5>1
      <4>9. h[r].status = Head.status /\ h[r].val = Head.val
        BY <4>6 DEF Form
      <4>10. e.val \in Value /\ e.status \in Status
        BY DEF Entry
      <4>. HIDE DEF h
      <4>11. Abstract!Edit(e.val, e.status)
        BY <4>1, <4>8, <4>9 DEF Abstract!Edit
      <4>. QED
        BY <4>10, <4>11 DEF Abstract!Next
    <3>. QED
      BY <3>1, <3>4, <3>5, <3>6
  <2>5. CASE \E r \in Rev : Switch(r)
    <3>1. PICK r \in Rev : Switch(r)
      BY <2>5
    <3>2. /\ meta # None /\ ~meta.deleted /\ Idle /\ store' = store
          /\ meta' = [meta EXCEPT !.cur = r, !.idx = store[r][meta.sv].val]
          /\ store[r][meta.sv] # None
      BY <3>1 DEF Switch, SaveMeta, Alive, Finds, Versions
    <3>3. /\ meta' \in Meta /\ meta'.cur = r /\ meta'.total = meta.total
          /\ meta'.deleted = meta.deleted
      BY <3>1, <3>2, MetaSteps DEF Meta
    <3>4. PICK n \in Nat : n = meta.total /\ n \in Rev
      BY <2>0, <3>2
    <3>5. r \in 1..n
      <4>1. meta.sv \in Sv
        BY <2>0, <3>2 DEF Meta
      <4>2. r <= n
        BY <3>2, <3>4, <4>1 DEF LineageInv, Upto, Writing, Idle
      <4>. QED
        BY <2>0, <4>2, LifecycleAssumption DEF Rev
    <3>6. Past(meta.total)' = Past(n)
      BY <2>3, <3>2, <3>3, <3>4 DEF Past
    <3>7. Seqs!Len(Past(n)) = n
      BY PastAppends
    <3>. DEFINE h == Past(n)
    <3>8. /\ Document = [head |-> meta.cur, deleted |-> meta.deleted, history |-> h]
          /\ Document' = [head |-> r, deleted |-> meta.deleted, history |-> h]
          /\ Document # None
      BY <2>00, <2>000, <3>2, <3>3, <3>4, <3>6, NoneAssumption
    <3>. HIDE DEF h
    <3>9. Abstract!Checkout
      BY <3>2, <3>5, <3>7, <3>8 DEF Abstract!Checkout, h
    <3>. QED
      BY <3>9 DEF Abstract!Next
  <2>6. CASE SomeFlag
    <3>1. PICK b \in BOOLEAN : SaveMeta([meta EXCEPT !.deleted = b])
      BY <2>6 DEF SomeFlag
    <3>2. meta # None /\ store' = store /\ meta' = [meta EXCEPT !.deleted = b]
      BY <2>6, <3>1 DEF SomeFlag, SaveMeta
    <3>3. /\ meta' \in Meta /\ meta'.cur = meta.cur /\ meta'.total = meta.total
          /\ meta'.deleted = b
      BY <2>0, <3>2 DEF Meta
    <3>4. PICK n \in Nat : n = meta.total /\ n \in Rev
      BY <2>0, <3>2
    <3>5. Past(meta.total)' = Past(n)
      BY <2>3, <3>2, <3>3, <3>4 DEF Past
    <3>. DEFINE h == Past(n)
    <3>6. /\ Document = [head |-> meta.cur, deleted |-> meta.deleted, history |-> h]
          /\ Document' = [head |-> meta.cur, deleted |-> b, history |-> h]
          /\ Document # None
      BY <2>00, <2>000, <3>2, <3>3, <3>4, <3>5, NoneAssumption
    <3>. HIDE DEF h
    <3>7. Abstract!SetDeleted(b)
      BY <3>6 DEF Abstract!SetDeleted
    <3>. QED
      BY <3>7 DEF Abstract!Next
  <2>7. CASE PermanentlyDelete
    <3>1. Document' = None /\ Document # None
      BY <2>00, <2>7 DEF PermanentlyDelete, Document
    <3>. QED
      BY <3>1 DEF Abstract!Next, Abstract!Discard
  <2>8. CASE MigrateCurrent
    <3>1. store' = store /\ meta # None
          /\ meta' = [meta EXCEPT !.sv = deployed, !.idx = Head.val] /\ meta' \in Meta
      BY <2>8, MigrateSteps DEF MigrateCurrent, HeadStored
    <3>2. /\ meta' # None /\ meta'.cur = meta.cur /\ meta'.total = meta.total
          /\ meta'.deleted = meta.deleted
      BY <2>0, <3>1, NoneAssumption DEF Meta
    <3>3. \A r \in 1..meta.total : Form(Latest(r))' = Form(Latest(r))
      BY <2>0, <3>1, SameRow
    <3>. QED
      BY <2>1, <3>1, <3>2, <3>3
  <2>9. CASE \E r \in Rev : MigrateRevision(r)
    <3>1. PICK r \in Rev : MigrateRevision(r)
      BY <2>9
    <3>2. PICK s \in Sv :
             /\ Newest(r, s) /\ store[r][s] \in Entry
             /\ Migrated(store[r][s]) \in Entry
             /\ \A q \in Rev, t \in Sv :
                  store'[q][t] =
                    IF q = r /\ (t = deployed \/ store[q][t] = store[r][s])
                    THEN Migrated(store[r][s]) ELSE store[q][t]
      BY <3>1, MigratesNewest DEF KeyInv
    <3>3. /\ meta' = meta /\ deployed' = deployed /\ meta # None
          /\ \E t \in Sv : store' = Saved(r, Migrated(store[r][t]))
      BY <3>1 DEF MigrateRevision
    <3>4. Form(Latest(r))' = Form(Latest(r))
      <4>1. Latest(r) = store[r][s]
        BY <3>2 DEF LatestIsNewest
      <4>2. store'[r][deployed] = Migrated(store[r][s]) /\ deployed \in Sv
        BY <3>2 DEF TypeOK
      <4>3. Newest(r, deployed)'
        BY <3>2, <3>3, <4>2, NoneAssumption DEF DeployedNewest
      <4>4. Latest(r)' = Migrated(store[r][s])
        BY <3>3, <4>2, <4>3 DEF LatestIsNewest
      <4>. QED
        BY <3>2, <4>1, <4>4 DEF Form, Migrated, Entry
    <3>5. ASSUME NEW q \in Rev, q # r PROVE Form(Latest(q))' = Form(Latest(q))
      <4>1. store'[q] = store[q]
        BY <3>3, <3>5 DEF Saved, TypeOK
      <4>. QED
        BY <4>1, SameRow
    <3>. QED
      BY <2>0, <2>1, <3>3, <3>4, <3>5
  <2>10. CASE FinishMeta
    <3>. DEFINE m == pending.meta
                e == store[m.cur][deployed]
    <3>1. /\ Writing("meta") /\ meta' = m /\ store' = store /\ deployed' = deployed
      BY <2>10 DEF FinishMeta, Writing, Idle
    <3>2. /\ m \in Meta /\ m # None /\ m.cur \in Rev /\ m.total \in Rev /\ ~m.deleted
          /\ m.sv = deployed /\ deployed \in Sv
      BY <3>1, PendingType, NoneAssumption
      DEF Writing, Meta, DocumentInv, IndexInv, TypeOK
    <3>3. e # None /\ e \in Entry
      BY <3>1, <3>2 DEF ResolveInv, TypeOK
    <3>4. Form(Latest(m.cur)) = Form(e) /\ e.val \in Value /\ e.status \in Status
      <4>1. PICK c \in Rev : c = m.cur
        BY <3>2
      <4>2. Newest(c, deployed)'
        BY <3>1, <3>3, <4>1 DEF DeployedNewest
      <4>3. Newest(c, deployed)
        BY <3>1, <4>2 DEF Newest
      <4>4. Latest(m.cur) = e
        BY <3>2, <4>1, <4>3 DEF LatestIsNewest
      <4>. QED
        BY <3>3, <4>4 DEF Entry
    <3>. DEFINE n == m.total
    <3>5. Past(meta.total)' = Past(n)
      <4>1. PICK k \in Nat : k = n /\ k \in Rev
        BY <2>0, <3>2
      <4>2. Past(k)' = Past(k)
        BY <2>3, <3>1, <4>1
      <4>. QED
        BY <3>1, <4>1, <4>2 DEF Past
    <3>6. Document' = [head |-> m.cur, deleted |-> FALSE, history |-> Past(n)]
      BY <2>000, <3>1, <3>2, <3>5 DEF Meta
    <3>7. CASE meta = None /\ m.cur = 1 /\ m.total = 1 /\ e.parent = None
      <4>1. Document = None
        BY <3>7 DEF Document
      <4>2. Past(1) = <<Form(Latest(1))>>
        BY DEF Past
      <4>3. Form(Latest(1)) = [val |-> e.val, status |-> e.status, parent |-> None]
        BY <3>4, <3>7 DEF Form
      <4>4. Abstract!Create(e.val, e.status)
        BY <3>6, <3>7, <4>1, <4>2, <4>3 DEF Abstract!Create
      <4>. QED
        BY <3>4, <4>4 DEF Abstract!Next
    <3>8. CASE Alive /\ m.cur = meta.cur /\ m.total = meta.total
      <4>1. meta # None /\ meta.deleted = FALSE
        BY <2>0, <3>8 DEF Alive, Meta
      <4>. QED
        BY <2>00, <3>6, <3>8, <4>1
    <3>9. CASE Alive /\ m.cur = meta.total + 1 /\ m.total = m.cur /\ e.parent = meta.cur
      <4>1. meta # None /\ meta.deleted = FALSE
        BY <2>0, <3>9 DEF Alive, Meta
      <4>2. PICK k \in Nat : k = meta.total
        BY <2>0, <4>1
      <4>. DEFINE h == Past(k)
                  f == [val |-> e.val, status |-> e.status, parent |-> meta.cur]
      <4>3. Past(k+1) = Seqs!Append(h, Form(Latest(k+1))) /\ Seqs!Len(h) = k
        BY PastAppends
      <4>4. Form(Latest(k+1)) = f
        BY <3>4, <3>9, <4>2 DEF Form
      <4>5. /\ Document = [head |-> meta.cur, deleted |-> FALSE, history |-> h]
            /\ Document # None
        BY <2>00, <4>1, <4>2
      <4>6. Document' = [head |-> k + 1, deleted |-> FALSE, history |-> Seqs!Append(h, f)]
        BY <3>6, <3>9, <4>2, <4>3, <4>4
      <4>. HIDE DEF h
      <4>7. Abstract!Commit(e.val, e.status)
        BY <4>3, <4>5, <4>6 DEF Abstract!Commit
      <4>. QED
        BY <3>4, <4>7 DEF Abstract!Next
    <3>. QED
      BY <3>1, <3>7, <3>8, <3>9 DEF DocumentInv
  <2>11. CASE FinishRevision
    <3>1. /\ Writing("revision") /\ store' = Saved(pending.rev, pending.entry)
          /\ meta' = meta /\ deployed' = deployed /\ meta # None
          /\ pending.rev \in Rev /\ pending.entry \in Entry /\ pending.entry.sv = deployed
      BY <2>11, PendingType DEF FinishRevision, Idle, Writing, ResolveInv, KeyInv
    <3>2. PICK r \in Rev, e \in Entry : r = pending.rev /\ e = pending.entry
      BY <3>1
    <3>3. /\ Form(Latest(r))' = Form(e)
          /\ \A q \in Rev : q # r => Form(Latest(q))' = Form(Latest(q))
      BY <3>1, <3>2, SavedForms
    <3>4. Form(Latest(r)) = Form(e)
      BY <3>1, <3>2 DEF DocumentInv
    <3>5. \A q \in Rev : Form(Latest(q))' = Form(Latest(q))
      BY <3>3, <3>4 DEF Form
    <3>. QED
      BY <2>0, <2>1, <3>1, <3>5
  <2>12. CASE FinishPurge
    BY <2>2, <2>12 DEF FinishPurge, ResolveInv, Writing, Idle
  <2>13. CASE Crash \/ Upgrade \/ UNCHANGED vars
    <3>1. store' = store /\ meta' = meta
      BY <2>13 DEF Crash, Upgrade, vars
    <3>2. \A r \in Rev : Form(Latest(r))' = Form(Latest(r))
      BY <3>1, SameRow
    <3>. QED
      BY <2>0, <2>1, <2>2, <3>1, <3>2
  <2>. QED
    BY <2>4, <2>5, <2>6, <2>7, <2>8, <2>9, <2>10, <2>11, <2>12, <2>13, Steps
<1>. QED
  BY <1>1, <1>2, TypeCorrect, KeysHold, LatestHolds, DeployedIsNewest, ResolveHolds,
     IndexHolds, LineageHolds, DocumentHolds, PTL DEF Spec, ImplementsDocument, Abstract!Spec

=============================================================================
