--------------------------- MODULE UniqueConstraint ---------------------------
(***************************************************************************)
(* Unique fields (autocrud/resource_manager/constraint_handler.py and      *)
(* unique_handler.py): writers in several processes share the stores, and  *)
(* nothing locks.  The handler searches for the value before a write,      *)
(* searches again after it (the holder that was updated first wins), and   *)
(* undoes the write that lost.                                             *)
(*                                                                         *)
(* Each call of the storage is a step; save_revision and save_meta of one  *)
(* write are a single step here (RevisionLifecycle opens them).  Payloads  *)
(* are reduced to the unique field; the other fields may change with it or *)
(* without it.  All revisions are drafts, so modify() is never refused.    *)
(* patch() is update() with data read earlier.                             *)
(***************************************************************************)
EXTENDS Naturals, Sequences, FiniteSets

CONSTANTS
    Res,      \* resource ids
    Writer,   \* threads and processes that call the ResourceManager
    Val,      \* values of the unique field
    NoValue,  \* the field is None: never a conflict
    MaxOps,   \* bound: operations begun in a behaviour
    None

ASSUME UniqueAssumption ==
    /\ MaxOps \in Nat
    /\ NoValue \notin Val
    /\ None \notin Res \cup Val \cup {NoValue}

Field == Val \cup {NoValue}
Op == {"create", "update", "modify", "switch", "restore", "delete"}

\* ResourceMeta; `at' is updated_time, `val' is in indexed_data
Meta == [cur: Nat \ {0}, total: Nat \ {0}, val: Field, deleted: BOOLEAN, at: Nat]

\* an operation in progress: its resource, the value it gives it, the revision
\* it switches to, its time, the step it is at, the snapshot kept for the
\* compensation, the metadata it read, and whether it is checked again; orig
\* and was are the resource when it began (history)
Doing == [op: Op, res: Res, val: Field, rev: Nat \cup {None}, now: Nat,
          at: {"check", "snap", "read", "save", "post", "undo"},
          prev: Meta \cup {None}, old: Field \cup {None}, copy: Meta \cup {None},
          guarded: BOOLEAN, orig: Meta \cup {None}, was: Field]

ASSUME NoneAssumption == None \notin Meta \cup Doing

VARIABLES
    meta,     \* meta[r]: the metadata of r, or None
    hist,     \* hist[r]: the payloads of r's revisions
    writer,   \* writer[w]: the operation w is executing, or None
    clock,    \* operations begun; the time meta_provide gives the next one
    raced,    \* values two overlapping operations had to do with (history)
    disturbed,\* resources two operations overlapped on, or that were switched to
              \* the revision an undone update left behind (history)
    givenUp   \* values a client's write took from a resource (history)

vars == <<meta, hist, writer, clock, raced, disturbed, givenUp>>

Live(r) == meta[r] # None /\ ~meta[r].deleted

Holders(v) == {r \in Res : Live(r) /\ meta[r].val = v}

Content(r) == hist[r][meta[r].cur]

TypeOK ==
    /\ meta \in [Res -> Meta \cup {None}]
    /\ hist \in [Res -> Seq(Field)]
    /\ \A r \in Res : meta[r] # None =>
        /\ meta[r].cur <= Len(hist[r])
        /\ meta[r].total <= Len(hist[r])
    /\ writer \in [Writer -> Doing \cup {None}]
    /\ clock \in 0..MaxOps
    /\ raced \subseteq Field /\ disturbed \subseteq Res /\ givenUp \subseteq Field

-----------------------------------------------------------------------------
(* UniqueConstraintChecker.check *)

\* The search: sorted by updated_time, limit 1.
First(v) == CHOOSE r \in Holders(v) : \A q \in Holders(v) : meta[r].at <= meta[q].at

Conflict_AnyOther(v, self) == v # NoValue /\ Holders(v) \ {self} # {}

\* self is excluded only as the first holder
Conflict(v, self) == v # NoValue /\ Holders(v) # {} /\ First(v) # self

-----------------------------------------------------------------------------
(* The steps of an operation *)

Overlapping(w) == {u \in Writer \ {w} : writer[u] # None}

\* meta_provide takes the time, and the operation's `before' event begins.
\* History: `orig' and `was' are the resource when the operation began.
Start(w, op, r, v, rev, at) ==
    LET was == IF meta[r] = None THEN v ELSE Content(r)
        others == Overlapping(w)
    IN
    /\ writer[w] = None /\ clock < MaxOps
    /\ clock' = clock + 1
    /\ writer' = [writer EXCEPT ![w] =
               [op |-> op, res |-> r, val |-> v, rev |-> rev, now |-> clock + 1,
                at |-> at, prev |-> None, old |-> None, copy |-> None,
                guarded |-> FALSE, orig |-> meta[r], was |-> was]]
    /\ raced' = raced \cup UNION {{was, v} \cap {writer[u].was, writer[u].val} : u \in others}
    /\ disturbed' = IF \/ \E u \in others : writer[u].res = r
                       \/ op = "switch" /\ meta[r] # None /\ rev > meta[r].total
                    THEN disturbed \cup {r} ELSE disturbed
    /\ UNCHANGED <<meta, hist, givenUp>>

\* ids are uuids: a new one is never one that was used
BeginCreate(w, r, v) ==
    /\ hist[r] = <<>> /\ \A u \in Overlapping(w) : writer[u].res # r
    /\ Start(w, "create", r, v, 1, "check")

BeginUpdate(w, r, v) == hist[r] # <<>> /\ Start(w, "update", r, v, None, "check")

BeginModify(w, r, v) == hist[r] # <<>> /\ Start(w, "modify", r, v, None, "snap")

\* the payload of the target is loaded before the check
BeginSwitch(w, r, n) ==
    /\ n \in 1..Len(hist[r])
    /\ Start(w, "switch", r, hist[r][n], n, "check")

\* the metadata is read, then the payload of HEAD
BeginRestore(w, r) ==
    /\ meta[r] # None
    /\ Start(w, "restore", r, Content(r), None, "snap")

BeginDelete(w, r) == meta[r] # None /\ Start(w, "delete", r, Content(r), None, "read")

Done(w) == writer' = [writer EXCEPT ![w] = None]

Goto(w, at) == writer' = [writer EXCEPT ![w].at = at]

\* pre-check: _run_checks in the before phase
Check(w) ==
    /\ writer[w] # None /\ writer[w].at = "check"
    /\ LET o == writer[w] IN
       IF Conflict(o.val, IF o.op = "create" THEN None ELSE o.res)
       THEN Done(w)
       ELSE writer' = [writer EXCEPT ![w].guarded = TRUE,
                ![w].at = CASE o.op = "create" -> "save"
                            [] o.op \in {"update", "switch"} -> "snap"
                            [] OTHER -> "read"]
    /\ UNCHANGED <<meta, hist, clock, raced, disturbed, givenUp>>

Readable(o) == IF o.op = "restore" THEN meta[o.res] # None ELSE Live(o.res)

Checked_NotRestore(o) == o.op = "modify" /\ Content(o.res) # o.val

\* modify() is checked only when the field changes, restore() only when the
\* resource is deleted.
Checked(o) ==
    \/ o.op = "modify" /\ Content(o.res) # o.val
    \/ o.op = "restore" /\ meta[o.res].deleted

\* prev_meta, prev_info and current_data are kept for the compensation.
Snapshot(w) ==
    /\ writer[w] # None /\ writer[w].at = "snap"
    /\ LET o == writer[w] IN
       IF ~Readable(o) THEN Done(w)
       ELSE writer' = [writer EXCEPT ![w].prev = meta[o.res], ![w].old = Content(o.res),
                ![w].val = IF o.op = "restore" THEN Content(o.res) ELSE @,
                ![w].at = IF Checked(o) THEN "check" ELSE "read"]
    /\ UNCHANGED <<meta, hist, clock, raced, disturbed, givenUp>>

\* where an operation goes when its own part is over: on_success checks again
After(w) ==
    IF writer[w].guarded THEN Goto(w, "post") ELSE Done(w)

\* The operation has nothing to write: the data of an update or a modify may
\* be what HEAD holds when the field is, the target of a switch may be HEAD, the
\* resource to restore may not be deleted.
MayBeDone(o) ==
    CASE o.op \in {"update", "modify"} -> Content(o.res) = o.val
      [] o.op = "switch" -> meta[o.res].cur = o.rev
      [] o.op = "restore" -> ~meta[o.res].deleted
      [] OTHER -> FALSE

MustBeDone(o) == o.op \in {"switch", "restore"} /\ MayBeDone(o)

\* The operation reads the metadata; get_meta raises on a deleted resource.
Read(w) ==
    /\ writer[w] # None /\ writer[w].at = "read"
    /\ LET o == writer[w] IN
       \/ ~Readable(o) /\ Done(w)
       \/ Readable(o) /\ MayBeDone(o) /\ After(w)
       \/ /\ Readable(o) /\ ~MustBeDone(o)
          /\ writer' = [writer EXCEPT ![w].copy = meta[o.res], ![w].at = "save"]
    /\ UNCHANGED <<meta, hist, clock, raced, disturbed, givenUp>>

\* the metadata an operation computes from the copy it read
Written(o) ==
    CASE o.op = "create" ->
           [cur |-> 1, total |-> 1, val |-> o.val, deleted |-> FALSE, at |-> o.now]
      [] o.op = "update" ->
           [cur |-> o.copy.total + 1, total |-> o.copy.total + 1, val |-> o.val,
            deleted |-> FALSE, at |-> o.now]
      [] o.op = "modify" -> [o.copy EXCEPT !.val = o.val, !.at = o.now]
      [] o.op = "switch" -> [o.copy EXCEPT !.cur = o.rev, !.at = o.now,
                                           !.val = hist[o.res][o.rev]]
      [] o.op = "restore" -> [o.copy EXCEPT !.deleted = FALSE, !.at = o.now]
      [] o.op = "delete" -> [o.copy EXCEPT !.deleted = TRUE, !.at = o.now]

\* save_revision: revision n of r gets payload v
Stored(r, n, v) ==
    [hist EXCEPT ![r] = IF n = Len(@) + 1 THEN Append(@, v) ELSE [@ EXCEPT ![n] = v]]

\* values that r stops holding in this step
Dropped(r) == IF Live(r) /\ ~(meta'[r] # None /\ ~meta'[r].deleted /\ meta'[r].val = meta[r].val)
              THEN {meta[r].val} ELSE {}

Save(w) ==
    /\ writer[w] # None /\ writer[w].at = "save"
    /\ LET o == writer[w]
           m == Written(o)
       IN
       /\ meta' = [meta EXCEPT ![o.res] = m]
       /\ hist' = IF o.op \in {"create", "update", "modify"}
                  THEN Stored(o.res, m.cur, o.val) ELSE hist
       /\ givenUp' = givenUp \cup Dropped(o.res)
    /\ After(w)
    /\ UNCHANGED <<clock, raced, disturbed>>

\* post-check: the write is undone unless the resource is the first holder
Post(w) ==
    /\ writer[w] # None /\ writer[w].at = "post"
    /\ IF Conflict(writer[w].val, writer[w].res) THEN Goto(w, "undo") ELSE Done(w)
    /\ UNCHANGED <<meta, hist, clock, raced, disturbed, givenUp>>

Undone_MetaOnly(o) == hist

\* _compensate_restore_revision: a modified revision gets its payload back
Undone(o) == IF o.op = "modify" THEN Stored(o.res, o.prev.cur, o.old) ELSE hist

\* the compensation of each operation
Undo(w) ==
    /\ writer[w] # None /\ writer[w].at = "undo"
    /\ LET o == writer[w] IN
       /\ meta' = [meta EXCEPT ![o.res] =
             CASE o.op = "create" -> None
               [] o.op = "restore" -> IF @ = None THEN None ELSE [@ EXCEPT !.deleted = TRUE]
               [] OTHER -> o.prev]
       /\ hist' = Undone(o)
       /\ givenUp' = IF o.res \in disturbed THEN givenUp \cup Dropped(o.res) ELSE givenUp
    /\ Done(w)
    /\ UNCHANGED <<clock, raced, disturbed>>

-----------------------------------------------------------------------------
Init ==
    /\ meta = [r \in Res |-> None]
    /\ hist = [r \in Res |-> <<>>]
    /\ writer = [w \in Writer |-> None]
    /\ clock = 0
    /\ raced = {}
    /\ disturbed = {}
    /\ givenUp = {}

Next ==
    \E w \in Writer :
        \/ \E r \in Res, v \in Field :
              BeginCreate(w, r, v) \/ BeginUpdate(w, r, v) \/ BeginModify(w, r, v)
        \/ \E r \in Res, n \in 1..MaxOps : BeginSwitch(w, r, n)
        \/ \E r \in Res : BeginRestore(w, r) \/ BeginDelete(w, r)
        \/ Check(w) \/ Snapshot(w) \/ Read(w) \/ Save(w) \/ Post(w) \/ Undo(w)

Spec == Init /\ [][Next]_vars

-----------------------------------------------------------------------------
(* Properties *)

\* Two live resources share a value only if two operations that took it from a
\* resource or gave it to one overlapped, or if one of the two resources is
\* disturbed: no sequence of creates, edits, switches, deletions and restores
\* produces a duplicate, whatever races about other values.
UniqueUnlessRaced ==
    \A v \in Val \ raced : Cardinality(Holders(v) \ disturbed) <= 1

\* A write that is undone leaves the value with a live resource, unless a
\* client took it from one meanwhile: writers that race for a value are never
\* all turned down.
LoserHasWinner ==
    [][\A w \in Writer : Undo(w) /\ writer[w].res \notin disturbed /\ writer[w].val \notin givenUp
         => \E r \in Res : /\ meta'[r] # None /\ ~meta'[r].deleted
                          /\ meta'[r].val = writer[w].val]_vars

\* A write that is undone leaves the resource as it was when the operation
\* began (a created one is gone), unless operations on that resource overlapped.
UndoneLeavesNoTrace ==
    [][\A w \in Writer : Undo(w) /\ writer[w].res \notin disturbed =>
         LET o == writer[w]
             m == meta'[o.res]
         IN
         IF o.orig = None THEN m = None
         ELSE m = [o.orig EXCEPT !.at = m.at] /\ hist'[o.res][m.cur] = o.was]_vars

(* What a document says, and the code does not do. *)

\* constraints.md: a unique field is unique among non-deleted resources, at
\* least once no operation is under way.
UniqueWhenIdle ==
    (\A w \in Writer : writer[w] = None) => \A v \in Val : Cardinality(Holders(v)) <= 1

=============================================================================
