-------------------------- MODULE VersionedDocument --------------------------
(***************************************************************************)
(* What ResourceManager promises about one resource, free of stores, keys  *)
(* and schema versions: a document with a numbered history of revisions, a *)
(* HEAD that points into it, and a soft-delete flag                        *)
(* (docs/en/concepts/data-model.md, "Revision graph and branching").       *)
(* Every operation takes effect in one step.                               *)
(***************************************************************************)
EXTENDS Naturals, Sequences

CONSTANTS Value, Status, None

Revision == [val: Value, status: Status, parent: Nat \cup {None}]

VARIABLE doc    \* None, or [head, deleted, history]

Create(v, st) ==
    /\ doc = None
    /\ doc' = [head |-> 1, deleted |-> FALSE,
               history |-> <<[val |-> v, status |-> st, parent |-> None]>>]

\* A new revision is appended; HEAD, its parent, may be any older one.
Commit(v, st) ==
    /\ doc # None /\ ~doc.deleted
    /\ doc' = [head |-> Len(doc.history) + 1, deleted |-> FALSE,
               history |-> Append(doc.history,
                               [val |-> v, status |-> st, parent |-> doc.head])]

\* Only HEAD can be edited in place, and its payload only as a draft.
Edit(v, st) ==
    /\ doc # None /\ ~doc.deleted
    /\ \/ doc.history[doc.head].status = "draft"
       \/ st = "draft"
       \/ v = doc.history[doc.head].val
    /\ doc' = [doc EXCEPT !.history[doc.head] =
                  [val |-> v, status |-> st, parent |-> doc.history[doc.head].parent]]

Checkout ==
    /\ doc # None /\ ~doc.deleted
    /\ \E r \in 1..Len(doc.history) : doc' = [doc EXCEPT !.head = r]

SetDeleted(b) ==
    /\ doc # None
    /\ doc' = [doc EXCEPT !.deleted = b]

Discard ==
    /\ doc # None
    /\ doc' = None

Init == doc = None

Next ==
    \/ \E v \in Value, st \in Status : Create(v, st) \/ Commit(v, st) \/ Edit(v, st)
    \/ Checkout
    \/ \E b \in BOOLEAN : SetDeleted(b)
    \/ Discard

Spec == Init /\ [][Next]_doc

=============================================================================
