------------------------ MODULE UniqueConstraint_proofs ------------------------
(***************************************************************************)
(* What the unique-field handler guarantees, for any resources, writers,   *)
(* values and number of operations.  Most of it is about a resource that   *)
(* is not disturbed: one operation at a time is under way on it, so that   *)
(* what the operation read and kept is still what the stores hold (Alone), *)
(* and its compensation puts that back.                                    *)
(***************************************************************************)
EXTENDS UniqueConstraint, FiniteSetTheorems, SequenceTheorems, WellFoundedInduction, TLAPS

Active(w) == writer[w] # None

Early == {"check", "snap", "read", "save"}
Late == {"post", "undo"}

(* The steps of each operation: when its snapshot exists and when it is      *)
(* checked again.                                                            *)
Stage(o) ==
    \/ /\ o.op = "create" /\ o.prev = None
       /\ \/ o.at = "check" /\ ~o.guarded
          \/ o.at \in {"save", "post", "undo"} /\ o.guarded
    \/ /\ o.op \in {"update", "switch"}
       /\ \/ o.at = "check" /\ ~o.guarded /\ o.prev = None
          \/ o.at = "snap" /\ o.guarded /\ o.prev = None
          \/ o.at \in {"read", "save", "post", "undo"} /\ o.guarded /\ o.prev # None
    \/ /\ o.op \in {"modify", "restore"}
       /\ \/ o.at = "snap" /\ ~o.guarded /\ o.prev = None
          \/ o.at = "check" /\ ~o.guarded /\ o.prev # None
          \/ o.at \in {"read", "save"} /\ o.prev # None
          \/ o.at \in Late /\ o.guarded /\ o.prev # None
    \/ o.op = "delete" /\ o.at \in {"read", "save"} /\ ~o.guarded /\ o.prev = None

(* Metadata never points beyond the revisions h of its resource.             *)
Within(h, m) == m # None => m.cur <= Len(h) /\ m.total <= Len(h)

OpOK(o, h) ==
    /\ Stage(o)
    /\ Within(h, o.prev) /\ Within(h, o.copy) /\ Within(h, o.orig)
    /\ o.op = "switch" => o.rev \in 1..Len(h)
    /\ o.prev # None => o.old \in Field
    /\ o.at = "save" /\ o.op # "create" => o.copy # None

TypeInv ==
    /\ TypeOK /\ clock \in Nat
    /\ \A w \in Writer : Active(w) => OpOK(writer[w], hist[writer[w].res])

-----------------------------------------------------------------------------
(* A resource that is not disturbed: m is its metadata, h its revisions, o   *)
(* the operation on it                                                       *)

(* Its index holds the value of HEAD.                                        *)
Sound(m, h) == m # None => m.cur <= m.total /\ h[m.cur] = m.val

(* The resource as the operation found it.                                   *)
Found(o, m, h) ==
    /\ o.at \in Early => m = o.orig
    /\ o.orig # None => o.was = o.orig.val /\ o.orig.cur <= o.orig.total
    /\ o.orig # None /\ (o.op = "modify" => o.at \in Early) => h[o.orig.cur] = o.was
    /\ o.op = "create" => o.orig = None

(* What the operation keeps is what it found.                                *)
Keeps(o, h) ==
    /\ o.prev # None => o.prev = o.orig /\ o.old = o.was
    /\ o.at = "save" /\ o.op # "create" => o.copy = o.orig
    /\ o.op = "switch" /\ o.orig # None => o.rev <= o.orig.total /\ h[o.rev] = o.val
    /\ o.op = "restore" /\ o.prev # None =>
         o.val = o.was /\ (o.orig.deleted <=> o.guarded \/ o.at = "check")
    /\ o.op = "restore" /\ o.at = "save" => o.guarded
    /\ o.op = "modify" /\ o.at \in {"read", "save"} /\ ~o.guarded => o.val = o.was
    /\ o.at = "save" /\ o.op \notin {"create", "restore"} => ~o.orig.deleted

Alive(m) == m # None /\ ~m.deleted

(* What an operation to be checked again has made of it.                     *)
Made(o, m) ==
    o.at \in Late =>
        /\ Alive(m) /\ m.val = o.val
        /\ o.op = "restore" => m = [o.orig EXCEPT !.deleted = FALSE, !.at = m.at]
        /\ o.op \notin {"create", "restore"} => Alive(o.orig)

Whole(o, m, h) == Found(o, m, h) /\ Keeps(o, h) /\ Made(o, m)

Calm(w) == Active(w) /\ writer[w].res \notin disturbed

CalmInv ==
    /\ \A r \in Res \ disturbed : Sound(meta[r], hist[r])
    /\ \A w \in Writer : Calm(w) =>
         Whole(writer[w], meta[writer[w].res], hist[writer[w].res])

AloneInv ==
    \A w, u \in Writer : Calm(w) /\ Calm(u) /\ writer[w].res = writer[u].res => w = u

-----------------------------------------------------------------------------
(* Values *)

(* The values an operation takes or gives, if it is checked for the latter.  *)
Reserves(o, v) ==
    \/ v = o.val /\ o.guarded
    \/ v = o.was /\ Alive(o.orig)

RaceInv ==
    \A w, u \in Writer : w # u /\ Calm(w) /\ Calm(u) =>
        {writer[w].was, writer[w].val} \cap {writer[u].was, writer[u].val} \subseteq raced

(* A value nobody raced for has one holder, which is the resource of the     *)
(* operation that reserves it.                                               *)
ValueInv ==
    \A v \in Val \ raced :
        /\ \A r, q \in Holders(v) \ disturbed : r = q
        /\ \A w \in Writer : Calm(w) /\ Reserves(writer[w], v) =>
             Holders(v) \ disturbed \subseteq {writer[w].res}

-----------------------------------------------------------------------------
(* Losers and winners *)

(* The times of r: those of its metadata and of the operations on it.        *)
OpStamp(o, n) ==
    \/ o.now = n
    \/ o.prev # None /\ o.prev.at = n
    \/ o.copy # None /\ o.copy.at = n

Stamped(r, n) ==
    \/ meta[r] # None /\ meta[r].at = n
    \/ \E w \in Writer : Active(w) /\ writer[w].res = r /\ OpStamp(writer[w], n)

StampInv ==
    \A r, q \in Res, n \in Nat :
        /\ Stamped(r, n) => n <= clock
        /\ Stamped(r, n) /\ Stamped(q, n) => r = q

(* w gave r a value that the compensation would take back.                   *)
Claims(w, r, v) ==
    /\ Calm(w) /\ writer[w].res = r /\ writer[w].at \in Late /\ writer[w].val = v
    /\ ~(Alive(writer[w].orig) /\ writer[w].was = v)

(* A holder of v that no compensation takes v from, unless to a client's     *)
(* loss; or one that was updated before r, and is still to be checked.       *)
Wins(f, v, r) ==
    /\ f \in Holders(v) /\ f # r
    /\ \A w \in Writer : Claims(w, f, v) => writer[w].at = "post" /\ meta[f].at < meta[r].at

WinnerInv ==
    \A w \in Writer, r \in Res, v \in Field :
        Claims(w, r, v) /\ writer[w].at = "undo" /\ v \notin givenUp =>
            \E f \in Res : Wins(f, v, r)

-----------------------------------------------------------------------------
(* The steps of an operation o, on the metadata m and the revisions h of its *)
(* resource: p is what is left of the operation.                             *)

Put(h, n, v) == IF n = Len(h) + 1 THEN Append(h, v) ELSE [h EXCEPT ![n] = v]

CheckStep(o, p) ==
    /\ o.at = "check"
    /\ \/ p = None
       \/ p = [o EXCEPT !.guarded = TRUE, !.at = CASE o.op = "create" -> "save"
                                                  [] o.op \in {"update", "switch"} -> "snap"
                                                  [] OTHER -> "read"]

SnapStep(o, p, m, h) ==
    /\ o.at = "snap"
    /\ \/ p = None
       \/ /\ m # None /\ (o.op # "restore" => ~m.deleted)
          /\ p = [o EXCEPT !.prev = m, !.old = h[m.cur],
                           !.val = IF o.op = "restore" THEN h[m.cur] ELSE @,
                           !.at = IF \/ o.op = "modify" /\ h[m.cur] # o.val
                                     \/ o.op = "restore" /\ m.deleted
                                  THEN "check" ELSE "read"]

(* nothing to write                                                          *)
Same(o, m, h) ==
    \/ o.op \in {"update", "modify"} /\ h[m.cur] = o.val
    \/ o.op = "switch" /\ m.cur = o.rev
    \/ o.op = "restore" /\ ~m.deleted

ReadStep(o, p, m, h) ==
    /\ o.at = "read"
    /\ \/ p = None
       \/ /\ m # None /\ (o.op # "restore" => ~m.deleted)
          /\ \/ Same(o, m, h) /\ o.guarded /\ p = [o EXCEPT !.at = "post"]
             \/ /\ ~(o.op \in {"switch", "restore"} /\ Same(o, m, h))
                /\ p = [o EXCEPT !.copy = m, !.at = "save"]

SaveStep(o, p, m2, h, h2) ==
    /\ o.at = "save"
    /\ p = IF o.guarded THEN [o EXCEPT !.at = "post"] ELSE None
    /\ \/ /\ o.op = "create"
          /\ m2 = [cur |-> 1, total |-> 1, val |-> o.val, deleted |-> FALSE, at |-> o.now]
          /\ h2 = Put(h, 1, o.val)
       \/ /\ o.op = "update"
          /\ m2 = [cur |-> o.copy.total + 1, total |-> o.copy.total + 1, val |-> o.val,
                   deleted |-> FALSE, at |-> o.now]
          /\ h2 = Put(h, o.copy.total + 1, o.val)
       \/ /\ o.op = "modify" /\ m2 = [o.copy EXCEPT !.val = o.val, !.at = o.now]
          /\ h2 = Put(h, o.copy.cur, o.val)
       \/ /\ o.op = "switch" /\ h2 = h
          /\ m2 = [o.copy EXCEPT !.cur = o.rev, !.at = o.now, !.val = h[o.rev]]
       \/ o.op = "restore" /\ h2 = h /\ m2 = [o.copy EXCEPT !.deleted = FALSE, !.at = o.now]
       \/ o.op = "delete" /\ h2 = h /\ m2 = [o.copy EXCEPT !.deleted = TRUE, !.at = o.now]

PostStep(o, p) == o.at = "post" /\ p \in {None, [o EXCEPT !.at = "undo"]}

UndoStep(o, p, m, m2, h, h2) ==
    /\ o.at = "undo" /\ p = None
    /\ \/ o.op = "create" /\ m2 = None
       \/ /\ o.op = "restore"
          /\ m2 = IF m = None THEN None ELSE [m EXCEPT !.deleted = TRUE]
       \/ o.op \notin {"create", "restore"} /\ m2 = o.prev
    /\ h2 = IF o.op = "modify" THEN Put(h, o.prev.cur, o.old) ELSE h

(* What every operation in progress satisfies, and what a step keeps of it.  *)
Typed(o, m, h) ==
    /\ o \in Doing /\ OpOK(o, h)
    /\ m \in Meta \cup {None} /\ Within(h, m) /\ h \in Seq(Field)

StillTyped(p, m2, h, h2) ==
    /\ p \in Doing \cup {None} /\ (p # None => OpOK(p, h2))
    /\ m2 \in Meta \cup {None} /\ Within(h2, m2)
    /\ h2 \in Seq(Field) /\ Len(h) <= Len(h2)

StillWhole(p, m2, h2) == Sound(m2, h2) /\ (p # None => Whole(p, m2, h2))

-----------------------------------------------------------------------------
(* Writing a revision keeps the others.                                      *)
LEMMA PutIs ==
    ASSUME NEW h \in Seq(Field), NEW n \in 1..(Len(h) + 1), NEW v \in Field
    PROVE  /\ Put(h, n, v) \in Seq(Field)
           /\ Len(h) <= Len(Put(h, n, v)) /\ n <= Len(Put(h, n, v))
           /\ Put(h, n, v)[n] = v
           /\ \A k \in 1..Len(h) : k # n => Put(h, n, v)[k] = h[k]
<1>1. CASE n = Len(h) + 1
  BY <1>1 DEF Put
<1>2. CASE n # Len(h) + 1
  <2>1. n \in 1..Len(h) /\ Put(h, n, v) = [h EXCEPT ![n] = v]
    BY <1>2 DEF Put
  <2>. QED
    BY <2>1, ExceptSeq
<1>. QED
  BY <1>1, <1>2

LEMMA CheckTyped ==
    ASSUME NEW o, NEW p, NEW m, NEW h, Typed(o, m, h), CheckStep(o, p)
    PROVE  StillTyped(p, m, h, h)
<1>1. CASE p = None
  BY <1>1 DEF Typed, StillTyped
<1>2. CASE p # None
  <2>. DEFINE a == CASE o.op = "create" -> "save" [] o.op \in {"update", "switch"} -> "snap"
                     [] OTHER -> "read"
  <2>1. p = [o EXCEPT !.guarded = TRUE, !.at = a] /\ o \in Doing /\ OpOK(o, h) /\ o.at = "check"
    BY <1>2 DEF CheckStep, Typed
  <2>2. a \in {"save", "snap", "read"} /\ o.op \in Op
    BY <2>1 DEF Doing, Op
  <2>3. p \in Doing /\ Stage(p)
    BY <2>1, <2>2 DEF Doing, Stage, OpOK, Op
  <2>4. OpOK(p, h)
    BY <2>1, <2>2, <2>3 DEF Doing, OpOK, Stage
  <2>. QED
    BY <2>3, <2>4 DEF Typed, StillTyped
<1>. QED
  BY <1>1, <1>2

LEMMA SnapTyped ==
    ASSUME NEW o, NEW p, NEW m, NEW h, Typed(o, m, h), SnapStep(o, p, m, h)
    PROVE  StillTyped(p, m, h, h)
<1>1. CASE p = None
  BY <1>1 DEF Typed, StillTyped
<1>2. CASE p # None
  <2>. DEFINE a == IF \/ o.op = "modify" /\ h[m.cur] # o.val
                      \/ o.op = "restore" /\ m.deleted
                   THEN "check" ELSE "read"
              v == IF o.op = "restore" THEN h[m.cur] ELSE o.val
  <2>1. /\ p = [o EXCEPT !.prev = m, !.old = h[m.cur], !.val = v, !.at = a]
        /\ o \in Doing /\ OpOK(o, h) /\ o.at = "snap" /\ m # None /\ m \in Meta
    BY <1>2 DEF SnapStep, Typed, Doing
  <2>2. h[m.cur] \in Field
    BY <2>1 DEF Typed, Within, Meta
  <2>3. v \in Field /\ a \in {"check", "read"} /\ o.op \in Op
    BY <2>1, <2>2 DEF Doing
  <2>4. p \in Doing
    BY <2>1, <2>2, <2>3 DEF Doing
  <2>5. a = "check" => o.op \in {"modify", "restore"}
    OBVIOUS
  <2>. HIDE DEF a, v
  <2>6. Stage(p)
    <3>1. p.op = o.op /\ p.at = a /\ p.guarded = o.guarded /\ p.prev # None
      BY <2>1 DEF Doing
    <3>2. CASE o.op \in {"update", "switch"}
      BY <2>1, <2>3, <2>5, <3>1, <3>2 DEF Stage, OpOK
    <3>3. CASE o.op \in {"modify", "restore"}
      BY <2>1, <2>3, <3>1, <3>3 DEF Stage, OpOK, Late
    <3>. QED
      BY <2>1, <3>2, <3>3 DEF Stage, OpOK
  <2>7. OpOK(p, h)
    BY <2>1, <2>2, <2>3, <2>6 DEF Doing, OpOK, Typed
  <2>. QED
    BY <2>4, <2>7 DEF Typed, StillTyped
<1>. QED
  BY <1>1, <1>2

LEMMA ReadTyped ==
    ASSUME NEW o, NEW p, NEW m, NEW h, Typed(o, m, h), ReadStep(o, p, m, h)
    PROVE  StillTyped(p, m, h, h)
<1>1. CASE p = None
  BY <1>1 DEF Typed, StillTyped
<1>2. CASE p # None
  <2>1. o \in Doing /\ OpOK(o, h) /\ o.at = "read" /\ m # None /\ m \in Meta
    BY <1>2 DEF ReadStep, Typed
  <2>2. CASE o.guarded /\ p = [o EXCEPT !.at = "post"]
    <3>1. p \in Doing /\ OpOK(p, h)
      BY <2>1, <2>2 DEF Doing, OpOK, Stage, Late
    <3>. QED
      BY <3>1 DEF Typed, StillTyped
  <2>3. CASE p = [o EXCEPT !.copy = m, !.at = "save"]
    <3>1. p \in Doing /\ OpOK(p, h)
      BY <2>1, <2>3 DEF Doing, OpOK, Stage, Late, Typed
    <3>. QED
      BY <3>1 DEF Typed, StillTyped
  <2>. QED
    BY <1>2, <2>2, <2>3 DEF ReadStep
<1>. QED
  BY <1>1, <1>2

LEMMA PostTyped ==
    ASSUME NEW o, NEW p, NEW m, NEW h, Typed(o, m, h), PostStep(o, p)
    PROVE  StillTyped(p, m, h, h)
<1>1. CASE p = None
  BY <1>1 DEF Typed, StillTyped
<1>2. CASE p # None
  <2>1. p = [o EXCEPT !.at = "undo"] /\ o \in Doing /\ OpOK(o, h) /\ o.at = "post"
    BY <1>2 DEF PostStep, Typed
  <2>2. p \in Doing /\ OpOK(p, h)
    BY <2>1 DEF Doing, OpOK, Stage, Late
  <2>. QED
    BY <2>2 DEF Typed, StillTyped
<1>. QED
  BY <1>1, <1>2

LEMMA SaveTyped ==
    ASSUME UniqueAssumption, NoneAssumption,
           NEW o, NEW p, NEW m, NEW m2, NEW h, NEW h2, Typed(o, m, h), SaveStep(o, p, m2, h, h2)
    PROVE  StillTyped(p, m2, h, h2) /\ m2 # None
<1>1. o \in Doing /\ OpOK(o, h) /\ o.at = "save" /\ h \in Seq(Field) /\ Len(h) \in Nat
  BY DEF SaveStep, Typed
<1>2. o.op # "create" => o.copy \in Meta /\ o.copy.cur \in 1..Len(h) /\ o.copy.total \in 1..Len(h)
  BY <1>1 DEF OpOK, Doing, Meta, Within
<1>3. o.val \in Field /\ o.now \in Nat
  BY <1>1 DEF Doing
<1>4. /\ m2 \in Meta /\ Within(h2, m2) /\ h2 \in Seq(Field) /\ Len(h) <= Len(h2)
  <2>1. CASE o.op = "create"
    <3>1. h2 = Put(h, 1, o.val) /\ m2 = [cur |-> 1, total |-> 1, val |-> o.val, deleted |-> FALSE, at |-> o.now]
      BY <2>1 DEF SaveStep
    <3>2. 1 \in 1..(Len(h) + 1)
      BY <1>1
    <3>3. h2 \in Seq(Field) /\ Len(h) <= Len(h2) /\ 1 <= Len(h2)
      BY <1>1, <1>3, <3>1, <3>2, PutIs
    <3>. QED
      BY <1>3, <3>1, <3>3 DEF Meta, Within
  <2>2. CASE o.op = "update"
    <3>. DEFINE n == o.copy.total + 1
    <3>1. h2 = Put(h, n, o.val) /\ m2 = [cur |-> n, total |-> n, val |-> o.val, deleted |-> FALSE, at |-> o.now]
      BY <2>2 DEF SaveStep
    <3>2. n \in 1..(Len(h) + 1)
      BY <1>1, <1>2, <2>2
    <3>3. h2 \in Seq(Field) /\ Len(h) <= Len(h2) /\ n <= Len(h2)
      BY <1>1, <1>3, <3>1, <3>2, PutIs
    <3>. HIDE DEF n
    <3>. QED
      BY <1>1, <1>3, <3>1, <3>2, <3>3 DEF Meta, Within
  <2>3. CASE o.op = "modify"
    <3>1. h2 = Put(h, o.copy.cur, o.val) /\ m2 = [o.copy EXCEPT !.val = o.val, !.at = o.now]
      BY <2>3 DEF SaveStep
    <3>5. o.copy.cur \in 1..(Len(h) + 1)
      BY <1>1, <1>2, <2>3
    <3>2. h2 \in Seq(Field) /\ Len(h) <= Len(h2)
      BY <1>1, <1>3, <3>1, <3>5, PutIs
    <3>3. Len(h2) \in Nat
      BY <3>2
    <3>4. m2 \in Meta /\ m2.cur = o.copy.cur /\ m2.total = o.copy.total
      BY <1>2, <1>3, <2>3, <3>1 DEF Meta
    <3>. QED
      BY <1>1, <1>2, <2>3, <3>2, <3>3, <3>4 DEF Within
  <2>4. CASE o.op = "switch"
    <3>1. h2 = h /\ m2 = [o.copy EXCEPT !.cur = o.rev, !.at = o.now, !.val = h[o.rev]]
      BY <2>4 DEF SaveStep
    <3>2. o.rev \in 1..Len(h) /\ h[o.rev] \in Field
      BY <1>1, <2>4 DEF OpOK
    <3>4. PICK c \in Meta, k \in Nat \ {0}, x \in Field : c = o.copy /\ k = o.rev /\ x = h[o.rev]
      BY <1>1, <1>2, <2>4, <3>2
    <3>5. m2 = [c EXCEPT !.cur = k, !.at = o.now, !.val = x]
      BY <3>1, <3>4
    <3>3. m2 \in Meta /\ m2.cur = o.rev /\ m2.total = o.copy.total
      BY <1>3, <3>4, <3>5 DEF Meta
    <3>. QED
      BY <1>1, <1>2, <2>4, <3>1, <3>2, <3>3 DEF Within
  <2>5. CASE o.op \in {"restore", "delete"}
    <3>1. PICK b \in BOOLEAN : h2 = h /\ m2 = [o.copy EXCEPT !.deleted = b, !.at = o.now]
      BY <2>5 DEF SaveStep
    <3>2. m2 \in Meta /\ m2.cur = o.copy.cur /\ m2.total = o.copy.total
      BY <1>1, <1>2, <1>3, <2>5, <3>1 DEF Meta
    <3>. QED
      BY <1>1, <1>2, <2>5, <3>1, <3>2 DEF Within
  <2>. QED
    BY <1>1, <2>1, <2>2, <2>3, <2>4, <2>5 DEF Doing, Op
<1>5. p # None => p \in Doing /\ OpOK(p, h2)
  <2>. SUFFICES ASSUME p # None PROVE p \in Doing /\ OpOK(p, h2)
    OBVIOUS
  <2>1. p = [o EXCEPT !.at = "post"] /\ o.guarded
    BY DEF SaveStep
  <2>2. p \in Doing /\ Stage(p)
    BY <1>1, <2>1 DEF Doing, Stage, OpOK, Late
  <2>3. Len(h2) \in Nat /\ Len(h) <= Len(h2)
    BY <1>4
  <2>4. \A n \in Meta \cup {None} : Within(h, n) => Within(h2, n)
    BY <1>1, <2>3 DEF Within, Meta
  <2>. QED
    BY <1>1, <2>1, <2>2, <2>3, <2>4 DEF OpOK, Doing
<1>. QED
  BY <1>4, <1>5 DEF StillTyped, NoneAssumption

LEMMA UndoTyped ==
    ASSUME NEW o, NEW p, NEW m, NEW m2, NEW h, NEW h2,
           Typed(o, m, h), UndoStep(o, p, m, m2, h, h2)
    PROVE  StillTyped(p, m2, h, h2)
<1>1. /\ o \in Doing /\ OpOK(o, h) /\ o.at = "undo" /\ h \in Seq(Field) /\ Len(h) \in Nat
      /\ p = None
  BY DEF UndoStep, Typed
<1>2. o.op \notin {"create", "restore"} =>
        /\ o.prev \in Meta /\ o.prev.cur \in 1..Len(h) /\ o.prev.total \in 1..Len(h)
        /\ o.old \in Field
  BY <1>1 DEF OpOK, Doing, Meta, Within, Stage
<1>3. h2 \in Seq(Field) /\ Len(h2) \in Nat /\ Len(h) <= Len(h2)
  <2>1. CASE o.op = "modify"
    <3>1. h2 = Put(h, o.prev.cur, o.old)
      BY <2>1 DEF UndoStep
    <3>2. o.prev.cur \in 1..(Len(h) + 1)
      BY <1>1, <1>2, <2>1
    <3>3. h2 \in Seq(Field) /\ Len(h) <= Len(h2)
      BY <1>1, <1>2, <2>1, <3>1, <3>2, PutIs
    <3>. QED
      BY <3>3
  <2>2. CASE o.op # "modify"
    BY <1>1, <2>2 DEF UndoStep
  <2>. QED
    BY <2>1, <2>2
<1>4. m2 \in Meta \cup {None} /\ Within(h, m2)
  <2>1. CASE o.op = "create"
    BY <2>1 DEF UndoStep, Within
  <2>2. CASE o.op = "restore"
    BY <1>1, <2>2 DEF UndoStep, Within, Typed, Meta
  <2>3. CASE o.op \notin {"create", "restore"}
    BY <1>1, <1>2, <2>3 DEF UndoStep, Within
  <2>. QED
    BY <2>1, <2>2, <2>3
<1>5. Within(h2, m2)
  BY <1>1, <1>3, <1>4 DEF Within, Meta
<1>. QED
  BY <1>1, <1>3, <1>4, <1>5 DEF StillTyped

-----------------------------------------------------------------------------
(* The steps on a resource that is not disturbed                             *)

LEMMA CheckWhole ==
    ASSUME NEW o, NEW p, NEW m, NEW h, Typed(o, m, h), Whole(o, m, h), Sound(m, h), CheckStep(o, p)
    PROVE  StillWhole(p, m, h)
<1>. SUFFICES ASSUME p # None PROVE Whole(p, m, h)
  BY DEF StillWhole
<1>. DEFINE a == CASE o.op = "create" -> "save" [] o.op \in {"update", "switch"} -> "snap"
                   [] OTHER -> "read"
<1>1. p = [o EXCEPT !.guarded = TRUE, !.at = a] /\ o \in Doing /\ o.at = "check" /\ Stage(o)
  BY DEF CheckStep, Typed, OpOK
<1>2. /\ a \in {"save", "snap", "read"} /\ (a = "save" => o.op = "create")
  OBVIOUS
<1>. HIDE DEF a
<1>3. /\ p = [o EXCEPT !.guarded = TRUE, !.at = p.at]
      /\ p.at = a /\ p.guarded = TRUE /\ p.op = o.op /\ p.orig = o.orig /\ p.was = o.was
      /\ p.val = o.val /\ p.prev = o.prev /\ p.old = o.old /\ p.copy = o.copy /\ p.rev = o.rev
  BY <1>1 DEF Doing
<1>4. Found(p, m, h)
  BY <1>1, <1>2, <1>3 DEF Whole, Found, Early
<1>5. Keeps(p, h)
  BY <1>1, <1>2, <1>3 DEF Whole, Keeps
<1>6. Made(p, m)
  BY <1>2, <1>3 DEF Made, Late
<1>. QED
  BY <1>4, <1>5, <1>6 DEF Whole

LEMMA SnapWhole ==
    ASSUME NEW o, NEW p, NEW m, NEW h,
           Typed(o, m, h), Whole(o, m, h), Sound(m, h), SnapStep(o, p, m, h)
    PROVE  StillWhole(p, m, h)
<1>. SUFFICES ASSUME p # None PROVE Whole(p, m, h)
  BY DEF StillWhole
<1>. DEFINE a == IF \/ o.op = "modify" /\ h[m.cur] # o.val
                    \/ o.op = "restore" /\ m.deleted
                 THEN "check" ELSE "read"
            v == IF o.op = "restore" THEN h[m.cur] ELSE o.val
<1>1. /\ p = [o EXCEPT !.prev = m, !.old = h[m.cur], !.val = v, !.at = a]
      /\ o \in Doing /\ o.at = "snap" /\ m # None /\ m \in Meta /\ Stage(o)
  BY DEF SnapStep, Typed, OpOK
<1>2. m = o.orig /\ h[m.cur] = o.was
  BY <1>1 DEF Whole, Found, Early
<1>3. /\ a \in {"check", "read"}
      /\ o.op = "restore" => v = o.was /\ (a = "check" <=> m.deleted)
      /\ o.op = "modify" /\ a = "read" => o.val = o.was
      /\ o.op # "restore" => v = o.val
  BY <1>1, <1>2
<1>. HIDE DEF a, v
<1>4. /\ p.at = a /\ p.guarded = o.guarded /\ p.op = o.op /\ p.orig = o.orig /\ p.was = o.was
      /\ p.val = v /\ p.prev = m /\ p.old = h[m.cur] /\ p.copy = o.copy /\ p.rev = o.rev
  BY <1>1 DEF Doing
<1>5. Found(p, m, h)
  BY <1>1, <1>2, <1>3, <1>4 DEF Whole, Found, Early
<1>6. Keeps(p, h)
  BY <1>1, <1>2, <1>3, <1>4 DEF Whole, Keeps, Stage, Late
<1>7. Made(p, m)
  BY <1>3, <1>4 DEF Made, Late
<1>. QED
  BY <1>5, <1>6, <1>7 DEF Whole

LEMMA ReadWhole ==
    ASSUME NEW o, NEW p, NEW m, NEW h,
           Typed(o, m, h), Whole(o, m, h), Sound(m, h), ReadStep(o, p, m, h)
    PROVE  StillWhole(p, m, h)
<1>. SUFFICES ASSUME p # None PROVE Whole(p, m, h)
  BY DEF StillWhole
<1>1. /\ o \in Doing /\ o.at = "read" /\ m # None /\ m \in Meta /\ Stage(o)
      /\ o.op # "restore" => ~m.deleted
  BY DEF ReadStep, Typed, OpOK
<1>2. m = o.orig /\ o.op # "create" /\ h[m.cur] = o.was /\ o.was = m.val
  BY <1>1 DEF Whole, Found, Early, Stage, Late
<1>3. CASE Same(o, m, h) /\ o.guarded /\ p = [o EXCEPT !.at = "post"]
  <2>1. /\ p.at = "post" /\ p.guarded = o.guarded /\ p.op = o.op /\ p.orig = o.orig
        /\ p.was = o.was /\ p.val = o.val /\ p.prev = o.prev /\ p.old = o.old
        /\ p.copy = o.copy /\ p.rev = o.rev
    BY <1>1, <1>3 DEF Doing
  <2>2. o.op # "restore"
    BY <1>1, <1>2, <1>3 DEF Whole, Keeps, Stage, Same, Late
  <2>3. m.val = o.val /\ o.op # "delete"
    BY <1>1, <1>2, <1>3, <2>2 DEF Same, Whole, Keeps
  <2>4. Found(p, m, h) /\ Keeps(p, h)
    BY <1>1, <1>2, <2>1, <2>2, <2>3 DEF Whole, Found, Keeps, Early
  <2>5. Made(p, m)
    BY <1>1, <1>2, <2>1, <2>2, <2>3 DEF Made, Alive
  <2>. QED
    BY <2>4, <2>5 DEF Whole
<1>4. CASE ~(o.op \in {"switch", "restore"} /\ Same(o, m, h)) /\ p = [o EXCEPT !.copy = m, !.at = "save"]
  <2>1. /\ p.at = "save" /\ p.guarded = o.guarded /\ p.op = o.op /\ p.orig = o.orig
        /\ p.was = o.was /\ p.val = o.val /\ p.prev = o.prev /\ p.old = o.old
        /\ p.copy = m /\ p.rev = o.rev
    BY <1>1, <1>4 DEF Doing
  <2>2. o.op = "restore" => o.guarded
    BY <1>1, <1>2, <1>4 DEF Whole, Keeps, Stage, Same, Late
  <2>3. Found(p, m, h)
    BY <1>1, <1>2, <2>1 DEF Whole, Found, Early
  <2>4. Keeps(p, h)
    BY <1>1, <1>2, <2>1, <2>2 DEF Whole, Keeps
  <2>5. Made(p, m)
    BY <2>1 DEF Made, Late
  <2>. QED
    BY <2>3, <2>4, <2>5 DEF Whole
<1>. QED
  BY <1>3, <1>4 DEF ReadStep

LEMMA PostWhole ==
    ASSUME NEW o, NEW p, NEW m, NEW h, Typed(o, m, h), Whole(o, m, h), Sound(m, h), PostStep(o, p)
    PROVE  StillWhole(p, m, h)
<1>. SUFFICES ASSUME p # None PROVE Whole(p, m, h)
  BY DEF StillWhole
<1>1. p = [o EXCEPT !.at = "undo"] /\ o \in Doing /\ o.at = "post"
  BY DEF PostStep, Typed
<1>2. /\ p.at = "undo" /\ p.guarded = o.guarded /\ p.op = o.op /\ p.orig = o.orig
      /\ p.was = o.was /\ p.val = o.val /\ p.prev = o.prev /\ p.old = o.old
      /\ p.copy = o.copy /\ p.rev = o.rev
  BY <1>1 DEF Doing
<1>3. Found(p, m, h)
  BY <1>1, <1>2 DEF Whole, Found, Early
<1>4. Keeps(p, h)
  BY <1>1, <1>2 DEF Whole, Keeps
<1>5. Made(p, m)
  BY <1>1, <1>2 DEF Whole, Made, Late
<1>. QED
  BY <1>3, <1>4, <1>5 DEF Whole

LEMMA SaveWhole ==
    ASSUME NEW o, NEW p, NEW m, NEW m2, NEW h, NEW h2,
           Typed(o, m, h), Whole(o, m, h), Sound(m, h), SaveStep(o, p, m2, h, h2), m2 # None
    PROVE  StillWhole(p, m2, h2)
<1>1. /\ o \in Doing /\ o.at = "save" /\ Stage(o) /\ h \in Seq(Field) /\ Len(h) \in Nat
      /\ o.val \in Field /\ m = o.orig /\ Within(h, m)
  BY DEF SaveStep, Typed, OpOK, Doing, Whole, Found, Early
<1>2. o.op # "create" =>
        /\ o.copy = m /\ m \in Meta /\ m.cur \in 1..Len(h) /\ m.total \in 1..Len(h)
        /\ m.cur <= m.total /\ h[m.cur] = o.was /\ m.val = o.was
  BY <1>1 DEF Whole, Keeps, Found, Early, Typed, OpOK, Within, Meta, Doing
<1>3. o.op \notin {"create", "restore"} => ~m.deleted
  BY <1>1 DEF Whole, Keeps
<1>4. /\ m2.cur <= m2.total /\ h2[m2.cur] = m2.val
      /\ o.op # "delete" => ~m2.deleted /\ m2.val = o.val
      /\ o.op \notin {"create", "modify"} => h2[m.cur] = o.was
      /\ o.op = "switch" => h2 = h
      /\ o.op = "restore" => m2 = [m EXCEPT !.deleted = FALSE, !.at = m2.at]
  <2>1. CASE o.op = "create"
    <3>1. h2 = Put(h, 1, o.val) /\ m2 = [cur |-> 1, total |-> 1, val |-> o.val, deleted |-> FALSE, at |-> o.now]
      BY <2>1 DEF SaveStep
    <3>2. 1 \in 1..(Len(h) + 1)
      BY <1>1
    <3>3. h2[1] = o.val
      BY <1>1, <3>1, <3>2, PutIs
    <3>. QED
      BY <2>1, <3>1, <3>3
  <2>2. CASE o.op = "update"
    <3>1. PICK n \in Nat : n = m.total + 1
      BY <1>2, <2>2
    <3>2. /\ h2 = Put(h, n, o.val)
          /\ m2 = [cur |-> n, total |-> n, val |-> o.val, deleted |-> FALSE, at |-> o.now]
      BY <1>2, <2>2, <3>1 DEF SaveStep
    <3>3. n \in 1..(Len(h) + 1) /\ m.cur # n /\ m.cur \in 1..Len(h)
      BY <1>1, <1>2, <2>2, <3>1
    <3>4. h2[n] = o.val /\ h2[m.cur] = h[m.cur]
      BY <1>1, <3>2, <3>3, PutIs
    <3>. QED
      BY <1>2, <2>2, <3>2, <3>4
  <2>3. CASE o.op = "modify"
    <3>1. h2 = Put(h, m.cur, o.val) /\ m2 = [m EXCEPT !.val = o.val, !.at = o.now]
      BY <1>2, <2>3 DEF SaveStep
    <3>2. m.cur \in 1..(Len(h) + 1)
      BY <1>1, <1>2, <2>3
    <3>3. h2[m.cur] = o.val
      BY <1>1, <3>1, <3>2, PutIs
    <3>4. m2.cur = m.cur /\ m2.total = m.total /\ m2.val = o.val /\ m2.deleted = m.deleted
      BY <1>2, <2>3, <3>1 DEF Meta
    <3>. QED
      BY <1>2, <1>3, <2>3, <3>3, <3>4
  <2>4. CASE o.op = "switch"
    <3>1. h2 = h /\ m2 = [m EXCEPT !.cur = o.rev, !.at = o.now, !.val = h[o.rev]]
      BY <1>2, <2>4 DEF SaveStep
    <3>2. o.rev <= m.total /\ h[o.rev] = o.val
      BY <1>1, <1>2, <2>4, NoneAssumption DEF Whole, Keeps
    <3>3. m2.cur = o.rev /\ m2.total = m.total /\ m2.val = h[o.rev] /\ m2.deleted = m.deleted
      BY <1>2, <2>4, <3>1 DEF Meta
    <3>. QED
      BY <1>2, <1>3, <2>4, <3>1, <3>2, <3>3
  <2>5. CASE o.op = "restore"
    <3>1. h2 = h /\ m2 = [m EXCEPT !.deleted = FALSE, !.at = o.now]
      BY <1>2, <2>5 DEF SaveStep
    <3>2. o.val = o.was
      BY <1>1, <2>5 DEF Whole, Keeps, Stage, Late
    <3>3. /\ m2.cur = m.cur /\ m2.total = m.total /\ m2.val = m.val /\ ~m2.deleted
          /\ m2 = [m EXCEPT !.deleted = FALSE, !.at = m2.at]
      BY <1>2, <2>5, <3>1 DEF Meta
    <3>. QED
      BY <1>2, <2>5, <3>1, <3>2, <3>3
  <2>6. CASE o.op = "delete"
    <3>1. h2 = h /\ m2 = [m EXCEPT !.deleted = TRUE, !.at = o.now]
      BY <1>2, <2>6 DEF SaveStep
    <3>2. m2.cur = m.cur /\ m2.total = m.total /\ m2.val = m.val
      BY <1>2, <2>6, <3>1 DEF Meta
    <3>. QED
      BY <1>2, <2>6, <3>1, <3>2
  <2>. QED
    BY <1>1, <2>1, <2>2, <2>3, <2>4, <2>5, <2>6 DEF Doing, Op
<1>5. Sound(m2, h2)
  BY <1>4 DEF Sound
<1>6. ASSUME p # None PROVE Whole(p, m2, h2)
  <2>1. p = [o EXCEPT !.at = "post"] /\ o.guarded /\ o.op # "delete"
    BY <1>1, <1>6 DEF SaveStep, Stage
  <2>2. /\ p.at = "post" /\ p.guarded = o.guarded /\ p.op = o.op /\ p.orig = o.orig
        /\ p.was = o.was /\ p.val = o.val /\ p.prev = o.prev /\ p.old = o.old
        /\ p.copy = o.copy /\ p.rev = o.rev
    BY <1>1, <2>1 DEF Doing
  <2>3. Found(p, m2, h2)
    BY <1>1, <1>2, <1>4, <2>2 DEF Whole, Found, Early
  <2>4. Keeps(p, h2)
    BY <1>1, <1>4, <2>2 DEF Whole, Keeps
  <2>5. Made(p, m2)
    BY <1>1, <1>2, <1>3, <1>4, <2>1, <2>2, NoneAssumption DEF Made, Alive
  <2>. QED
    BY <2>3, <2>4, <2>5 DEF Whole
<1>. QED
  BY <1>5, <1>6 DEF StillWhole

(* An operation that is undone leaves what it found.                         *)
LEMMA UndoWhole ==
    ASSUME NEW o, NEW p, NEW m, NEW m2, NEW h, NEW h2,
           Typed(o, m, h), Whole(o, m, h), Sound(m, h), UndoStep(o, p, m, m2, h, h2)
    PROVE  /\ StillWhole(p, m2, h2)
           /\ IF o.orig = None THEN m2 = None
              ELSE /\ m2 # None /\ m2 = [o.orig EXCEPT !.at = m2.at]
                   /\ h2[m2.cur] = o.was
                   /\ o.op \notin {"create", "restore"} => m2 = o.orig
           /\ Alive(m2) => o.op \notin {"create", "restore"} /\ Alive(o.orig) /\ m2.val = o.was
<1>1. /\ o \in Doing /\ o.at = "undo" /\ Stage(o) /\ h \in Seq(Field) /\ Len(h) \in Nat
      /\ p = None /\ OpOK(o, h)
  BY DEF UndoStep, Typed, OpOK
<1>2. CASE o.op = "create"
  <2>1. o.orig = None /\ m2 = None /\ h2 = h
    BY <1>2 DEF UndoStep, Whole, Found
  <2>. QED
    BY <1>1, <2>1 DEF StillWhole, Sound, Alive
<1>3. CASE o.op = "restore"
  <2>1. /\ o.prev = o.orig /\ o.orig # None /\ o.orig \in Meta /\ o.orig.deleted
        /\ o.was = o.orig.val /\ o.orig.cur <= o.orig.total /\ h[o.orig.cur] = o.was
    BY <1>1, <1>3 DEF Whole, Keeps, Found, Stage, Late, Doing
  <2>2. m \in Meta /\ m # None /\ m = [o.orig EXCEPT !.deleted = FALSE, !.at = m.at]
    BY <1>1, <1>3 DEF Whole, Made, Late, Alive, Typed
  <2>3. h2 = h /\ m2 = [m EXCEPT !.deleted = TRUE]
    BY <1>3, <2>2 DEF UndoStep
  <2>4. /\ m2.cur = o.orig.cur /\ m2.total = o.orig.total /\ m2.val = o.orig.val /\ m2.deleted
        /\ m2 = [o.orig EXCEPT !.at = m2.at] /\ m2 \in Meta
    BY <2>1, <2>2, <2>3 DEF Meta
  <2>5. m2 # None
    BY <2>4, NoneAssumption
  <2>. QED
    BY <1>1, <1>3, <2>1, <2>3, <2>4, <2>5 DEF StillWhole, Sound, Alive
<1>4. CASE o.op \notin {"create", "restore"}
  <2>1. /\ o.prev = o.orig /\ o.orig # None /\ o.orig \in Meta /\ ~o.orig.deleted
        /\ o.was = o.orig.val /\ o.orig.cur <= o.orig.total /\ o.old = o.was /\ o.was \in Field
        /\ m2 = o.orig /\ o.orig.cur \in 1..Len(h)
        /\ o.op # "modify" => h[o.orig.cur] = o.was
    BY <1>1, <1>4 DEF Whole, Keeps, Found, Made, Stage, Late, Doing, Alive, UndoStep, OpOK, Within, Meta
  <2>2. h2[o.orig.cur] = o.was
    <3>1. CASE o.op = "modify"
      <4>1. h2 = Put(h, o.orig.cur, o.was) /\ o.orig.cur \in 1..(Len(h) + 1)
        BY <1>1, <2>1, <3>1 DEF UndoStep
      <4>. QED
        BY <1>1, <2>1, <4>1, PutIs
    <3>2. CASE o.op # "modify"
      BY <2>1, <3>2 DEF UndoStep
    <3>. QED
      BY <3>1, <3>2
  <2>3. m2 = [o.orig EXCEPT !.at = m2.at]
    BY <2>1 DEF Meta
  <2>. QED
    BY <1>1, <1>4, <2>1, <2>2, <2>3 DEF StillWhole, Sound, Alive
<1>. QED
  BY <1>2, <1>3, <1>4

-----------------------------------------------------------------------------
(* The actions are those steps, each on the resource of the operation.       *)

Turn(w, r, p, m2, h2) ==
    /\ writer' = [writer EXCEPT ![w] = p]
    /\ meta' = [meta EXCEPT ![r] = m2]
    /\ hist' = [hist EXCEPT ![r] = h2]

Step(o, p, m, m2, h, h2) ==
    \/ m2 = m /\ h2 = h /\ (CheckStep(o, p) \/ SnapStep(o, p, m, h)
                            \/ ReadStep(o, p, m, h) \/ PostStep(o, p))
    \/ SaveStep(o, p, m2, h, h2)
    \/ UndoStep(o, p, m, m2, h, h2)

LEMMA Types ==
    ASSUME TypeInv, NoneAssumption
    PROVE  /\ meta \in [Res -> Meta \cup {None}] /\ hist \in [Res -> Seq(Field)]
           /\ writer \in [Writer -> Doing \cup {None}] /\ clock \in Nat
           /\ \A r \in Res : Within(hist[r], meta[r])
           /\ \A w \in Writer : Active(w) =>
                /\ writer[w] \in Doing /\ writer[w].res \in Res
                /\ Typed(writer[w], meta[writer[w].res], hist[writer[w].res])
  BY DEF TypeInv, TypeOK, Within, Typed, Active, Doing

LEMMA CheckTurn ==
    ASSUME TypeInv, NoneAssumption, NEW w \in Writer, Check(w)
    PROVE  LET o == writer[w]
               r == o.res
           IN \E p : /\ Active(w) /\ CheckStep(o, p) /\ Turn(w, r, p, meta[r], hist[r])
                     /\ p # None => ~Conflict(o.val, IF o.op = "create" THEN None ELSE r)
<1>. DEFINE o == writer[w]
            r == o.res
            self == IF o.op = "create" THEN None ELSE r
            a == CASE o.op = "create" -> "save" [] o.op \in {"update", "switch"} -> "snap"
                   [] OTHER -> "read"
<1>1. Active(w) /\ o.at = "check" /\ meta' = meta /\ hist' = hist
  BY DEF Check, Active
<1>2. o \in Doing /\ r \in Res /\ meta' = [meta EXCEPT ![r] = meta[r]] /\ hist' = [hist EXCEPT ![r] = hist[r]]
  BY <1>1, Types
<1>3. CASE Conflict(o.val, self)
  <2>1. writer' = [writer EXCEPT ![w] = None]
    BY <1>3 DEF Check, Done
  <2>. QED
    BY <1>1, <1>2, <2>1 DEF CheckStep, Turn
<1>4. CASE ~Conflict(o.val, self)
  <2>. DEFINE p == [o EXCEPT !.guarded = TRUE, !.at = a]
  <2>1. writer' = [writer EXCEPT ![w].guarded = TRUE, ![w].at = a]
    BY <1>4 DEF Check
  <2>. HIDE DEF a
  <2>2. writer' = [writer EXCEPT ![w] = p]
    BY <1>2, <2>1, Types
  <2>. USE DEF a
  <2>3. CheckStep(o, p)
    BY <1>1 DEF CheckStep
  <2>. QED
    BY <1>1, <1>2, <1>4, <2>2, <2>3 DEF Turn
<1>. QED
  BY <1>3, <1>4

LEMMA SnapTurn ==
    ASSUME TypeInv, NoneAssumption, NEW w \in Writer, Snapshot(w)
    PROVE  LET o == writer[w]
               r == o.res
           IN \E p : /\ Active(w) /\ SnapStep(o, p, meta[r], hist[r])
                     /\ Turn(w, r, p, meta[r], hist[r])
<1>. DEFINE o == writer[w]
            r == o.res
            m == meta[r]
            h == hist[r]
            a == IF \/ o.op = "modify" /\ h[m.cur] # o.val
                    \/ o.op = "restore" /\ m.deleted
                 THEN "check" ELSE "read"
            v == IF o.op = "restore" THEN h[m.cur] ELSE o.val
            p == [o EXCEPT !.prev = m, !.old = h[m.cur], !.val = v, !.at = a]
<1>1. Active(w) /\ o.at = "snap" /\ meta' = meta /\ hist' = hist
  BY DEF Snapshot, Active
<1>2. o \in Doing /\ r \in Res /\ meta' = [meta EXCEPT ![r] = m] /\ hist' = [hist EXCEPT ![r] = h]
  BY <1>1, Types
<1>3. CASE ~Readable(o)
  <2>1. writer' = [writer EXCEPT ![w] = None]
    BY <1>3 DEF Snapshot, Done
  <2>. QED
    BY <1>1, <1>2, <2>1 DEF SnapStep, Turn
<1>4. CASE Readable(o)
  <2>1. writer' = [writer EXCEPT ![w].prev = m, ![w].old = h[m.cur], ![w].val = v, ![w].at = a]
    BY <1>2, <1>4, Types DEF Snapshot, Checked, Content
  <2>2. m # None /\ (o.op # "restore" => ~m.deleted)
    BY <1>4 DEF Readable, Live
  <2>3. SnapStep(o, p, m, h)
    BY <1>1, <1>2, <2>2 DEF SnapStep, Doing
  <2>. HIDE DEF a, v, m, h
  <2>4. writer' = [writer EXCEPT ![w] = p]
    BY <1>2, <2>1, Types
  <2>. QED
    BY <1>1, <1>2, <2>3, <2>4 DEF Turn, m, h
<1>. QED
  BY <1>3, <1>4

LEMMA ReadTurn ==
    ASSUME TypeInv, NoneAssumption, NEW w \in Writer, Read(w)
    PROVE  LET o == writer[w]
               r == o.res
           IN \E p : /\ Active(w) /\ ReadStep(o, p, meta[r], hist[r])
                     /\ Turn(w, r, p, meta[r], hist[r])
<1>. DEFINE o == writer[w]
            r == o.res
            m == meta[r]
            h == hist[r]
<1>1. Active(w) /\ o.at = "read" /\ meta' = meta /\ hist' = hist
  BY DEF Read, Active
<1>2. o \in Doing /\ r \in Res /\ meta' = [meta EXCEPT ![r] = m] /\ hist' = [hist EXCEPT ![r] = h]
  BY <1>1, Types
<1>3. CASE Done(w)
  <2>1. writer' = [writer EXCEPT ![w] = None]
    BY <1>3 DEF Done
  <2>. QED
    BY <1>1, <1>2, <2>1 DEF ReadStep, Turn
<1>4. CASE Readable(o) /\ MayBeDone(o) /\ o.guarded /\ Goto(w, "post")
  <2>1. m # None /\ (o.op # "restore" => ~m.deleted)
    BY <1>4 DEF Readable, Live
  <2>2. Same(o, m, h)
    BY <1>2, <1>4 DEF MayBeDone, Same, Content, Doing, Op
  <2>3. writer' = [writer EXCEPT ![w] = [o EXCEPT !.at = "post"]]
    BY <1>2, <1>4, Types DEF Goto
  <2>. QED
    BY <1>1, <1>2, <1>4, <2>1, <2>2, <2>3 DEF ReadStep, Turn
<1>5. CASE /\ Readable(o) /\ ~MustBeDone(o)
           /\ writer' = [writer EXCEPT ![w].copy = meta[o.res], ![w].at = "save"]
  <2>1. m # None /\ (o.op # "restore" => ~m.deleted)
    BY <1>5 DEF Readable, Live
  <2>2. ~(o.op \in {"switch", "restore"} /\ Same(o, m, h))
    BY <1>2, <1>5 DEF MayBeDone, MustBeDone, Same, Content, Doing, Op
  <2>3. writer' = [writer EXCEPT ![w] = [o EXCEPT !.copy = m, !.at = "save"]]
    BY <1>2, <1>5, Types
  <2>. QED
    BY <1>1, <1>2, <2>1, <2>2, <2>3 DEF ReadStep, Turn
<1>. QED
  BY <1>3, <1>4, <1>5 DEF Read, After

LEMMA PostTurn ==
    ASSUME TypeInv, NoneAssumption, NEW w \in Writer, Post(w)
    PROVE  LET o == writer[w]
               r == o.res
           IN \E p : /\ Active(w) /\ PostStep(o, p) /\ Turn(w, r, p, meta[r], hist[r])
                     /\ p # None => Conflict(o.val, r)
<1>. DEFINE o == writer[w]
            r == o.res
<1>1. Active(w) /\ o.at = "post" /\ meta' = meta /\ hist' = hist
  BY DEF Post, Active
<1>2. o \in Doing /\ r \in Res /\ meta' = [meta EXCEPT ![r] = meta[r]] /\ hist' = [hist EXCEPT ![r] = hist[r]]
  BY <1>1, Types
<1>3. CASE Conflict(o.val, r)
  <2>1. writer' = [writer EXCEPT ![w] = [o EXCEPT !.at = "undo"]]
    BY <1>2, <1>3, Types DEF Post, Goto
  <2>. QED
    BY <1>1, <1>2, <1>3, <2>1 DEF PostStep, Turn
<1>4. CASE ~Conflict(o.val, r)
  <2>1. writer' = [writer EXCEPT ![w] = None]
    BY <1>4 DEF Post, Done
  <2>. QED
    BY <1>1, <1>2, <2>1 DEF PostStep, Turn
<1>. QED
  BY <1>3, <1>4

LEMMA SaveTurn ==
    ASSUME TypeInv, NoneAssumption, UniqueAssumption, NEW w \in Writer, Save(w)
    PROVE  LET o == writer[w]
               r == o.res
           IN /\ givenUp' = givenUp \cup Dropped(r)
              /\ \E p, m2, h2 : /\ Active(w) /\ SaveStep(o, p, m2, hist[r], h2)
                                /\ Turn(w, r, p, m2, h2)
<1>. DEFINE o == writer[w]
            r == o.res
            h == hist[r]
            m2 == Written(o)
            h2 == IF o.op \in {"create", "update", "modify"} THEN Put(h, m2.cur, o.val) ELSE h
            p == IF o.guarded THEN [o EXCEPT !.at = "post"] ELSE None
<1>1. Active(w) /\ o.at = "save"
  BY DEF Save, Active
<1>2. o \in Doing /\ r \in Res /\ OpOK(o, h) /\ o.op \in Op
  BY <1>1, Types DEF Typed, Doing
<1>3. meta' = [meta EXCEPT ![r] = m2] /\ givenUp' = givenUp \cup Dropped(r)
  BY DEF Save
<1>4. hist' = [hist EXCEPT ![r] = h2]
  BY <1>2, Types DEF Save, Stored, Put
<1>5. writer' = [writer EXCEPT ![w] = p]
  BY <1>2, Types DEF Save, After, Goto, Done
<1>6. SaveStep(o, p, m2, h, h2)
  <2>1. o.op # "create" => o.copy \in Meta
    BY <1>1, <1>2 DEF OpOK, Doing
  <2>2. CASE o.op = "create"
    BY <1>1, <2>2 DEF SaveStep, Written
  <2>3. CASE o.op = "update"
    BY <1>1, <2>3 DEF SaveStep, Written
  <2>4. CASE o.op = "modify"
    <3>1. m2 = [o.copy EXCEPT !.val = o.val, !.at = o.now]
      BY <2>4 DEF Written
    <3>2. m2.cur = o.copy.cur
      BY <2>1, <2>4, <3>1 DEF Meta
    <3>. QED
      BY <1>1, <2>4, <3>1, <3>2 DEF SaveStep
  <2>5. CASE o.op = "switch"
    <3>1. m2 = [o.copy EXCEPT !.cur = o.rev, !.at = o.now, !.val = h[o.rev]]
      BY <2>5 DEF Written
    <3>. QED
      BY <1>1, <2>5, <3>1 DEF SaveStep
  <2>6. CASE o.op = "restore"
    BY <1>1, <2>6 DEF SaveStep, Written
  <2>7. CASE o.op = "delete"
    BY <1>1, <2>7 DEF SaveStep, Written
  <2>. QED
    BY <1>2, <2>2, <2>3, <2>4, <2>5, <2>6, <2>7 DEF Op
<1>. QED
  BY <1>1, <1>3, <1>4, <1>5, <1>6 DEF Turn

LEMMA UndoTurn ==
    ASSUME TypeInv, NoneAssumption, NEW w \in Writer, Undo(w)
    PROVE  LET o == writer[w]
               r == o.res
           IN /\ givenUp' = IF r \in disturbed THEN givenUp \cup Dropped(r) ELSE givenUp
              /\ \E p, m2, h2 : /\ Active(w) /\ UndoStep(o, p, meta[r], m2, hist[r], h2)
                                /\ Turn(w, r, p, m2, h2)
<1>. DEFINE o == writer[w]
            r == o.res
            m == meta[r]
            h == hist[r]
            m2 == CASE o.op = "create" -> None
                    [] o.op = "restore" -> IF m = None THEN None ELSE [m EXCEPT !.deleted = TRUE]
                    [] OTHER -> o.prev
            h2 == IF o.op = "modify" THEN Put(h, o.prev.cur, o.old) ELSE h
<1>1. Active(w) /\ o.at = "undo"
  BY DEF Undo, Active
<1>2. o \in Doing /\ r \in Res /\ o.op \in Op
  BY <1>1, Types DEF Doing
<1>3. writer' = [writer EXCEPT ![w] = None]
  BY DEF Undo, Done
<1>4. meta' = [meta EXCEPT ![r] = m2]
  BY <1>2, Types DEF Undo
<1>5. hist' = [hist EXCEPT ![r] = h2]
  BY <1>2, Types DEF Undo, Undone, Stored, Put
<1>6. UndoStep(o, None, m, m2, h, h2)
  BY <1>1, <1>2 DEF UndoStep, Op
<1>7. givenUp' = IF r \in disturbed THEN givenUp \cup Dropped(r) ELSE givenUp
  BY DEF Undo
<1>. QED
  BY <1>1, <1>3, <1>4, <1>5, <1>6, <1>7 DEF Turn

(* What Next does with the operation of w, once it has begun.                *)
Continue(w) == Check(w) \/ Snapshot(w) \/ Read(w) \/ Save(w) \/ Post(w) \/ Undo(w)

LEMMA Continued ==
    ASSUME TypeInv, NoneAssumption, UniqueAssumption, NEW w \in Writer, Continue(w)
    PROVE  LET o == writer[w]
               r == o.res
           IN /\ Active(w) /\ UNCHANGED <<clock, raced, disturbed>>
              /\ \E p, m2, h2 : Step(o, p, meta[r], m2, hist[r], h2) /\ Turn(w, r, p, m2, h2)
<1>1. UNCHANGED <<clock, raced, disturbed>>
  BY DEF Continue, Check, Snapshot, Read, Save, Post, Undo
<1>2. CASE Check(w)
  BY <1>1, <1>2, CheckTurn DEF Step
<1>3. CASE Snapshot(w)
  BY <1>1, <1>3, SnapTurn DEF Step
<1>4. CASE Read(w)
  BY <1>1, <1>4, ReadTurn DEF Step
<1>5. CASE Save(w)
  BY <1>1, <1>5, SaveTurn DEF Step
<1>6. CASE Post(w)
  BY <1>1, <1>6, PostTurn DEF Step
<1>7. CASE Undo(w)
  BY <1>1, <1>7, UndoTurn DEF Step
<1>. QED
  BY <1>2, <1>3, <1>4, <1>5, <1>6, <1>7 DEF Continue

(* An operation o that begins at r.                                          *)
Fresh(o, r, m, h) ==
    /\ o \in Doing /\ o.res = r /\ o.at \in {"check", "snap", "read"}
    /\ ~o.guarded /\ o.prev = None /\ o.copy = None
    /\ o.orig = m /\ o.was = (IF m = None THEN o.val ELSE h[m.cur]) /\ Stage(o)
    /\ o.op = "create" => m = None
    /\ o.op = "switch" => o.rev \in 1..Len(h) /\ o.val = h[o.rev]

Begin(w, o) ==
    /\ ~Active(w) /\ o.res \in Res /\ Fresh(o, o.res, meta[o.res], hist[o.res])
    /\ writer' = [writer EXCEPT ![w] = o] /\ o.now = clock + 1 /\ clock < MaxOps
    /\ clock' = clock + 1 /\ UNCHANGED <<meta, hist, givenUp>>
    /\ raced' = raced \cup UNION {{o.was, o.val} \cap {writer[u].was, writer[u].val} : u \in Overlapping(w)}
    /\ disturbed' = IF \/ \E u \in Overlapping(w) : writer[u].res = o.res
                       \/ o.op = "switch" /\ meta[o.res] # None /\ o.rev > meta[o.res].total
                    THEN disturbed \cup {o.res} ELSE disturbed

LEMMA StartIs ==
    ASSUME TypeInv, NoneAssumption, NEW w \in Writer, NEW r \in Res, NEW op \in Op, NEW v \in Field,
           NEW rev \in Nat \cup {None}, NEW at \in {"check", "snap", "read"},
           Start(w, op, r, v, rev, at),
           \/ op \in {"create", "update", "switch"} /\ at = "check"
           \/ op \in {"modify", "restore"} /\ at = "snap"
           \/ op = "delete" /\ at = "read",
           op = "create" => meta[r] = None,
           op = "switch" => rev \in 1..Len(hist[r]) /\ v = hist[r][rev]
    PROVE  \E o : Begin(w, o)
<1>. DEFINE was == IF meta[r] = None THEN v ELSE Content(r)
            o == [op |-> op, res |-> r, val |-> v, rev |-> rev, now |-> clock + 1,
                  at |-> at, prev |-> None, old |-> None, copy |-> None,
                  guarded |-> FALSE, orig |-> meta[r], was |-> was]
<1>1. was \in Field /\ meta[r] \in Meta \cup {None} /\ clock \in Nat
  BY Types DEF Content, Within, Meta
<1>2. o \in Doing
  BY <1>1 DEF Doing
<1>3. Stage(o)
  BY DEF Stage
<1>4. Fresh(o, r, meta[r], hist[r])
  BY <1>2, <1>3 DEF Fresh, Content
<1>5. writer' = [writer EXCEPT ![w] = o]
  BY DEF Start
<1>6. o.op = op /\ o.res = r /\ o.rev = rev /\ o.was = was /\ o.val = v /\ o.now = clock + 1
  OBVIOUS
<1>7. /\ raced' = raced \cup UNION {{was, v} \cap {writer[u].was, writer[u].val} : u \in Overlapping(w)}
      /\ disturbed' = IF \/ \E u \in Overlapping(w) : writer[u].res = r
                         \/ op = "switch" /\ meta[r] # None /\ rev > meta[r].total
                      THEN disturbed \cup {r} ELSE disturbed
  BY DEF Start
<1>. HIDE DEF o, was
<1>8. Begin(w, o)
  <2>1. raced' = raced \cup UNION {{o.was, o.val} \cap {writer[u].was, writer[u].val} : u \in Overlapping(w)}
    BY <1>6, <1>7, Zenon
  <2>2. disturbed' = IF \/ \E u \in Overlapping(w) : writer[u].res = o.res
                        \/ o.op = "switch" /\ meta[o.res] # None /\ o.rev > meta[o.res].total
                     THEN disturbed \cup {o.res} ELSE disturbed
    BY <1>6, <1>7, Zenon
  <2>3. clock' = clock + 1 /\ clock < MaxOps /\ UNCHANGED <<meta, hist, givenUp>> /\ ~Active(w)
    BY DEF Start, Active
  <2>. QED
    BY <1>4, <1>5, <1>6, <2>1, <2>2, <2>3, Zenon DEF Begin
<1>. QED
  BY <1>8

(* Every step begins an operation or continues one.                          *)
LEMMA Steps ==
    ASSUME TypeInv, NoneAssumption, UniqueAssumption, [Next]_vars
    PROVE  vars' = vars \/ \E w \in Writer : Continue(w) \/ \E o : Begin(w, o)
<1>. SUFFICES ASSUME Next PROVE \E w \in Writer : Continue(w) \/ \E o : Begin(w, o)
  OBVIOUS
<1>1. PICK w \in Writer :
        \/ \E r \in Res, v \in Field :
              BeginCreate(w, r, v) \/ BeginUpdate(w, r, v) \/ BeginModify(w, r, v)
        \/ \E r \in Res, n \in 1..MaxOps : BeginSwitch(w, r, n)
        \/ \E r \in Res : BeginRestore(w, r) \/ BeginDelete(w, r)
        \/ Continue(w)
  BY DEF Next, Continue
<1>2. ASSUME NEW r \in Res, NEW v \in Field, BeginCreate(w, r, v) PROVE \E o : Begin(w, o)
  <2>1. hist[r] = <<>> /\ Start(w, "create", r, v, 1, "check")
    BY <1>2 DEF BeginCreate
  <2>2. meta[r] = None
    BY <2>1, Types DEF Within, Meta
  <2>. QED
    BY <2>1, <2>2, StartIs DEF Op
<1>3. ASSUME NEW r \in Res, NEW v \in Field, BeginUpdate(w, r, v) PROVE \E o : Begin(w, o)
  BY <1>3, StartIs DEF BeginUpdate, Op
<1>4. ASSUME NEW r \in Res, NEW v \in Field, BeginModify(w, r, v) PROVE \E o : Begin(w, o)
  BY <1>4, StartIs DEF BeginModify, Op
<1>5. ASSUME NEW r \in Res, NEW n \in 1..MaxOps, BeginSwitch(w, r, n) PROVE \E o : Begin(w, o)
  <2>1. n \in 1..Len(hist[r]) /\ Start(w, "switch", r, hist[r][n], n, "check")
    BY <1>5 DEF BeginSwitch
  <2>2. hist[r][n] \in Field /\ n \in Nat
    BY <2>1, Types
  <2>. QED
    BY <2>1, <2>2, StartIs DEF Op
<1>6. ASSUME NEW r \in Res, BeginRestore(w, r) \/ BeginDelete(w, r) PROVE \E o : Begin(w, o)
  <2>1. meta[r] # None /\ Content(r) \in Field
    BY <1>6, Types DEF BeginRestore, BeginDelete, Content, Within, Meta
  <2>. QED
    BY <1>6, <2>1, StartIs DEF BeginRestore, BeginDelete, Op
<1>. QED
  BY <1>1, <1>2, <1>3, <1>4, <1>5, <1>6

(* What a step keeps of the type.                                            *)
StepFields(o, p, m, m2) ==
    /\ p # None =>
         /\ p.res = o.res /\ p.now = o.now /\ p.orig = o.orig /\ p.was = o.was
         /\ p.prev \in {o.prev, m} /\ p.copy \in {o.copy, m}
         /\ p.guarded /\ ~o.guarded => o.at = "check" /\ p.val = o.val
         /\ p.val # o.val => o.at = "snap" /\ o.op = "restore"
    /\ m2 # None => m2.at \in {o.now} \cup (IF m = None THEN {} ELSE {m.at})
                                    \cup (IF o.prev = None THEN {} ELSE {o.prev.at})

LEMMA StepTyped ==
    ASSUME NoneAssumption, UniqueAssumption, NEW o, NEW p, NEW m, NEW m2, NEW h, NEW h2,
           Typed(o, m, h), Step(o, p, m, m2, h, h2)
    PROVE  StillTyped(p, m2, h, h2)
<1>1. CASE m2 = m /\ h2 = h /\ CheckStep(o, p)
  BY <1>1, CheckTyped
<1>2. CASE m2 = m /\ h2 = h /\ SnapStep(o, p, m, h)
  BY <1>2, SnapTyped
<1>3. CASE m2 = m /\ h2 = h /\ ReadStep(o, p, m, h)
  BY <1>3, ReadTyped
<1>4. CASE m2 = m /\ h2 = h /\ PostStep(o, p)
  BY <1>4, PostTyped
<1>5. CASE SaveStep(o, p, m2, h, h2)
  BY <1>5, SaveTyped
<1>6. CASE UndoStep(o, p, m, m2, h, h2)
  BY <1>6, UndoTyped
<1>. QED
  BY <1>1, <1>2, <1>3, <1>4, <1>5, <1>6 DEF Step

LEMMA StepFieldsKept ==
    ASSUME NoneAssumption, UniqueAssumption, NEW o, NEW p, NEW m, NEW m2, NEW h, NEW h2,
           Typed(o, m, h), Step(o, p, m, m2, h, h2)
    PROVE  StepFields(o, p, m, m2)
<1>. USE DEF StepFields
<1>0. o \in Doing /\ m \in Meta \cup {None} /\ Stage(o)
  BY DEF Typed, OpOK
<1>1. CASE m2 = m /\ h2 = h /\ CheckStep(o, p)
  <2>. DEFINE a == CASE o.op = "create" -> "save" [] o.op \in {"update", "switch"} -> "snap"
                     [] OTHER -> "read"
  <2>1. p = None \/ (p = [o EXCEPT !.guarded = TRUE, !.at = a] /\ o.at = "check")
    BY <1>1 DEF CheckStep
  <2>. HIDE DEF a
  <2>. QED
    BY <1>0, <1>1, <2>1 DEF Doing
<1>2. CASE m2 = m /\ h2 = h /\ SnapStep(o, p, m, h)
  BY ZenonT(40), <1>0, <1>2 DEF SnapStep, Doing
<1>3. CASE m2 = m /\ h2 = h /\ ReadStep(o, p, m, h)
  BY ZenonT(40), <1>0, <1>3 DEF ReadStep, Doing
<1>4. CASE m2 = m /\ h2 = h /\ PostStep(o, p)
  BY <1>0, <1>4 DEF PostStep, Doing
<1>5. CASE SaveStep(o, p, m2, h, h2)
  <2>1. p # None => p = [o EXCEPT !.at = "post"] /\ o.guarded
    BY <1>5 DEF SaveStep
  <2>2. m2.at = o.now
    <3>1. o.op # "create" => o.copy \in Meta
      BY <1>0, <1>5 DEF SaveStep, Typed, OpOK, Doing
    <3>2. CASE o.op \in {"create", "update"}
      BY <1>5, <3>2 DEF SaveStep
    <3>3. CASE o.op \notin {"create", "update"}
      <4>1. PICK c \in Meta : c = o.copy
        BY <3>1, <3>3
      <4>2. \/ m2 = [c EXCEPT !.val = o.val, !.at = o.now]
            \/ m2 = [c EXCEPT !.cur = o.rev, !.at = o.now, !.val = h[o.rev]]
            \/ m2 = [c EXCEPT !.deleted = FALSE, !.at = o.now]
            \/ m2 = [c EXCEPT !.deleted = TRUE, !.at = o.now]
        BY <1>5, <3>3, <4>1 DEF SaveStep
      <4>. QED
        BY <4>2 DEF Meta
    <3>. QED
      BY <3>2, <3>3
  <2>. QED
    BY <1>0, <2>1, <2>2 DEF Doing
<1>6. CASE UndoStep(o, p, m, m2, h, h2)
  BY <1>0, <1>6 DEF UndoStep, Doing, Meta, Stage
<1>. QED
  BY <1>1, <1>2, <1>3, <1>4, <1>5, <1>6 DEF Step

LEMMA StepWhole ==
    ASSUME NoneAssumption, UniqueAssumption, NEW o, NEW p, NEW m, NEW m2, NEW h, NEW h2,
           Typed(o, m, h), Step(o, p, m, m2, h, h2), Whole(o, m, h), Sound(m, h)
    PROVE  StillWhole(p, m2, h2)
<1>1. CASE m2 = m /\ h2 = h /\ CheckStep(o, p)
  BY <1>1, CheckWhole
<1>2. CASE m2 = m /\ h2 = h /\ SnapStep(o, p, m, h)
  BY <1>2, SnapWhole
<1>3. CASE m2 = m /\ h2 = h /\ ReadStep(o, p, m, h)
  BY <1>3, ReadWhole
<1>4. CASE m2 = m /\ h2 = h /\ PostStep(o, p)
  BY <1>4, PostWhole
<1>5. CASE SaveStep(o, p, m2, h, h2)
  BY <1>5, SaveTyped, SaveWhole
<1>6. CASE UndoStep(o, p, m, m2, h, h2)
  BY <1>6, UndoWhole
<1>. QED
  BY <1>1, <1>2, <1>3, <1>4, <1>5, <1>6 DEF Step

-----------------------------------------------------------------------------
(* The type invariant                                                        *)

LEMMA TurnTyped ==
    ASSUME TypeInv, NoneAssumption, NEW w \in Writer, NEW r \in Res, NEW p, NEW m2, NEW h2,
           Turn(w, r, p, m2, h2), StillTyped(p, m2, hist[r], h2), p # None => p.res = r,
           clock' \in 0..MaxOps, MaxOps \in Nat,
           raced' \subseteq Field, disturbed' \subseteq Res, givenUp' \subseteq Field
    PROVE  TypeInv'
<1>1. /\ meta' \in [Res -> Meta \cup {None}] /\ hist' \in [Res -> Seq(Field)]
      /\ writer' \in [Writer -> Doing \cup {None}]
  BY Types DEF Turn, StillTyped
<1>2. \A q \in Res : q # r => meta'[q] = meta[q] /\ hist'[q] = hist[q]
  BY Types DEF Turn
<1>3. meta'[r] = m2 /\ hist'[r] = h2 /\ writer'[w] = p
  BY Types DEF Turn
<1>4. \A u \in Writer : u # w => writer'[u] = writer[u]
  BY Types DEF Turn
<1>5. ASSUME NEW q \in Res, meta'[q] # None
      PROVE  meta'[q].cur <= Len(hist'[q]) /\ meta'[q].total <= Len(hist'[q])
  BY <1>2, <1>3, <1>5, Types DEF StillTyped, Within
<1>6. ASSUME NEW u \in Writer, writer'[u] # None
      PROVE  OpOK(writer'[u], hist'[writer'[u].res])
  <2>1. CASE u = w
    BY <1>3, <1>6, <2>1 DEF StillTyped
  <2>2. CASE u # w
    <3>. DEFINE o == writer[u]
    <3>1. writer'[u] = o /\ o \in Doing /\ o.res \in Res /\ OpOK(o, hist[o.res])
      BY <1>4, <1>6, <2>2, Types DEF Active, Typed
    <3>2. CASE o.res = r
      <4>1. Len(hist[r]) \in Nat /\ Len(h2) \in Nat /\ Len(hist[r]) <= Len(h2)
        BY Types DEF StillTyped
      <4>2. \A n \in Meta \cup {None} : Within(hist[r], n) => Within(h2, n)
        BY <4>1 DEF Within, Meta
      <4>. HIDE DEF o
      <4>3. OpOK(o, h2)
        BY <3>1, <3>2, <4>1, <4>2 DEF OpOK, Doing
      <4>. QED
        BY <1>3, <3>1, <3>2, <4>3
    <3>3. CASE o.res # r
      BY <1>2, <3>1, <3>3
    <3>. QED
      BY <3>2, <3>3
  <2>. QED
    BY <2>1, <2>2
<1>7. clock' \in Nat
  OBVIOUS
<1>. QED
  BY <1>1, <1>5, <1>6, <1>7 DEF TypeInv, TypeOK, Active

LEMMA GivenUpTyped ==
    ASSUME TypeInv, NoneAssumption, NEW w \in Writer, Continue(w)
    PROVE  givenUp' \subseteq Field
<1>1. givenUp \subseteq Field
  BY DEF TypeInv, TypeOK
<1>2. \A r \in Res : Dropped(r) \subseteq Field
  BY Types DEF Dropped, Live, Meta
<1>3. CASE Save(w)
  <2>1. Active(w) /\ givenUp' = givenUp \cup Dropped(writer[w].res)
    BY <1>3 DEF Save, Active
  <2>. QED
    BY <1>1, <1>2, <2>1, Types
<1>4. CASE Undo(w)
  <2>1. writer[w].res \in Res
    BY <1>4, Types DEF Undo, Active
  <2>. QED
    BY <1>1, <1>2, <1>4, <2>1, UndoTurn
<1>5. CASE Check(w) \/ Snapshot(w) \/ Read(w) \/ Post(w)
  BY <1>1, <1>5 DEF Check, Snapshot, Read, Post
<1>. QED
  BY <1>3, <1>4, <1>5 DEF Continue

LEMMA ContinueTyped ==
    ASSUME TypeInv, NoneAssumption, UniqueAssumption, NEW w \in Writer, Continue(w)
    PROVE  TypeInv'
<1>1. PICK p, m2, h2 : /\ Step(writer[w], p, meta[writer[w].res], m2, hist[writer[w].res], h2)
                       /\ Turn(w, writer[w].res, p, m2, h2)
  BY Continued
<1>2. /\ Active(w) /\ UNCHANGED <<clock, raced, disturbed>>
      /\ writer[w].res \in Res /\ Typed(writer[w], meta[writer[w].res], hist[writer[w].res])
  BY Continued, Types
<1>3. /\ StillTyped(p, m2, hist[writer[w].res], h2)
      /\ p # None => p.res = writer[w].res
  BY <1>1, <1>2, StepTyped, StepFieldsKept DEF StepFields
<1>4. /\ clock' \in 0..MaxOps /\ MaxOps \in Nat /\ raced' \subseteq Field
      /\ disturbed' \subseteq Res /\ givenUp' \subseteq Field
  BY <1>2, GivenUpTyped DEF TypeInv, TypeOK, UniqueAssumption
<1>. QED
  BY <1>1, <1>2, <1>3, <1>4, TurnTyped

LEMMA BeginTurn ==
    ASSUME TypeInv, NoneAssumption, NEW w \in Writer, NEW o, Begin(w, o)
    PROVE  Turn(w, o.res, o, meta[o.res], hist[o.res])
  BY Types DEF Turn, Begin

LEMMA BeginTyped ==
    ASSUME TypeInv, NoneAssumption, UniqueAssumption, NEW w \in Writer, NEW o, Begin(w, o)
    PROVE  TypeInv'
<1>1. o.res \in Res /\ Fresh(o, o.res, meta[o.res], hist[o.res])
  BY DEF Begin
<1>2. OpOK(o, hist[o.res])
  <2>1. Within(hist[o.res], meta[o.res])
    BY <1>1, Types
  <2>. QED
    BY <1>1, <2>1 DEF OpOK, Fresh, Within, Stage
<1>3. StillTyped(o, meta[o.res], hist[o.res], hist[o.res])
  BY <1>1, <1>2, Types DEF StillTyped, Fresh
<1>4. clock' \in 0..MaxOps /\ MaxOps \in Nat /\ givenUp' \subseteq Field /\ disturbed' \subseteq Res
  BY <1>1, Types DEF TypeInv, TypeOK, UniqueAssumption, Begin
<1>5. raced' \subseteq Field
  <2>1. raced \subseteq Field /\ {o.was, o.val} \subseteq Field
    BY <1>1 DEF TypeInv, TypeOK, Fresh, Doing
  <2>. QED
    BY <2>1 DEF Begin
<1>. QED
  BY <1>1, <1>3, <1>4, <1>5, BeginTurn, TurnTyped

-----------------------------------------------------------------------------
(* One operation at a time on a resource that is not disturbed               *)

LEMMA TurnCalm ==
    ASSUME TypeInv, CalmInv, AloneInv, NoneAssumption,
           NEW w \in Writer, NEW r \in Res, NEW p, NEW m2, NEW h2,
           Turn(w, r, p, m2, h2), disturbed \subseteq disturbed', p # None => p.res = r,
           r \notin disturbed' =>
               /\ StillWhole(p, m2, h2)
               /\ \A u \in Writer : Calm(u) /\ writer[u].res = r => u = w
    PROVE  CalmInv' /\ AloneInv'
<1>1. \A q \in Res : q # r => meta'[q] = meta[q] /\ hist'[q] = hist[q]
  BY Types DEF Turn
<1>2. meta'[r] = m2 /\ hist'[r] = h2 /\ writer'[w] = p
  BY Types DEF Turn
<1>3. \A u \in Writer : u # w => writer'[u] = writer[u]
  BY Types DEF Turn
<1>4. ASSUME NEW u \in Writer, writer'[u] # None, writer'[u].res \notin disturbed', u # w
      PROVE  Calm(u) /\ writer'[u] = writer[u] /\ writer[u].res \in Res /\ writer[u].res # r
  BY <1>3, <1>4, Types DEF Calm, Active
<1>5. ASSUME NEW q \in Res \ disturbed' PROVE Sound(meta'[q], hist'[q])
  <2>1. CASE q = r
    BY <1>2, <1>5, <2>1 DEF StillWhole
  <2>2. CASE q # r
    BY <1>1, <1>5, <2>2 DEF CalmInv
  <2>. QED
    BY <2>1, <2>2
<1>6. ASSUME NEW u \in Writer, writer'[u] # None, writer'[u].res \notin disturbed'
      PROVE  Whole(writer'[u], meta'[writer'[u].res], hist'[writer'[u].res])
  <2>1. CASE u = w
    BY <1>2, <1>6, <2>1 DEF StillWhole
  <2>2. CASE u # w
    BY <1>1, <1>4, <1>6, <2>2 DEF CalmInv
  <2>. QED
    BY <2>1, <2>2
<1>7. CalmInv'
  BY <1>5, <1>6 DEF CalmInv, Calm, Active
<1>8. ASSUME NEW u \in Writer, NEW x \in Writer, Calm(u)', Calm(x)', (writer[u].res = writer[x].res)'
      PROVE  u = x
  <2>1. /\ writer'[u] # None /\ writer'[u].res \notin disturbed'
        /\ writer'[x] # None /\ writer'[x].res = writer'[u].res
    BY <1>8 DEF Calm, Active
  <2>2. CASE u # w /\ x # w
    BY <1>4, <2>1, <2>2 DEF AloneInv
  <2>3. CASE u = w \/ x = w
    BY <1>2, <1>4, <2>1, <2>3
  <2>. QED
    BY <2>2, <2>3
<1>9. AloneInv'
  BY <1>8 DEF AloneInv
<1>. QED
  BY <1>7, <1>9

LEMMA ContinueCalm ==
    ASSUME TypeInv, CalmInv, AloneInv, NoneAssumption, UniqueAssumption,
           NEW w \in Writer, Continue(w)
    PROVE  CalmInv' /\ AloneInv'
<1>1. PICK p, m2, h2 : /\ Step(writer[w], p, meta[writer[w].res], m2, hist[writer[w].res], h2)
                       /\ Turn(w, writer[w].res, p, m2, h2)
  BY Continued
<1>2. /\ Active(w) /\ UNCHANGED <<clock, raced, disturbed>>
      /\ writer[w].res \in Res /\ Typed(writer[w], meta[writer[w].res], hist[writer[w].res])
  BY Continued, Types
<1>3. p # None => p.res = writer[w].res
  BY <1>1, <1>2, StepFieldsKept DEF StepFields
<1>4. ASSUME writer[w].res \notin disturbed'
      PROVE  /\ StillWhole(p, m2, h2)
             /\ \A u \in Writer : Calm(u) /\ writer[u].res = writer[w].res => u = w
  <2>1. Calm(w)
    BY <1>2, <1>4 DEF Calm
  <2>2. /\ Whole(writer[w], meta[writer[w].res], hist[writer[w].res])
        /\ Sound(meta[writer[w].res], hist[writer[w].res])
    BY <1>2, <2>1 DEF CalmInv, Calm
  <2>. QED
    BY <1>1, <1>2, <2>1, <2>2, StepWhole DEF AloneInv
<1>. QED
  BY <1>1, <1>2, <1>3, <1>4, TurnCalm

LEMMA BeginCalm ==
    ASSUME TypeInv, CalmInv, AloneInv, NoneAssumption, NEW w \in Writer, NEW o, Begin(w, o)
    PROVE  CalmInv' /\ AloneInv' /\ disturbed \subseteq disturbed'
<1>. DEFINE r == o.res
            m == meta[r]
            h == hist[r]
<1>1. r \in Res /\ Fresh(o, r, m, h) /\ ~Active(w)
  BY DEF Begin
<1>2. disturbed \subseteq disturbed'
  BY DEF Begin
<1>3. ASSUME r \notin disturbed'
      PROVE  /\ StillWhole(o, m, h)
             /\ \A u \in Writer : Calm(u) /\ writer[u].res = r => u = w
  <2>1. /\ \A u \in Overlapping(w) : writer[u].res # r
        /\ o.op = "switch" /\ m # None => ~(o.rev > m.total)
    BY <1>3 DEF Begin
  <2>2. r \notin disturbed
    BY <1>2, <1>3
  <2>3. \A u \in Writer : Calm(u) /\ writer[u].res = r => u = w
    BY <2>1 DEF Overlapping, Calm, Active
  <2>4. Sound(m, h)
    BY <1>1, <2>2 DEF CalmInv
  <2>5. Found(o, m, h)
    BY <1>1, <2>4 DEF Found, Fresh, Early, Sound
  <2>6. o.op = "switch" /\ o.orig # None => o.rev <= o.orig.total /\ h[o.rev] = o.val
    <3>. SUFFICES ASSUME o.op = "switch", o.orig # None
                  PROVE  o.rev <= o.orig.total /\ h[o.rev] = o.val
      OBVIOUS
    <3>1. o.rev \in Nat /\ m \in Meta /\ o.orig = m
      BY <1>1, Types DEF Fresh
    <3>. QED
      BY <1>1, <2>1, <3>1 DEF Fresh, Meta
  <2>7. Keeps(o, h)
    BY <1>1, <2>6 DEF Keeps, Fresh, Stage, Late
  <2>8. Made(o, m)
    BY <1>1 DEF Made, Fresh, Early, Late
  <2>. QED
    BY <2>3, <2>4, <2>5, <2>7, <2>8 DEF StillWhole, Whole
<1>4. Turn(w, r, o, m, h)
  BY BeginTurn
<1>. QED
  BY <1>1, <1>2, <1>3, <1>4, TurnCalm

-----------------------------------------------------------------------------
(* Races for a value                                                         *)

Pair(o) == {o.was, o.val}

(* The values an operation has to do with do not change while it runs.       *)
LEMMA StepPair ==
    ASSUME NoneAssumption, UniqueAssumption, NEW o, NEW p, NEW m, NEW m2, NEW h, NEW h2,
           Typed(o, m, h), Step(o, p, m, m2, h, h2), Whole(o, m, h), p # None
    PROVE  Pair(p) \subseteq Pair(o)
<1>1. p.was = o.was /\ (p.val # o.val => o.at = "snap" /\ o.op = "restore")
  BY StepFieldsKept DEF StepFields
<1>2. ASSUME o.at = "snap", o.op = "restore" PROVE p.val = o.was
  <2>1. o \in Doing /\ SnapStep(o, p, m, h)
    BY <1>2 DEF Step, CheckStep, ReadStep, PostStep, SaveStep, UndoStep, Typed
  <2>2. m = o.orig /\ m # None /\ h[m.cur] = o.was
    BY <1>2, <2>1 DEF Whole, Found, Early, SnapStep
  <2>. QED
    BY <1>2, <2>1, <2>2 DEF SnapStep, Doing
<1>. QED
  BY <1>1, <1>2 DEF Pair

LEMMA ContinueRace ==
    ASSUME TypeInv, CalmInv, RaceInv, NoneAssumption, UniqueAssumption,
           NEW w \in Writer, Continue(w)
    PROVE  RaceInv'
<1>1. PICK p, m2, h2 : /\ Step(writer[w], p, meta[writer[w].res], m2, hist[writer[w].res], h2)
                       /\ Turn(w, writer[w].res, p, m2, h2)
  BY Continued
<1>2. /\ Active(w) /\ UNCHANGED <<clock, raced, disturbed>>
      /\ writer[w].res \in Res /\ Typed(writer[w], meta[writer[w].res], hist[writer[w].res])
  BY Continued, Types
<1>3. writer' = [writer EXCEPT ![w] = p]
  BY <1>1 DEF Turn
<1>4. ASSUME NEW u \in Writer, writer'[u] # None, writer'[u].res \notin disturbed
      PROVE  Calm(u) /\ Pair(writer'[u]) \subseteq Pair(writer[u])
  <2>1. CASE u = w
    <3>1. writer'[u] = p
      BY <1>3, <2>1, Types
    <3>2. p # None /\ p.res = writer[w].res
      BY <1>1, <1>2, <1>4, <3>1, StepFieldsKept DEF StepFields
    <3>3. Calm(w)
      BY <1>2, <1>4, <3>1, <3>2 DEF Calm
    <3>. QED
      BY <1>1, <1>2, <2>1, <3>1, <3>2, <3>3, StepPair DEF CalmInv
  <2>2. CASE u # w
    BY <1>3, <1>4, <2>2, Types DEF Calm, Active
  <2>. QED
    BY <2>1, <2>2
<1>5. ASSUME NEW u \in Writer, NEW x \in Writer, u # x, writer'[u] # None, writer'[u].res \notin disturbed,
             writer'[x] # None, writer'[x].res \notin disturbed
      PROVE  Pair(writer'[u]) \cap Pair(writer'[x]) \subseteq raced
  <2>1. Pair(writer[u]) \cap Pair(writer[x]) \subseteq raced
    BY <1>4, <1>5 DEF RaceInv, Pair
  <2>. QED
    BY <1>4, <1>5, <2>1
<1>. QED
  BY <1>2, <1>5 DEF RaceInv, Calm, Active, Pair

LEMMA BeginRace ==
    ASSUME TypeInv, RaceInv, NoneAssumption, NEW w \in Writer, NEW o, Begin(w, o)
    PROVE  RaceInv'
<1>1. writer' = [writer EXCEPT ![w] = o] /\ disturbed \subseteq disturbed' /\ raced \subseteq raced'
  BY DEF Begin
<1>2. ASSUME NEW u \in Writer, u # w, writer'[u] # None
      PROVE  Pair(o) \cap Pair(writer'[u]) \subseteq raced'
  <2>1. writer'[u] = writer[u] /\ u \in Overlapping(w)
    BY <1>1, <1>2, Types DEF Overlapping
  <2>. QED
    BY <2>1 DEF Begin, Pair
<1>3. ASSUME NEW u \in Writer, NEW x \in Writer, u # x, writer'[u] # None, writer'[u].res \notin disturbed',
             writer'[x] # None, writer'[x].res \notin disturbed'
      PROVE  Pair(writer'[u]) \cap Pair(writer'[x]) \subseteq raced'
  <2>1. CASE u = w
    BY <1>1, <1>2, <1>3, <2>1, Types
  <2>2. CASE x = w
    BY <1>1, <1>2, <1>3, <2>2, Types
  <2>3. CASE u # w /\ x # w
    <3>1. writer'[u] = writer[u] /\ writer'[x] = writer[x] /\ Calm(u) /\ Calm(x)
      BY <1>1, <1>3, <2>3, Types DEF Calm, Active
    <3>2. Pair(writer[u]) \cap Pair(writer[x]) \subseteq raced
      BY <1>3, <3>1 DEF RaceInv, Pair
    <3>. QED
      BY <1>1, <3>1, <3>2
  <2>. QED
    BY <2>1, <2>2, <2>3
<1>. QED
  BY <1>3 DEF RaceInv, Calm, Active, Pair

-----------------------------------------------------------------------------
(* One holder                                                                *)

(* A resource that comes to hold v is that of an operation that reserves it. *)
LEMMA StepGains ==
    ASSUME NoneAssumption, UniqueAssumption, NEW o, NEW p, NEW m, NEW m2, NEW h, NEW h2, NEW v,
           Typed(o, m, h), Step(o, p, m, m2, h, h2), Whole(o, m, h), Sound(m, h),
           Alive(m2), m2.val = v
    PROVE  (Alive(m) /\ m.val = v) \/ Reserves(o, v)
<1>1. CASE m2 = m
  BY <1>1
<1>2. CASE SaveStep(o, p, m2, h, h2)
  <2>1. /\ o \in Doing /\ o.at = "save" /\ Stage(o) /\ m = o.orig
    BY <1>2 DEF SaveStep, Typed, OpOK, Whole, Found, Early
  <2>2. o.op # "create" => o.copy = m /\ m \in Meta /\ m # None /\ m.val = o.was /\ h[m.cur] = m.val
    BY <2>1, NoneAssumption DEF Whole, Keeps, Found, Early, Typed, OpOK, Doing, Sound
  <2>3. CASE o.guarded
    <3>1. m2.val = o.val
      <4>1. CASE o.op \in {"create", "update"}
        BY <1>2, <4>1 DEF SaveStep
      <4>2. CASE o.op = "modify"
        BY <1>2, <2>2, <4>2 DEF SaveStep, Meta
      <4>3. CASE o.op = "switch"
        BY <1>2, <2>2, <4>3 DEF SaveStep, Meta, Whole, Keeps, Found
      <4>4. CASE o.op = "restore"
        BY ZenonT(40), <1>2, <2>1, <2>2, <4>4 DEF SaveStep, Meta, Whole, Keeps, Stage, Late
      <4>. QED
        BY <2>1, <2>3, <4>1, <4>2, <4>3, <4>4 DEF Stage
    <3>. QED
      BY <2>3, <3>1 DEF Reserves
  <2>4. CASE ~o.guarded
    <3>1. o.op \in {"modify", "delete"}
      BY <2>1, <2>4 DEF Whole, Keeps, Stage
    <3>2. o.op = "modify"
      BY <1>2, <2>2, <3>1 DEF SaveStep, Meta, Alive
    <3>3. m2.val = o.val /\ o.val = o.was /\ ~m.deleted
      BY <1>2, <2>1, <2>2, <2>4, <3>2 DEF SaveStep, Meta, Whole, Keeps
    <3>. QED
      BY <2>2, <3>2, <3>3 DEF Alive
  <2>. QED
    BY <2>3, <2>4
<1>3. CASE UndoStep(o, p, m, m2, h, h2)
  BY <1>3, UndoWhole DEF Reserves
<1>. QED
  BY <1>1, <1>2, <1>3 DEF Step

(* A reservation is made by the check alone.                                 *)
LEMMA StepReserves ==
    ASSUME NoneAssumption, UniqueAssumption, NEW o, NEW p, NEW m, NEW m2, NEW h, NEW h2, NEW v,
           Typed(o, m, h), Step(o, p, m, m2, h, h2), p # None, Reserves(p, v)
    PROVE  Reserves(o, v) \/ (o.at = "check" /\ v = o.val)
<1>1. /\ p.orig = o.orig /\ p.was = o.was
      /\ p.guarded /\ ~o.guarded => o.at = "check" /\ p.val = o.val
      /\ p.val # o.val => o.at = "snap" /\ o.op = "restore"
  BY StepFieldsKept DEF StepFields
<1>2. o.at = "snap" /\ o.op = "restore" => ~o.guarded
  BY DEF Typed, OpOK, Stage, Late
<1>. QED
  BY <1>1, <1>2 DEF Reserves

LEMMA FirstIs ==
    ASSUME TypeInv, NoneAssumption, NEW v, Holders(v) # {}
    PROVE  First(v) \in Holders(v) /\ \A q \in Holders(v) : meta[First(v)].at <= meta[q].at
<1>. DEFINE S == {meta[r].at : r \in Holders(v)}
<1>0. \A r \in Holders(v) : r \in Res /\ meta[r] # None /\ meta[r].at \in Nat
  BY Types DEF Holders, Live, Meta
<1>1. S \subseteq Nat /\ S # {}
  BY <1>0
<1>2. PICK n \in S : \A k \in S : ~(<<k, n>> \in OpToRel(<, Nat))
  BY <1>1, NatLessThanWellFounded, WFMin
<1>3. PICK r \in Holders(v) : meta[r].at = n
  BY <1>2
<1>4. \A q \in Holders(v) : meta[r].at <= meta[q].at
  <2>. SUFFICES ASSUME NEW q \in Holders(v) PROVE meta[r].at <= meta[q].at
    OBVIOUS
  <2>1. meta[q].at \in S /\ meta[q].at \in Nat /\ n \in Nat
    BY <1>1, <1>2
  <2>2. ~(meta[q].at < n)
    BY <1>2, <2>1 DEF OpToRel
  <2>. QED
    BY <1>3, <2>1, <2>2
<1>. QED
  BY <1>3, <1>4 DEF First

LEMMA Uncontested ==
    ASSUME TypeInv, ValueInv, NoneAssumption, UniqueAssumption, NEW v \in Val \ raced,
           NEW r \in Res \ disturbed, NEW self \in {r, None}, ~Conflict(v, self)
    PROVE  Holders(v) \ disturbed \subseteq {r}
<1>1. CASE Holders(v) = {}
  BY <1>1
<1>2. CASE Holders(v) # {}
  <2>1. First(v) = self /\ First(v) \in Holders(v)
    BY <1>2, FirstIs DEF Conflict, UniqueAssumption
  <2>2. r \in Holders(v) \ disturbed
    BY <2>1 DEF Holders, UniqueAssumption
  <2>. QED
    BY <2>2 DEF ValueInv
<1>. QED
  BY <1>1, <1>2

(* The holders of v among the resources that are not disturbed, after a turn *)
(* at r.                                                                     *)
LEMMA TurnHolders ==
    ASSUME TypeInv, NoneAssumption, NEW w \in Writer, NEW r \in Res, NEW p, NEW m2, NEW h2,
           Turn(w, r, p, m2, h2), NEW v
    PROVE  /\ Holders(v)' \subseteq Holders(v) \cup {r}
           /\ \A q \in Res : q # r => (q \in Holders(v)' <=> q \in Holders(v))
           /\ r \in Holders(v)' <=> Alive(m2) /\ m2.val = v
           /\ \A q \in Res : q # r => meta'[q] = meta[q] /\ hist'[q] = hist[q]
           /\ \A u \in Writer : u # w => writer'[u] = writer[u]
           /\ writer'[w] = p /\ meta'[r] = m2 /\ hist'[r] = h2
<1>1. /\ \A q \in Res : q # r => meta'[q] = meta[q] /\ hist'[q] = hist[q]
      /\ \A u \in Writer : u # w => writer'[u] = writer[u]
      /\ writer'[w] = p /\ meta'[r] = m2 /\ hist'[r] = h2
  BY Types DEF Turn
<1>2. /\ \A q \in Res : q # r => (q \in Holders(v)' <=> q \in Holders(v))
      /\ r \in Holders(v)' <=> Alive(m2) /\ m2.val = v
      /\ Holders(v)' \subseteq Res
  BY <1>1 DEF Holders, Live, Alive
<1>. QED
  BY <1>1, <1>2

LEMMA ContinueValue ==
    ASSUME TypeInv, CalmInv, AloneInv, RaceInv, ValueInv, NoneAssumption, UniqueAssumption,
           NEW w \in Writer, Continue(w)
    PROVE  ValueInv'
<1>. DEFINE o == writer[w]
            r == o.res
            m == meta[r]
            h == hist[r]
<1>1. /\ Active(w) /\ UNCHANGED <<clock, raced, disturbed>> /\ r \in Res /\ Typed(o, m, h)
  BY Continued, Types
<1>2. PICK p, m2, h2 : /\ Step(o, p, m, m2, h, h2) /\ Turn(w, r, p, m2, h2)
                       /\ o.at = "check" /\ p # None =>
                            ~Conflict(o.val, IF o.op = "create" THEN None ELSE r)
  <2>1. CASE Check(w)
    BY <1>1, <2>1, CheckTurn DEF Step
  <2>2. CASE ~Check(w)
    BY <1>1, <2>2, Continued DEF Continue, Snapshot, Read, Save, Post, Undo
  <2>. QED
    BY <2>1, <2>2
<1>. SUFFICES ASSUME NEW v \in Val \ raced
              PROVE  /\ \A a, b \in Holders(v)' \ disturbed : a = b
                     /\ \A u \in Writer :
                          writer'[u] # None /\ writer'[u].res \notin disturbed /\ Reserves(writer'[u], v) =>
                              Holders(v)' \ disturbed \subseteq {writer'[u].res}
  BY <1>1 DEF ValueInv, Calm, Active, Reserves
<1>3. /\ Holders(v)' \subseteq Holders(v) \cup {r}
      /\ r \in Holders(v)' <=> Alive(m2) /\ m2.val = v
      /\ \A u \in Writer : u # w => writer'[u] = writer[u]
      /\ writer'[w] = p
  <2>1. r \in Res /\ Turn(w, r, p, m2, h2)
    BY <1>1, <1>2
  <2>. HIDE DEF r
  <2>. QED
    BY <2>1, TurnHolders
<1>4. p # None => p.res = r
  BY <1>1, <1>2, StepFieldsKept DEF StepFields
<1>. HIDE DEF m, h
<1>5. r \in disturbed \/ (Calm(w) /\ Whole(o, m, h) /\ Sound(m, h))
  BY <1>1 DEF Calm, CalmInv, m, h
<1>6. ASSUME r \in Holders(v)', r \notin disturbed, r \notin Holders(v)
      PROVE  Calm(w) /\ Reserves(o, v)
  <2>1. Alive(m2) /\ m2.val = v /\ Calm(w) /\ Whole(o, m, h) /\ Sound(m, h)
    BY <1>3, <1>5, <1>6
  <2>2. ~(Alive(m) /\ m.val = v)
    BY <1>1, <1>6 DEF Alive, Holders, Live, m
  <2>. QED
    BY <1>1, <1>2, <2>1, <2>2, StepGains
<1>7. \A a, b \in Holders(v)' \ disturbed : a = b
  <2>1. CASE r \in Holders(v)' /\ r \notin disturbed /\ r \notin Holders(v)
    <3>1. Holders(v) \ disturbed \subseteq {r}
      BY <1>6, <2>1 DEF ValueInv
    <3>. QED
      BY <1>3, <3>1
  <2>2. CASE ~(r \in Holders(v)' /\ r \notin disturbed /\ r \notin Holders(v))
    <3>1. Holders(v)' \ disturbed \subseteq Holders(v) \ disturbed
      BY <1>3, <2>2
    <3>. QED
      BY <3>1 DEF ValueInv
  <2>. QED
    BY <2>1, <2>2
<1>8. ASSUME NEW u \in Writer, writer'[u] # None, writer'[u].res \notin disturbed, Reserves(writer'[u], v)
      PROVE  Holders(v)' \ disturbed \subseteq {writer'[u].res}
  <2>1. CASE u = w
    <3>1. p # None /\ p.res = r /\ r \notin disturbed /\ Reserves(p, v) /\ Calm(w)
      BY <1>3, <1>4, <1>5, <1>8, <2>1
    <3>2. Reserves(o, v) \/ (o.at = "check" /\ v = o.val)
      BY <1>1, <1>2, <3>1, StepReserves DEF m, h
    <3>3. CASE Reserves(o, v)
      BY <1>3, <2>1, <3>1, <3>3 DEF ValueInv
    <3>4. CASE o.at = "check" /\ v = o.val
      <4>1. ~Conflict(v, IF o.op = "create" THEN None ELSE r)
        BY <1>2, <3>1, <3>4
      <4>2. Holders(v) \ disturbed \subseteq {r}
        BY <1>1, <3>1, <4>1, Uncontested
      <4>. QED
        BY <1>3, <2>1, <3>1, <4>2
    <3>. QED
      BY <3>2, <3>3, <3>4
  <2>2. CASE u # w
    <3>1. writer'[u] = writer[u] /\ Calm(u) /\ Reserves(writer[u], v)
      BY <1>3, <1>8, <2>2 DEF Calm, Active
    <3>2. Holders(v) \ disturbed \subseteq {writer[u].res}
      BY <3>1 DEF ValueInv
    <3>3. ~(r \in Holders(v)' /\ r \notin disturbed /\ r \notin Holders(v))
      <4>. SUFFICES ASSUME r \in Holders(v)', r \notin disturbed, r \notin Holders(v) PROVE FALSE
        OBVIOUS
      <4>1. Calm(w) /\ Reserves(o, v)
        BY <1>6
      <4>2. v \in {o.was, o.val} \cap {writer[u].was, writer[u].val}
        BY <3>1, <4>1 DEF Reserves
      <4>. QED
        BY <2>2, <3>1, <4>1, <4>2 DEF RaceInv
    <3>. QED
      BY <1>3, <3>1, <3>2, <3>3
  <2>. QED
    BY <2>1, <2>2
<1>. QED
  BY <1>7, <1>8

LEMMA BeginValue ==
    ASSUME TypeInv, CalmInv, ValueInv, NoneAssumption, UniqueAssumption,
           NEW w \in Writer, NEW o, Begin(w, o)
    PROVE  ValueInv'
<1>. DEFINE r == o.res
<1>1. /\ writer' = [writer EXCEPT ![w] = o] /\ disturbed \subseteq disturbed' /\ raced \subseteq raced'
      /\ r \in Res /\ Fresh(o, r, meta[r], hist[r]) /\ UNCHANGED <<meta, hist>>
  BY DEF Begin
<1>2. \A v : Holders(v)' = Holders(v)
  BY <1>1 DEF Holders, Live
<1>. SUFFICES ASSUME NEW v \in Val \ raced', NEW u \in Writer, writer'[u] # None,
                     writer'[u].res \notin disturbed', Reserves(writer'[u], v)
              PROVE  Holders(v) \ disturbed' \subseteq {writer'[u].res}
  <2>1. \A v \in Val \ raced' : \A a, b \in Holders(v)' \ disturbed' : a = b
    BY <1>1, <1>2 DEF ValueInv
  <2>. QED
    BY <1>2, <2>1 DEF ValueInv, Calm, Active, Reserves
<1>3. CASE u = w
  <2>1. writer'[u] = o /\ r \notin disturbed
    BY <1>1, <1>3, Types
  <2>2. v = o.was /\ Alive(meta[r]) /\ o.was = hist[r][meta[r].cur]
    BY <1>1, <2>1 DEF Reserves, Fresh, Alive
  <2>3. r \in Holders(v) \ disturbed
    BY <1>1, <2>1, <2>2 DEF CalmInv, Sound, Holders, Live, Alive
  <2>. QED
    BY <1>1, <2>1, <2>3 DEF ValueInv
<1>4. CASE u # w
  <2>1. writer'[u] = writer[u] /\ Calm(u)
    BY <1>1, <1>4, Types DEF Calm, Active
  <2>. QED
    BY <1>1, <2>1 DEF ValueInv
<1>. QED
  BY <1>3, <1>4

-----------------------------------------------------------------------------
(* Times: two resources are never updated at the same one.                   *)

LEMMA TurnStamps ==
    ASSUME TypeInv, StampInv, NoneAssumption, NEW w \in Writer, NEW r \in Res, NEW p, NEW m2, NEW h2,
           Turn(w, r, p, m2, h2), p # None => p.res = r, clock' \in {clock, clock + 1},
           \A n \in Nat : (m2 # None /\ m2.at = n) \/ (p # None /\ OpStamp(p, n)) =>
               Stamped(r, n) \/ (n = clock + 1 /\ clock' = clock + 1)
    PROVE  StampInv'
<1>1. /\ \A q \in Res : q # r => meta'[q] = meta[q]
      /\ \A u \in Writer : u # w => writer'[u] = writer[u]
      /\ writer'[w] = p /\ meta'[r] = m2 /\ clock \in Nat
  BY Types DEF Turn
<1>2. ASSUME NEW q \in Res, NEW n \in Nat, Stamped(q, n)'
      PROVE  Stamped(q, n) \/ (q = r /\ n = clock + 1 /\ clock' = clock + 1)
  <2>1. \/ meta'[q] # None /\ meta'[q].at = n
        \/ \E u \in Writer : writer'[u] # None /\ writer'[u].res = q /\ OpStamp(writer'[u], n)
    BY <1>2 DEF Stamped, Active, OpStamp
  <2>2. CASE meta'[q] # None /\ meta'[q].at = n
    BY <1>1, <2>2 DEF Stamped
  <2>3. ASSUME NEW u \in Writer, writer'[u] # None, writer'[u].res = q, OpStamp(writer'[u], n)
        PROVE  Stamped(q, n) \/ (q = r /\ n = clock + 1 /\ clock' = clock + 1)
    <3>1. CASE u = w
      BY <1>1, <2>3, <3>1
    <3>2. CASE u # w
      BY <1>1, <2>3, <3>2 DEF Stamped, Active
    <3>. QED
      BY <3>1, <3>2
  <2>. QED
    BY <2>1, <2>2, <2>3
<1>3. ASSUME NEW q \in Res, NEW n \in Nat, Stamped(q, n)'
      PROVE  n <= clock'
  <2>1. Stamped(q, n) => n <= clock
    BY DEF StampInv
  <2>. QED
    BY <1>1, <1>2, <1>3, <2>1
<1>4. ASSUME NEW q \in Res, NEW x \in Res, NEW n \in Nat, Stamped(q, n)', Stamped(x, n)'
      PROVE  q = x
  <2>1. /\ Stamped(q, n) => n <= clock
        /\ Stamped(x, n) => n <= clock
        /\ Stamped(q, n) /\ Stamped(x, n) => q = x
    BY DEF StampInv
  <2>2. Stamped(q, n) \/ (q = r /\ n = clock + 1)
    BY <1>2, <1>4
  <2>3. Stamped(x, n) \/ (x = r /\ n = clock + 1)
    BY <1>2, <1>4
  <2>. QED
    BY <1>1, <2>1, <2>2, <2>3
<1>. QED
  BY <1>3, <1>4 DEF StampInv

LEMMA ContinueStamps ==
    ASSUME TypeInv, StampInv, NoneAssumption, UniqueAssumption, NEW w \in Writer, Continue(w)
    PROVE  StampInv'
<1>. DEFINE o == writer[w]
            r == o.res
            m == meta[r]
            h == hist[r]
<1>1. /\ Active(w) /\ UNCHANGED <<clock, raced, disturbed>> /\ r \in Res /\ Typed(o, m, h)
  BY Continued, Types
<1>2. PICK p, m2, h2 : Step(o, p, m, m2, h, h2) /\ Turn(w, r, p, m2, h2)
  BY Continued
<1>3. StepFields(o, p, m, m2)
  BY <1>1, <1>2, StepFieldsKept
<1>4. \A n \in Nat : (m # None /\ m.at = n) \/ OpStamp(o, n) => Stamped(r, n)
  BY <1>1 DEF Stamped
<1>. HIDE DEF o, m, h
<1>5. \A n \in Nat : (m2 # None /\ m2.at = n) \/ (p # None /\ OpStamp(p, n)) => Stamped(r, n)
  BY <1>3, <1>4 DEF StepFields, OpStamp
<1>. QED
  BY <1>1, <1>2, <1>3, <1>5, TurnStamps DEF StepFields, o

LEMMA BeginStamps ==
    ASSUME TypeInv, StampInv, NoneAssumption, NEW w \in Writer, NEW o, Begin(w, o)
    PROVE  StampInv'
<1>. DEFINE r == o.res
<1>1. /\ r \in Res /\ Turn(w, r, o, meta[r], hist[r]) /\ clock' = clock + 1
      /\ o.now = clock + 1 /\ o.prev = None /\ o.copy = None
  BY BeginTurn DEF Begin, Fresh
<1>2. \A n \in Nat : (meta[r] # None /\ meta[r].at = n) \/ (o # None /\ OpStamp(o, n)) =>
          Stamped(r, n) \/ (n = clock + 1 /\ clock' = clock + 1)
  BY <1>1 DEF OpStamp, Stamped
<1>. QED
  BY <1>1, <1>2, TurnStamps

-----------------------------------------------------------------------------
(* Who loses, and to whom                                                    *)

LEMMA TurnClaims ==
    ASSUME TypeInv, NoneAssumption, NEW w \in Writer, NEW r \in Res, NEW p, NEW m2, NEW h2,
           Turn(w, r, p, m2, h2), disturbed' = disturbed, NEW f, NEW v
    PROVE  /\ \A u \in Writer : u # w => (Claims(u, f, v)' <=> Claims(u, f, v))
           /\ Claims(w, f, v)' <=>
                /\ p # None /\ p.res \notin disturbed /\ p.res = f /\ p.at \in Late /\ p.val = v
                /\ ~(Alive(p.orig) /\ p.was = v)
  BY TurnHolders DEF Claims, Calm, Active, Alive

LEMMA TurnWins ==
    ASSUME TypeInv, AloneInv, WinnerInv, NoneAssumption,
           NEW w \in Writer, NEW r \in Res, NEW p, NEW m2, NEW h2, Turn(w, r, p, m2, h2),
           disturbed' = disturbed, givenUp \subseteq givenUp', Active(w), writer[w].res = r,
           p # None => p.res = r /\ p.at # "undo",
           \A v \in Field : r \in Holders(v) /\ v \notin givenUp'
                            /\ ~(Claims(w, r, v) /\ writer[w].at = "undo") =>
               r \in Holders(v)' /\ ~Claims(w, r, v)'
    PROVE  WinnerInv'
<1>. SUFFICES ASSUME NEW u \in Writer, NEW q \in Res, NEW v \in Field,
                     Claims(u, q, v)', writer'[u].at = "undo", v \notin givenUp'
              PROVE  \E f \in Res : Wins(f, v, q)'
  BY DEF WinnerInv
<1>0. /\ \A x \in Writer : x # w => writer'[x] = writer[x]
      /\ \A f \in Res, x \in Writer : x # w => (Claims(x, f, v)' <=> Claims(x, f, v))
  <2>1. \A x \in Writer : x # w => writer'[x] = writer[x]
    BY Types DEF Turn
  <2>. QED
    BY <2>1, TurnClaims
<1>1. u # w
  BY TurnClaims, TurnHolders
<1>2. Claims(u, q, v) /\ writer'[u] = writer[u]
  BY <1>0, <1>1
<1>3. ASSUME NEW x \in Writer, x # w, Claims(x, r, v) PROVE FALSE
  BY <1>3 DEF Claims, Calm, AloneInv
<1>4. q # r
  BY <1>1, <1>2, <1>3
<1>5. PICK f \in Res : Wins(f, v, q)
  BY <1>2 DEF WinnerInv
<1>6. CASE f # r
  <2>1. f \in Holders(v)' /\ f # q /\ meta'[f] = meta[f] /\ meta'[q] = meta[q]
    BY <1>4, <1>5, <1>6, TurnHolders DEF Wins
  <2>2. ASSUME NEW x \in Writer, Claims(x, f, v)'
        PROVE  writer'[x].at = "post" /\ meta'[f].at < meta'[q].at
    <3>1. x # w
      BY <1>6, <2>2, TurnClaims
    <3>2. Claims(x, f, v) /\ writer'[x] = writer[x]
      BY <1>0, <2>2, <3>1
    <3>. QED
      BY <1>5, <2>1, <3>2 DEF Wins
  <2>3. Wins(f, v, q)'
    BY <2>1, <2>2 DEF Wins
  <2>. QED
    BY <2>3
<1>7. CASE f = r
  <2>1. r \in Holders(v) /\ ~(Claims(w, r, v) /\ writer[w].at = "undo")
    BY <1>5, <1>7 DEF Wins
  <2>2. r \in Holders(v)' /\ ~Claims(w, r, v)'
    BY <2>1
  <2>3. \A x \in Writer : ~Claims(x, r, v)'
    BY <1>3, <2>2, TurnClaims
  <2>4. Wins(r, v, q)'
    BY <1>4, <2>2, <2>3 DEF Wins
  <2>. QED
    BY <2>4
<1>. QED
  BY <1>6, <1>7

(* Neither the check, the snapshot nor the read makes a claim.               *)
LEMMA QuietStep ==
    ASSUME NEW o, NEW p, NEW m, NEW h, Typed(o, m, h), Whole(o, m, h), p # None,
           CheckStep(o, p) \/ SnapStep(o, p, m, h) \/ ReadStep(o, p, m, h), p.at \in Late
    PROVE  p.at = "post" /\ Alive(p.orig) /\ p.was = p.val
<1>1. o \in Doing /\ Stage(o)
  BY DEF Typed, OpOK
<1>2. ~CheckStep(o, p)
  <2>. SUFFICES ASSUME CheckStep(o, p) PROVE FALSE
    OBVIOUS
  <2>. DEFINE a == CASE o.op = "create" -> "save" [] o.op \in {"update", "switch"} -> "snap"
                     [] OTHER -> "read"
  <2>1. p = [o EXCEPT !.guarded = TRUE, !.at = a]
    BY DEF CheckStep
  <2>2. a \in {"save", "snap", "read"}
    OBVIOUS
  <2>. HIDE DEF a
  <2>. QED
    BY <1>1, <2>1, <2>2 DEF Doing, Late
<1>3. ~SnapStep(o, p, m, h)
  BY <1>1 DEF SnapStep, Doing, Late
<1>4. /\ o.at = "read" /\ m # None /\ (o.op # "restore" => ~m.deleted)
      /\ Same(o, m, h) /\ o.guarded /\ p = [o EXCEPT !.at = "post"]
  BY <1>1, <1>2, <1>3 DEF ReadStep, Doing, Late
<1>5. m = o.orig /\ o.was = m.val /\ h[m.cur] = o.was
  BY <1>4 DEF Whole, Found, Early
<1>6. ~m.deleted /\ o.val = o.was
  BY <1>1, <1>4, <1>5 DEF Same, Whole, Keeps, Stage, Late
<1>. QED
  BY <1>1, <1>4, <1>5, <1>6 DEF Doing, Alive

(* A write that loses at its second check loses to a winner.                 *)
LEMMA Beaten ==
    ASSUME TypeInv, CalmInv, StampInv, WinnerInv, NoneAssumption,
           NEW w \in Writer, NEW r \in Res, NEW v \in Field, Claims(w, r, v),
           Conflict(v, r), v \notin givenUp
    PROVE  \E f \in Res : Wins(f, v, r)
<1>1. r \in Holders(v)
  <2>1. Whole(writer[w], meta[r], hist[r]) /\ writer[w].at \in Late /\ writer[w].val = v
    BY DEF Claims, CalmInv
  <2>. QED
    BY <2>1 DEF Whole, Made, Alive, Holders, Live
<1>2. PICK g \in Res : /\ g \in Holders(v) /\ g # r
                       /\ \A q \in Holders(v) : meta[g].at <= meta[q].at
  <2>1. Holders(v) # {} /\ First(v) # r
    BY DEF Conflict
  <2>. QED
    BY <2>1, FirstIs DEF Holders
<1>3. \A q \in Holders(v) : q \in Res /\ meta[q] # None /\ meta[q].at \in Nat
  BY Types DEF Holders, Live, Meta
<1>4. meta[g].at < meta[r].at
  <2>1. meta[g].at # meta[r].at
    BY <1>1, <1>2, <1>3 DEF StampInv, Stamped
  <2>. QED
    BY <1>1, <1>2, <1>3, <2>1
<1>5. CASE \A x \in Writer : Claims(x, g, v) => writer[x].at = "post"
  BY <1>2, <1>4, <1>5 DEF Wins
<1>6. ASSUME NEW x \in Writer, Claims(x, g, v), writer[x].at # "post"
      PROVE  \E f \in Res : Wins(f, v, r)
  <2>1. PICK f \in Res : Wins(f, v, g)
    BY <1>6 DEF WinnerInv, Claims, Late
  <2>2. f \in Holders(v) /\ ~(meta[f].at < meta[g].at)
    BY <1>2, <1>3, <2>1 DEF Wins
  <2>3. \A y \in Writer : ~Claims(y, f, v)
    BY <2>1, <2>2 DEF Wins
  <2>4. f # r
    BY <2>3
  <2>5. Wins(f, v, r)
    BY <2>2, <2>3, <2>4 DEF Wins
  <2>. QED
    BY <2>5
<1>. QED
  BY <1>5, <1>6

LEMMA PostWinner ==
    ASSUME TypeInv, CalmInv, AloneInv, StampInv, WinnerInv, NoneAssumption,
           NEW w \in Writer, Post(w)
    PROVE  WinnerInv'
<1>. DEFINE o == writer[w]
            r == o.res
<1>1. PICK p : /\ Active(w) /\ PostStep(o, p) /\ Turn(w, r, p, meta[r], hist[r])
               /\ p # None => Conflict(o.val, r)
  BY PostTurn
<1>2. r \in Res /\ o \in Doing /\ disturbed' = disturbed /\ givenUp' = givenUp /\ meta' = meta
  BY <1>1, Types DEF Post
<1>3. \A v : Holders(v)' = Holders(v)
  BY <1>2 DEF Holders, Live
<1>4. CASE p = None
  <2>1. writer'[w] = None
    BY <1>1, <1>4, Types DEF Turn
  <2>2. PICK q \in Res : q = writer[w].res
    BY <1>2
  <2>3. \A v \in Field : q \in Holders(v) => q \in Holders(v)' /\ ~Claims(w, q, v)'
    BY <1>3, <2>1 DEF Claims, Calm, Active
  <2>4. /\ Turn(w, q, None, meta[q], hist[q]) /\ Active(w)
        /\ disturbed' = disturbed /\ givenUp \subseteq givenUp'
    BY <1>1, <1>2, <1>4, <2>2
  <2>. QED
    BY <2>2, <2>3, <2>4, TurnWins
<1>5. CASE p # None
  <2>1. /\ p = [o EXCEPT !.at = "undo"] /\ o.at = "post" /\ Conflict(o.val, r)
    BY <1>1, <1>5 DEF PostStep
  <2>2. /\ p.at = "undo" /\ p.res = r /\ p.val = o.val /\ p.orig = o.orig /\ p.was = o.was
    BY <1>2, <2>1 DEF Doing
  <2>3. /\ writer'[w] = p
        /\ \A u \in Writer : u # w => writer'[u] = writer[u]
    BY <1>1, Types DEF Turn
  <2>4. \A u \in Writer, f \in Res, v \in Field : Claims(u, f, v)' <=> Claims(u, f, v)
    <3>. SUFFICES ASSUME NEW u \in Writer, NEW f \in Res, NEW v \in Field
                  PROVE  Claims(u, f, v)' <=> Claims(u, f, v)
      OBVIOUS
    <3>1. CASE u # w
      BY <1>2, <2>3, <3>1 DEF Claims, Calm, Active
    <3>2. CASE u = w
      <4>1. Claims(w, f, v)' <=> /\ r \notin disturbed /\ r = f /\ o.val = v
                                 /\ ~(Alive(o.orig) /\ o.was = v)
        BY <1>2, <1>5, <2>2, <2>3 DEF Claims, Calm, Active, Late, Alive
      <4>2. Claims(w, f, v) <=> /\ r \notin disturbed /\ r = f /\ o.val = v
                                /\ ~(Alive(o.orig) /\ o.was = v)
        BY <1>1, <2>1 DEF Claims, Calm, Late
      <4>. QED
        BY <3>2, <4>1, <4>2
    <3>. QED
      BY <3>1, <3>2
  <2>5. ASSUME NEW f \in Res, NEW v \in Field, NEW q \in Res, Wins(f, v, q), f # r \/ ~Claims(w, r, v)
        PROVE  Wins(f, v, q)'
    <3>1. ASSUME NEW x \in Writer, Claims(x, f, v)
          PROVE  writer'[x].at = "post" /\ meta[f].at < meta[q].at
      <4>1. x # w
        BY <2>5, <3>1 DEF Claims
      <4>. QED
        BY <2>3, <2>5, <3>1, <4>1 DEF Wins
    <3>. QED
      BY <1>2, <1>3, <2>4, <2>5, <3>1 DEF Wins
  <2>6. ASSUME NEW v \in Field, Claims(w, r, v), v \notin givenUp
        PROVE  \E f \in Res : Wins(f, v, r) /\ f # r
    <3>1. Conflict(v, r)
      BY <2>1, <2>6 DEF Claims
    <3>2. \E f \in Res : Wins(f, v, r)
      BY <1>2, <2>6, <3>1, Beaten
    <3>. QED
      BY <3>2 DEF Wins
  <2>7. ASSUME NEW u \in Writer, NEW q \in Res, NEW v \in Field,
               Claims(u, q, v), writer'[u].at = "undo", v \notin givenUp
        PROVE  \E f \in Res : Wins(f, v, q)'
    <3>1. CASE u = w
      <4>1. q = r
        BY <2>7, <3>1 DEF Claims
      <4>. QED
        BY <1>2, <2>5, <2>6, <2>7, <3>1, <4>1
    <3>2. CASE u # w
      <4>1. writer[u].at = "undo"
        BY <2>3, <2>7, <3>2
      <4>2. PICK g \in Res : Wins(g, v, q)
        BY <2>7, <4>1 DEF WinnerInv
      <4>3. CASE g # r \/ ~Claims(w, r, v)
        BY <2>5, <4>2, <4>3
      <4>4. CASE g = r /\ Claims(w, r, v)
        <5>1. PICK f \in Res : Wins(f, v, r) /\ f # r
          BY <2>6, <2>7, <4>4
        <5>2. meta[r].at < meta[q].at
          BY <4>2, <4>4 DEF Wins
        <5>3. f # q
          BY <2>7, <4>1, <5>1 DEF Wins
        <5>4. f \in Holders(v) /\ r \in Holders(v) /\ meta[q] # None
          <6>1. meta[q] # None
            BY <2>7 DEF Claims, CalmInv, Whole, Made, Alive
          <6>. QED
            BY <4>2, <4>4, <5>1, <6>1 DEF Wins
        <5>5. meta[f].at \in Nat /\ meta[r].at \in Nat /\ meta[q].at \in Nat
          BY <5>4, Types DEF Holders, Live, Meta
        <5>6. Wins(f, v, q)
          BY <5>1, <5>2, <5>3, <5>4, <5>5 DEF Wins
        <5>. QED
          BY <2>5, <5>1, <5>6
      <4>. QED
        BY <4>3, <4>4
    <3>. QED
      BY <3>1, <3>2
  <2>. QED
    BY <1>2, <2>4, <2>7 DEF WinnerInv
<1>. QED
  BY <1>4, <1>5

LEMMA QuietWinner ==
    ASSUME TypeInv, CalmInv, AloneInv, WinnerInv, NoneAssumption, UniqueAssumption,
           NEW w \in Writer, Check(w) \/ Snapshot(w) \/ Read(w)
    PROVE  WinnerInv'
<1>1. PICK o \in Doing, r \in Res : o = writer[w] /\ r = o.res /\ Active(w) /\ Typed(o, meta[r], hist[r])
  <2>1. Active(w)
    BY DEF Check, Snapshot, Read, Active
  <2>. QED
    BY <2>1, Types
<1>2. PICK p : /\ Turn(w, r, p, meta[r], hist[r])
               /\ CheckStep(o, p) \/ SnapStep(o, p, meta[r], hist[r]) \/ ReadStep(o, p, meta[r], hist[r])
  <2>1. CASE Check(w)
    BY <1>1, <2>1, CheckTurn
  <2>2. CASE Snapshot(w)
    BY <1>1, <2>2, SnapTurn
  <2>3. CASE Read(w)
    BY <1>1, <2>3, ReadTurn
  <2>. QED
    BY <2>1, <2>2, <2>3
<1>3. disturbed' = disturbed /\ givenUp' = givenUp /\ meta' = meta
  BY DEF Check, Snapshot, Read
<1>4. p # None => p.res = r /\ p.at # "undo"
  <2>1. p # None => p.res = r
    <3>1. Step(o, p, meta[r], meta[r], hist[r], hist[r])
      BY <1>2 DEF Step
    <3>. QED
      BY <1>1, <3>1, StepFieldsKept DEF StepFields
  <2>. DEFINE a == CASE o.op = "create" -> "save" [] o.op \in {"update", "switch"} -> "snap"
                     [] OTHER -> "read"
  <2>2. a # "undo"
    OBVIOUS
  <2>3. CheckStep(o, p) /\ p # None => p = [o EXCEPT !.guarded = TRUE, !.at = a]
    BY DEF CheckStep
  <2>. HIDE DEF a
  <2>. QED
    BY <1>1, <1>2, <2>1, <2>2, <2>3 DEF SnapStep, ReadStep, Doing
<1>5. ASSUME NEW v \in Field, r \in Holders(v) PROVE r \in Holders(v)' /\ ~Claims(w, r, v)'
  <2>1. r \in Holders(v)'
    BY <1>3, <1>5 DEF Holders, Live
  <2>2. SUFFICES ASSUME Claims(w, r, v)' PROVE FALSE
    BY <2>1
  <2>3. /\ p # None /\ r \notin disturbed /\ p.at \in Late /\ p.val = v
        /\ ~(Alive(p.orig) /\ p.was = v)
    BY <1>2, <1>3, <1>4, <2>2, TurnClaims
  <2>4. Whole(o, meta[r], hist[r])
    BY <1>1, <2>3 DEF CalmInv, Calm
  <2>. QED
    BY <1>1, <1>2, <2>3, <2>4, QuietStep
<1>. QED
  BY <1>1, <1>2, <1>3, <1>4, <1>5, TurnWins

LEMMA SaveWinner ==
    ASSUME TypeInv, CalmInv, AloneInv, WinnerInv, NoneAssumption, UniqueAssumption,
           NEW w \in Writer, Save(w)
    PROVE  WinnerInv'
<1>1. PICK o \in Doing, r \in Res : o = writer[w] /\ r = o.res /\ Active(w) /\ Typed(o, meta[r], hist[r])
  <2>1. Active(w)
    BY DEF Save, Active
  <2>. QED
    BY <2>1, Types
<1>2. PICK p, m2, h2 : SaveStep(o, p, m2, hist[r], h2) /\ Turn(w, r, p, m2, h2)
  BY <1>1, SaveTurn
<1>3. disturbed' = disturbed /\ givenUp' = givenUp \cup Dropped(r)
  BY <1>1 DEF Save
<1>4. p # None => /\ p.res = r /\ p.at = "post" /\ p.orig = o.orig /\ p.was = o.was /\ p.val = o.val
  BY <1>1, <1>2 DEF SaveStep, Doing
<1>5. ASSUME NEW v \in Field, r \in Holders(v), v \notin givenUp'
      PROVE  r \in Holders(v)' /\ ~Claims(w, r, v)'
  <2>1. Alive(meta[r]) /\ meta[r].val = v
    BY <1>5 DEF Holders, Live, Alive
  <2>2. r \in Holders(v)'
    <3>1. v \notin Dropped(r)
      BY <1>3, <1>5
    <3>. QED
      BY <2>1, <3>1 DEF Dropped, Holders, Live, Alive
  <2>3. SUFFICES ASSUME Claims(w, r, v)' PROVE FALSE
    BY <2>2
  <2>4. /\ p # None /\ r \notin disturbed /\ ~(Alive(p.orig) /\ p.was = v)
    BY <1>2, <1>3, <1>4, <2>3, TurnClaims
  <2>5. meta[r] = o.orig /\ o.was = meta[r].val
    <3>1. Whole(o, meta[r], hist[r]) /\ o.at = "save"
      BY <1>1, <1>2, <2>4 DEF CalmInv, Calm, SaveStep
    <3>. QED
      BY <2>1, <3>1 DEF Whole, Found, Early, Alive
  <2>. QED
    BY <1>4, <2>1, <2>4, <2>5
<1>6. p # None => p.res = r /\ p.at # "undo"
  BY <1>4
<1>. QED
  BY <1>1, <1>2, <1>3, <1>5, <1>6, TurnWins

(* A compensation on a resource that is not disturbed puts back a value the  *)
(* resource held when the operation began, whoever turned it down.           *)
LEMMA UndoRestores ==
    ASSUME TypeInv, CalmInv, NoneAssumption, NEW w \in Writer, Calm(w),
           NEW p, NEW m2, NEW h2, NEW v,
           UndoStep(writer[w], p, meta[writer[w].res], m2, hist[writer[w].res], h2),
           Alive(writer[w].orig) /\ writer[w].was = v
    PROVE  Alive(m2) /\ m2.val = v
<1>. DEFINE o == writer[w]
            m == meta[o.res]
            h == hist[o.res]
<1>1. /\ o.res \in Res /\ Typed(o, m, h) /\ Whole(o, m, h) /\ Sound(m, h)
  BY Types DEF Calm, CalmInv
<1>2. o.orig # None /\ o.orig \in Meta /\ ~o.orig.deleted /\ o.was = o.orig.val /\ Stage(o) /\ o \in Doing
  BY <1>1 DEF Alive, Typed, OpOK, Doing, Whole, Found
<1>3. m2 # None /\ m2 = [o.orig EXCEPT !.at = m2.at]
  BY <1>1, <1>2, UndoWhole
<1>. HIDE DEF o
<1>4. m2.deleted = o.orig.deleted /\ m2.val = o.orig.val
  BY <1>2, <1>3 DEF Meta
<1>. QED
  BY <1>2, <1>3, <1>4 DEF Alive, o

LEMMA UndoWinner ==
    ASSUME TypeInv, CalmInv, AloneInv, WinnerInv, NoneAssumption, UniqueAssumption,
           NEW w \in Writer, Undo(w)
    PROVE  WinnerInv'
<1>1. PICK o \in Doing, r \in Res : o = writer[w] /\ r = o.res /\ Active(w) /\ o.at = "undo"
  BY Types DEF Undo, Active
<1>2. PICK p, m2, h2 : UndoStep(o, p, meta[r], m2, hist[r], h2) /\ Turn(w, r, p, m2, h2)
  BY <1>1, UndoTurn
<1>3. /\ disturbed' = disturbed
      /\ givenUp' = IF r \in disturbed THEN givenUp \cup Dropped(r) ELSE givenUp
  BY <1>1 DEF Undo
<1>4. p = None
  BY <1>2 DEF UndoStep
<1>5. ASSUME NEW v \in Field, r \in Holders(v), v \notin givenUp', ~(Claims(w, r, v) /\ writer[w].at = "undo")
      PROVE  r \in Holders(v)' /\ ~Claims(w, r, v)'
  <2>1. Alive(meta[r]) /\ meta[r].val = v
    BY <1>5 DEF Holders, Live, Alive
  <2>2. ~Claims(w, r, v)'
    BY <1>2, <1>3, <1>4, TurnClaims
  <2>3. CASE r \in disturbed
    <3>1. v \notin Dropped(r)
      BY <1>3, <1>5, <2>3
    <3>. QED
      BY <2>1, <2>2, <3>1 DEF Dropped, Holders, Live, Alive
  <2>4. CASE r \notin disturbed
    <3>1. Calm(w) /\ Whole(o, meta[r], hist[r])
      BY <1>1, <2>4 DEF Calm, CalmInv
    <3>2. o.val = v
      BY <1>1, <2>1, <3>1 DEF Whole, Made, Late
    <3>3. Alive(o.orig) /\ o.was = v
      BY <1>1, <1>5, <3>1, <3>2 DEF Claims, Late
    <3>4. Alive(m2) /\ m2.val = v
      BY <1>1, <1>2, <3>1, <3>3, UndoRestores
    <3>. QED
      BY <1>2, <2>2, <3>4, TurnHolders
  <2>. QED
    BY <2>3, <2>4
<1>. QED
  BY <1>1, <1>2, <1>3, <1>4, <1>5, TurnWins

LEMMA BeginWinner ==
    ASSUME TypeInv, WinnerInv, NoneAssumption, NEW w \in Writer, NEW o, Begin(w, o)
    PROVE  WinnerInv'
<1>1. /\ writer' = [writer EXCEPT ![w] = o] /\ disturbed \subseteq disturbed' /\ UNCHANGED <<meta, givenUp>>
      /\ o.at \in {"check", "snap", "read"}
  BY DEF Begin, Fresh
<1>2. \A v : Holders(v)' = Holders(v)
  BY <1>1 DEF Holders, Live
<1>3. ASSUME NEW u \in Writer, NEW r \in Res, NEW v \in Field, Claims(u, r, v)'
      PROVE  Claims(u, r, v) /\ writer'[u] = writer[u]
  <2>1. u # w
    BY <1>1, <1>3, Types DEF Claims, Late
  <2>2. writer'[u] = writer[u]
    BY <1>1, <2>1, Types
  <2>. QED
    BY <1>1, <1>3, <2>2 DEF Claims, Calm, Active
<1>4. ASSUME NEW f \in Res, NEW v \in Field, NEW r \in Res, Wins(f, v, r)
      PROVE  Wins(f, v, r)'
  BY <1>1, <1>2, <1>3, <1>4 DEF Wins
<1>. QED
  BY <1>1, <1>3, <1>4 DEF WinnerInv

-----------------------------------------------------------------------------
(* The invariants together                                                   *)

Inv == TypeInv /\ CalmInv /\ AloneInv /\ RaceInv /\ ValueInv /\ StampInv /\ WinnerInv

LEMMA InvInit ==
    ASSUME NoneAssumption, UniqueAssumption, Init
    PROVE  Inv
<1>1. /\ \A r \in Res : meta[r] = None /\ hist[r] = <<>>
      /\ \A w \in Writer : writer[w] = None
  BY DEF Init
<1>2. TypeInv
  BY <1>1 DEF Init, TypeInv, TypeOK, Active, UniqueAssumption
<1>3. CalmInv /\ AloneInv /\ RaceInv
  BY <1>1 DEF CalmInv, AloneInv, RaceInv, Calm, Active, Sound
<1>4. ValueInv
  BY <1>1 DEF ValueInv, Holders, Live, Calm, Active
<1>5. StampInv
  BY <1>1 DEF StampInv, Stamped, Active
<1>6. WinnerInv
  BY <1>1 DEF WinnerInv, Claims, Calm, Active
<1>. QED
  BY <1>2, <1>3, <1>4, <1>5, <1>6 DEF Inv

LEMMA InvNext ==
    ASSUME NoneAssumption, UniqueAssumption, Inv, [Next]_vars
    PROVE  Inv'
<1>. USE DEF Inv
<1>1. CASE vars' = vars
  <2>1. UNCHANGED <<meta, hist, writer, clock, raced, disturbed, givenUp>>
    BY <1>1 DEF vars
  <2>2. TypeInv'
    BY <2>1 DEF TypeInv, TypeOK, Active
  <2>3. CalmInv' /\ AloneInv' /\ RaceInv'
    BY <2>1 DEF CalmInv, AloneInv, RaceInv, Calm, Active
  <2>4. ValueInv'
    BY <2>1 DEF ValueInv, Holders, Live, Calm, Active
  <2>5. StampInv'
    BY <2>1 DEF StampInv, Stamped, Active
  <2>6. WinnerInv'
    BY <2>1 DEF WinnerInv, Wins, Claims, Calm, Active, Holders, Live
  <2>. QED
    BY <2>2, <2>3, <2>4, <2>5, <2>6
<1>2. ASSUME NEW w \in Writer, Continue(w) PROVE Inv'
  <2>1. TypeInv' /\ CalmInv' /\ AloneInv' /\ RaceInv' /\ ValueInv' /\ StampInv'
    BY <1>2, ContinueTyped, ContinueCalm, ContinueRace, ContinueValue, ContinueStamps
  <2>2. WinnerInv'
    BY <1>2, QuietWinner, SaveWinner, PostWinner, UndoWinner DEF Continue
  <2>. QED
    BY <2>1, <2>2
<1>3. ASSUME NEW w \in Writer, NEW o, Begin(w, o) PROVE Inv'
  BY <1>3, BeginTyped, BeginCalm, BeginRace, BeginValue, BeginStamps, BeginWinner
<1>. QED
  BY <1>1, <1>2, <1>3, Steps

LEMMA Invariant == Spec => []Inv
<1>1. Init => Inv
  BY InvInit, NoneAssumption, UniqueAssumption
<1>2. Inv /\ [Next]_vars => Inv'
  BY InvNext, NoneAssumption, UniqueAssumption
<1>. QED
  BY <1>1, <1>2, PTL DEF Spec

-----------------------------------------------------------------------------
(* What the handler guarantees                                               *)

(* The metadata never points beyond the revisions, whatever operations       *)
(* overlap: a compensation puts back metadata whose revisions are still      *)
(* there.                                                                    *)
THEOREM TypeCorrect == Spec => []TypeOK
<1>1. Inv => TypeOK
  BY DEF Inv, TypeInv
<1>. QED
  BY <1>1, Invariant, PTL

(* The two checks around a write keep a value with one live resource, unless *)
(* operations on that value, or on one of the resources, overlapped: a       *)
(* writer that has been checked has the value to itself until it is done     *)
(* (ValueInv).                                                               *)
THEOREM UniqueWithoutRaces == Spec => []UniqueUnlessRaced
<1>1. Inv => UniqueUnlessRaced
  <2>. SUFFICES ASSUME Inv, NEW v \in Val \ raced
                PROVE  Cardinality(Holders(v) \ disturbed) <= 1
    BY DEF UniqueUnlessRaced
  <2>1. \A r, q \in Holders(v) \ disturbed : r = q
    BY DEF Inv, ValueInv
  <2>2. CASE Holders(v) \ disturbed = {}
    BY <2>2, FS_EmptySet
  <2>3. CASE Holders(v) \ disturbed # {}
    <3>1. PICK r : Holders(v) \ disturbed = {r}
      BY <2>1, <2>3
    <3>. QED
      BY <3>1, FS_Singleton
  <2>. QED
    BY <2>2, <2>3
<1>. QED
  BY <1>1, Invariant, PTL

(* A compensation leaves the metadata and the payload the operation began    *)
(* with, for each of create, update, modify, switch and restore.             *)
THEOREM UndoLeavesNoTrace == Spec => UndoneLeavesNoTrace
<1>1. ASSUME Inv, NEW w \in Writer, Undo(w), writer[w].res \notin disturbed
      PROVE  LET o == writer[w]
                 m == meta'[o.res]
             IN IF o.orig = None THEN m = None
                ELSE m = [o.orig EXCEPT !.at = m.at] /\ hist'[o.res][m.cur] = o.was
  <2>1. PICK o \in Doing, r \in Res : o = writer[w] /\ r = o.res /\ Active(w) /\ Typed(o, meta[r], hist[r])
    BY <1>1, Types, NoneAssumption DEF Inv, Undo, Active
  <2>2. PICK p, m2, h2 : UndoStep(o, p, meta[r], m2, hist[r], h2) /\ Turn(w, r, p, m2, h2)
    BY <1>1, <2>1, UndoTurn, NoneAssumption DEF Inv
  <2>3. meta'[r] = m2 /\ hist'[r] = h2
    BY <1>1, <2>2, Types, NoneAssumption DEF Inv, Turn
  <2>4. Whole(o, meta[r], hist[r]) /\ Sound(meta[r], hist[r])
    BY <1>1, <2>1 DEF Inv, CalmInv, Calm
  <2>5. IF o.orig = None THEN m2 = None
        ELSE m2 = [o.orig EXCEPT !.at = m2.at] /\ h2[m2.cur] = o.was
    BY <2>1, <2>2, <2>4, UndoWhole
  <2>. QED
    BY <2>1, <2>3, <2>5
<1>2. Inv => [\A w \in Writer : Undo(w) /\ writer[w].res \notin disturbed =>
                LET o == writer[w]
                    m == meta'[o.res]
                IN IF o.orig = None THEN m = None
                   ELSE m = [o.orig EXCEPT !.at = m.at] /\ hist'[o.res][m.cur] = o.was]_vars
  BY <1>1
<1>. QED
  BY <1>2, Invariant, PTL DEF UndoneLeavesNoTrace

(* Of the writers that race for a value one keeps it: a write that loses its *)
(* second check loses to the holder updated first, which is settled, or is   *)
(* itself beaten only by one updated earlier still (WinnerInv).              *)
THEOREM LosersHaveWinners == Spec => LoserHasWinner
<1>1. ASSUME Inv, NEW w \in Writer, Undo(w), writer[w].res \notin disturbed,
             writer[w].val \notin givenUp
      PROVE  \E r \in Res : meta'[r] # None /\ ~meta'[r].deleted /\ meta'[r].val = writer[w].val
  <2>1. PICK o \in Doing, r \in Res : o = writer[w] /\ r = o.res /\ Active(w) /\ o.at = "undo"
    BY <1>1, Types, NoneAssumption DEF Inv, Undo, Active
  <2>2. PICK p, m2, h2 : UndoStep(o, p, meta[r], m2, hist[r], h2) /\ Turn(w, r, p, m2, h2)
    BY <1>1, <2>1, UndoTurn, NoneAssumption DEF Inv
  <2>3. meta'[r] = m2 /\ \A q \in Res : q # r => meta'[q] = meta[q]
    BY <1>1, <2>2, Types, NoneAssumption DEF Inv, Turn
  <2>4. Calm(w)
    BY <1>1, <2>1 DEF Calm
  <2>5. CASE Claims(w, r, o.val)
    <3>1. o.val \in Field
      BY <2>1 DEF Doing
    <3>2. PICK f \in Res : Wins(f, o.val, r)
      BY <1>1, <2>1, <2>5, <3>1 DEF Inv, WinnerInv
    <3>. QED
      BY <2>1, <2>3, <3>2 DEF Wins, Holders, Live
  <2>6. CASE ~Claims(w, r, o.val)
    <3>1. Alive(o.orig) /\ o.was = o.val
      BY <2>1, <2>4, <2>6 DEF Claims, Late
    <3>2. Alive(m2) /\ m2.val = o.val
      BY <1>1, <2>1, <2>2, <2>4, <3>1, UndoRestores, NoneAssumption DEF Inv
    <3>. QED
      BY <2>1, <2>3, <3>2 DEF Alive
  <2>. QED
    BY <2>5, <2>6
<1>2. Inv => [\A w \in Writer : Undo(w) /\ writer[w].res \notin disturbed /\ writer[w].val \notin givenUp
         => \E r \in Res : /\ meta'[r] # None /\ ~meta'[r].deleted
                          /\ meta'[r].val = writer[w].val]_vars
  BY <1>1
<1>. QED
  BY <1>2, Invariant, PTL DEF LoserHasWinner

=============================================================================
