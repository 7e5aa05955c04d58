-------------------------- MODULE FormEditor_proofs --------------------------
(***************************************************************************)
(* What the user entered is kept, for any fields, resources and depths:    *)
(* every change of representation converts each value to one that stands   *)
(* for the same entry.  First what is needed about paths and updates, then *)
(* about the conversions, then one step per handler.  Second, why handlers *)
(* end in no TypeError; last, the types: the form is a tree.               *)
(***************************************************************************)
EXTENDS FormEditor, TLAPS

-----------------------------------------------------------------------------
(* Paths.                                                                   *)

Names == Seq(STRING)

LEMMA PathFacts ==
    ASSUME NEW i \in Index
    PROVE  /\ Path(i) \in Names /\ Len(Path(i)) \in Nat /\ Len(Path(i)) >= 1
           /\ Kind(i) \in Kinds /\ IsList(i) \in BOOLEAN /\ Nullable(i) \in BOOLEAN
<1>1. Path(i) \in Seq(STRING) /\ Len(Path(i)) \in 1..3
  BY FieldsAssumption
<1>2. QED
  BY <1>1, FieldsAssumption DEF Names

LEMMA PrefixDef ==
    ASSUME NEW s \in Names, NEW t \in Names
    PROVE  IsPrefix(s, t) <=> Len(s) <= Len(t) /\ \A n \in 1..Len(s) : s[n] = t[n]
<1>1. CASE Len(s) <= Len(t)
  <2>1. SubSeq(s, 1, Len(s)) = [n \in 1..Len(s) |-> s[n]] /\ SubSeq(t, 1, Len(s)) = [n \in 1..Len(s) |-> t[n]]
    BY <1>1 DEF Names
  <2>2. QED
    BY <1>1, <2>1 DEF IsPrefix
<1>2. CASE ~(Len(s) <= Len(t))
  BY <1>2 DEF IsPrefix
<1>3. QED
  BY <1>1, <1>2

LEMMA PrefixRefl == ASSUME NEW s \in Names PROVE IsPrefix(s, s)
BY PrefixDef DEF Names

LEMMA PrefixTrans ==
    ASSUME NEW s \in Names, NEW t \in Names, NEW u \in Names, IsPrefix(s, t), IsPrefix(t, u)
    PROVE  IsPrefix(s, u)
BY PrefixDef DEF Names

LEMMA PrefixLen ==
    ASSUME NEW s \in Names, NEW t \in Names, IsPrefix(s, t)
    PROVE  /\ Len(s) \in Nat /\ Len(t) \in Nat /\ Len(s) <= Len(t)
           /\ Len(s) = Len(t) => s = t
BY PrefixDef DEF Names

LEMMA PrefixesMeet ==
    ASSUME NEW s \in Names, NEW t \in Names, NEW u \in Names, IsPrefix(s, u), IsPrefix(t, u)
    PROVE  IsPrefix(s, t) \/ IsPrefix(t, s)
<1>1. Len(s) \in Nat /\ Len(t) \in Nat
  BY DEF Names
<1>2. CASE Len(s) <= Len(t)
  BY <1>1, <1>2, PrefixDef
<1>3. CASE Len(t) <= Len(s)
  BY <1>1, <1>3, PrefixDef
<1>4. QED
  BY <1>1, <1>2, <1>3

LEMMA Cut ==
    ASSUME NEW s \in Names, NEW n \in 1..Len(s)
    PROVE  SubSeq(s, 1, n) \in Names /\ Len(SubSeq(s, 1, n)) = n /\ IsPrefix(SubSeq(s, 1, n), s)
<1>1. SubSeq(s, 1, n) \in Names /\ Len(SubSeq(s, 1, n)) = n /\ \A m \in 1..n : SubSeq(s, 1, n)[m] = s[m]
  BY DEF Names
<1>2. Len(s) \in Nat /\ n \in Nat /\ n <= Len(s)
  BY DEF Names
<1>3. QED
  BY <1>1, <1>2, PrefixDef

LEMMA NodeFacts ==
    /\ Node \subseteq Names
    /\ \A i \in Index : Path(i) \in Node
    /\ \A i \in Index, d \in Nat \ {0} :
          Hidden(i, d) => /\ Area(i, d) \in Node /\ Len(Area(i, d)) = d /\ IsPrefix(Area(i, d), Path(i))
                          /\ Area(i, d) \in Groups(d)
    /\ \A d \in Nat \ {0} : Groups(d) \subseteq Node
<1>1. ASSUME NEW i \in Index, NEW n \in 1..Len(Path(i)) PROVE SubSeq(Path(i), 1, n) \in Names
  BY <1>1, PathFacts, Cut
<1>a. \A q : q \in Node <=> \E i \in Index : \E n \in 1..Len(Path(i)) : q = SubSeq(Path(i), 1, n)
  BY DEF Node
<1>2. Node \subseteq Names
  <2>1. SUFFICES ASSUME NEW q \in Node PROVE q \in Names
    OBVIOUS
  <2>2. PICK i \in Index : \E n \in 1..Len(Path(i)) : q = SubSeq(Path(i), 1, n)
    BY <1>a
  <2>3. PICK n \in 1..Len(Path(i)) : q = SubSeq(Path(i), 1, n)
    BY <2>2
  <2>4. QED
    BY <1>1, <2>3
<1>3. ASSUME NEW i \in Index PROVE Path(i) \in Node
  <2>1. SubSeq(Path(i), 1, Len(Path(i))) = Path(i) /\ Len(Path(i)) \in 1..Len(Path(i))
    BY PathFacts DEF Names
  <2>2. QED
    BY <1>a, <2>1
<1>4. ASSUME NEW i \in Index, NEW d \in Nat \ {0}, Hidden(i, d)
      PROVE  /\ Area(i, d) \in Node /\ Len(Area(i, d)) = d /\ IsPrefix(Area(i, d), Path(i))
             /\ Area(i, d) \in Groups(d)
  <2>1. d \in 1..Len(Path(i))
    BY <1>4, PathFacts DEF Hidden
  <2>2. QED
    BY <1>a, <1>4, <2>1, PathFacts, Cut DEF Area, Groups
<1>5. QED
  BY <1>2, <1>3, <1>4 DEF Groups

(* No path is above another.                                                *)
Antichain(P) == \A p, q \in P : IsPrefix(p, q) => p = q

LEMMA FieldsApart == \A i, j \in Index : IsPrefix(Path(i), Path(j)) => i = j
BY FieldsAssumption

LEMMA FieldAtPath == ASSUME NEW i \in Index PROVE FieldAt(Path(i)) = i
<1>1. \A j \in Index : Path(j) = Path(i) => j = i
  BY FieldsApart, PathFacts, PrefixRefl
<1>2. QED
  BY <1>1 DEF FieldAt

LEMMA GroupsApart == ASSUME NEW d \in Nat \ {0} PROVE Antichain(Groups(d))
<1>1. SUFFICES ASSUME NEW p \in Groups(d), NEW q \in Groups(d), IsPrefix(p, q) PROVE p = q
  BY DEF Antichain
<1>2. Len(p) = d /\ Len(q) = d /\ p \in Names /\ q \in Names
  BY NodeFacts DEF Groups
<1>3. QED
  BY <1>1, <1>2, PrefixLen

LEMMA LeavesApart == ASSUME NEW I \in SUBSET Index PROVE Antichain(Leaves(I)) /\ Leaves(I) \subseteq Node
BY FieldsApart, NodeFacts DEF Antichain, Leaves

(* A visible field is neither in an area nor above one.                     *)
LEMMA VisibleApart ==
    ASSUME NEW i \in Index, NEW d \in Nat \ {0}, ~Hidden(i, d), NEW g \in Groups(d)
    PROVE  ~IsPrefix(g, Path(i)) /\ ~IsPrefix(Path(i), g)
<1>1. PICK j \in Index : Hidden(j, d) /\ g = Area(j, d)
  BY DEF Groups
<1>2. g \in Names /\ Len(g) = d /\ IsPrefix(g, Path(j)) /\ Path(j) \in Names /\ Path(i) \in Names /\ i # j
  BY <1>1, NodeFacts, PathFacts
<1>3. ASSUME IsPrefix(Path(i), g) PROVE FALSE
  BY <1>2, <1>3, PrefixTrans, FieldsApart
<1>4. ASSUME IsPrefix(g, Path(i)) PROVE FALSE
  <2>1. Len(Path(i)) = d
    BY <1>2, <1>4, PrefixLen, PathFacts DEF Hidden
  <2>2. g = Path(i)
    BY <1>2, <1>4, <2>1, PrefixLen
  <2>3. QED
    BY <1>3, <2>2, <1>2, PrefixRefl
<1>5. QED
  BY <1>3, <1>4

-----------------------------------------------------------------------------
(* Updates of forms.                                                        *)

LEMMA PutAllBelow ==
    ASSUME NEW F, NEW U, DOMAIN U \subseteq Names, Antichain(DOMAIN U), NEW p \in DOMAIN U,
           NEW q \in Node, IsPrefix(p, q)
    PROVE  PutAll(F, U)[q] = Member(U[p], p, q)
<1>1. \A r \in DOMAIN U : IsPrefix(r, q) => r = p
  BY NodeFacts, PrefixesMeet DEF Antichain
<1>2. (CHOOSE r \in DOMAIN U : IsPrefix(r, q)) = p
  BY <1>1
<1>3. QED
  BY <1>2 DEF PutAll

LEMMA PutAllAbove ==
    ASSUME NEW F, NEW U, DOMAIN U \subseteq Names, Antichain(DOMAIN U), NEW p \in DOMAIN U,
           NEW q \in Node, IsStrictPrefix(q, p)
    PROVE  PutAll(F, U)[q] = Obj
<1>1. \A r \in DOMAIN U : ~IsPrefix(r, q)
  <2>1. SUFFICES ASSUME NEW r \in DOMAIN U, IsPrefix(r, q) PROVE FALSE
    OBVIOUS
  <2>2. IsPrefix(r, p)
    BY <2>1, NodeFacts, PrefixTrans DEF IsStrictPrefix
  <2>3. IsPrefix(p, q) /\ IsPrefix(q, p) /\ p # q
    BY <2>1, <2>2 DEF Antichain, IsStrictPrefix
  <2>4. QED
    BY <2>3, NodeFacts, PrefixLen
<1>2. QED
  BY <1>1 DEF PutAll

LEMMA PutAllBeside ==
    ASSUME NEW F, NEW U, NEW q \in Node, \A p \in DOMAIN U : ~IsPrefix(p, q) /\ ~IsPrefix(q, p)
    PROVE  PutAll(F, U)[q] = F[q]
BY DEF PutAll, IsStrictPrefix

LEMMA PutAllNode == ASSUME NEW F, NEW U PROVE PutAll(F, U) = [q \in Node |-> PutAll(F, U)[q]]
BY DEF PutAll

(* What the updates leave alone, and what they set.                         *)
LEMMA KeyBeside ==
    ASSUME NEW F, NEW U, DOMAIN U \subseteq Names, NEW key \in Node, Assignable(F, key),
           \A p \in DOMAIN U : ~IsPrefix(p, key) /\ ~IsPrefix(key, p)
    PROVE  PutAll(F, U)[key] = F[key] /\ Assignable(PutAll(F, U), key)
<1>1. PutAll(F, U)[key] = F[key]
  BY PutAllBeside
<1>2. ASSUME NEW r \in Node, IsStrictPrefix(r, key) PROVE PutAll(F, U)[r] = Obj
  <2>1. F[r] = Obj
    BY <1>2 DEF Assignable
  <2>2. \A p \in DOMAIN U : ~IsPrefix(p, r)
    BY <1>2, NodeFacts, PrefixTrans DEF IsStrictPrefix
  <2>3. QED
    BY <2>1, <2>2 DEF PutAll
<1>3. QED
  BY <1>1, <1>2 DEF Assignable

LEMMA KeySet ==
    ASSUME NEW F, NEW U, DOMAIN U \subseteq Node, Antichain(DOMAIN U), NEW key \in DOMAIN U
    PROVE  PutAll(F, U)[key] = Member(U[key], key, key) /\ Assignable(PutAll(F, U), key)
<1>1. key \in Node /\ DOMAIN U \subseteq Names /\ IsPrefix(key, key)
  BY NodeFacts, PrefixRefl
<1>2. QED
  BY <1>1, PutAllBelow, PutAllAbove DEF Assignable

-----------------------------------------------------------------------------
(* Values.                                                                  *)

(* What the user may mean a value to be: what the API gives, and what       *)
(* leaving a field empty stands for.                                        *)
Wanted(k, nullable, w) ==
    \/ IsApi(k, nullable, w)
    \/ k \in {"date", "object", "binary"} /\ w = Null
    \/ k = "number" /\ ~nullable /\ w = Undefined

(* A value in the form, no object, stands for w: it is submitted as w, shown as w in    *)
(* JSON mode unless it is a file, and folded as w if that can be written    *)
(* alike.                                                                   *)
Stands(k, nullable, v, w) ==
    /\ v.t \notin {"tree", "obj"}
    /\ submitValue(k, nullable, v) = w
    /\ v.t # "file" => toApiValue(k, nullable, v) = w
    /\ Alike(k, w) => JsonLeaf(v) = w

Tags == {"undefined", "null", "empty", "plain", "iso", "object", "stored"}

LEMMA WantedJson ==
    ASSUME NEW k \in Kinds, NEW n \in BOOLEAN, NEW w, Wanted(k, n, w)
    PROVE  JsonLeaf(w) = w /\ w.t \in Tags
<1>1. w.t \in Tags
  <2>1. CASE k = "string"
    BY <2>1 DEF Wanted, IsApi, Tagged, Tags, Null, Undefined, Empty
  <2>2. CASE k = "number"
    BY <2>2 DEF Wanted, IsApi, Tagged, Tags, Null, Undefined, Empty
  <2>3. CASE k = "date"
    BY <2>3 DEF Wanted, IsApi, Tagged, Tags, Null, Undefined, Empty
  <2>4. CASE k = "object"
    BY <2>4 DEF Wanted, IsApi, Tagged, Tags, Null, Undefined, Empty
  <2>5. CASE k = "binary"
    BY <2>5 DEF Wanted, IsApi, Tagged, Tags, Null, Undefined, Empty
  <2>6. QED
    BY <2>1, <2>2, <2>3, <2>4, <2>5 DEF Kinds
<1>2. QED
  BY <1>1 DEF JsonLeaf, Tags

LEMMA StandsForm ==
    ASSUME NEW k \in Kinds, NEW n \in BOOLEAN, NEW w, Wanted(k, n, w)
    PROVE  Stands(k, n, toFormValue(k, w), w)
<1>1. CASE k = "string"
  BY <1>1 DEF Wanted, IsApi, Tagged, Stands, Alike, toFormValue, submitValue, toApiValue, JsonLeaf, IsNothing, Null, Undefined, Empty
<1>2. CASE k = "number"
  BY <1>2 DEF Wanted, IsApi, Tagged, Stands, Alike, toFormValue, submitValue, toApiValue, JsonLeaf, IsNothing, Null, Undefined, Empty
<1>3. CASE k = "date"
  BY <1>3 DEF Wanted, IsApi, Tagged, Stands, Alike, toFormValue, submitValue, toApiValue, JsonLeaf, IsNothing, Null, Undefined, Date, Iso
<1>4. CASE k = "object"
  BY <1>4 DEF Wanted, IsApi, Tagged, Stands, Alike, toFormValue, submitValue, toApiValue, JsonLeaf, IsNothing, Null, Empty, Text, Garbage
<1>5. CASE k = "binary"
  BY <1>5 DEF Wanted, IsApi, Tagged, Stands, Alike, toFormValue, submitValue, toApiValue, JsonLeaf, IsNothing, Null, NoFile, Stored, Existing
<1>6. QED
  BY <1>1, <1>2, <1>3, <1>4, <1>5 DEF Kinds

LEMMA StandsItself ==
    ASSUME NEW k \in Kinds, NEW n \in BOOLEAN, NEW w, Wanted(k, n, w), Alike(k, w)
    PROVE  Stands(k, n, w, w)
<1>0. JsonLeaf(w) = w
  BY WantedJson
<1>1. CASE k = "string"
  BY <1>0, <1>1 DEF Wanted, IsApi, Tagged, Stands, Alike, toFormValue, submitValue, toApiValue, JsonLeaf, IsNothing, Null, Undefined, Empty
<1>2. CASE k = "number"
  BY <1>0, <1>2 DEF Wanted, IsApi, Tagged, Stands, Alike, toFormValue, submitValue, toApiValue, JsonLeaf, IsNothing, Null, Undefined, Empty
<1>3. CASE k = "date"
  BY <1>0, <1>3 DEF Wanted, IsApi, Tagged, Stands, Alike, toFormValue, submitValue, toApiValue, JsonLeaf, IsNothing, Null, Undefined, Date, Iso
<1>4. CASE k = "object"
  BY <1>0, <1>4 DEF Wanted, IsApi, Tagged, Stands, Alike, toFormValue, submitValue, toApiValue, JsonLeaf, IsNothing, Null, Empty, Text, Garbage
<1>5. CASE k = "binary"
  BY <1>0, <1>5 DEF Wanted, IsApi, Tagged, Stands, Alike, toFormValue, submitValue, toApiValue, JsonLeaf, IsNothing, Null, NoFile, Stored, Existing
<1>6. QED
  BY <1>1, <1>2, <1>3, <1>4, <1>5 DEF Kinds

LEMMA StandsFromJson ==
    ASSUME NEW k \in Kinds, NEW n \in BOOLEAN, NEW w, Wanted(k, n, w)
    PROVE  Stands(k, n, fromJsonValue(k, w), w)
<1>1. CASE k = "string"
  BY <1>1 DEF Wanted, IsApi, Tagged, Stands, Alike, toFormValue, fromJsonValue, submitValue, toApiValue, JsonLeaf, IsNothing, Null, Undefined, Empty
<1>2. CASE k = "number"
  BY <1>2 DEF Wanted, IsApi, Tagged, Stands, Alike, toFormValue, fromJsonValue, submitValue, toApiValue, JsonLeaf, IsNothing, Null, Undefined, Empty
<1>3. CASE k = "date"
  BY <1>3 DEF Wanted, IsApi, Tagged, Stands, Alike, toFormValue, fromJsonValue, submitValue, toApiValue, JsonLeaf, IsNothing, Null, Undefined, Date, Iso
<1>4. CASE k = "object"
  BY <1>4 DEF Wanted, IsApi, Tagged, Stands, Alike, toFormValue, fromJsonValue, submitValue, toApiValue, JsonLeaf, IsNothing, Null, Empty, Text, Garbage
<1>5. CASE k = "binary"
  BY <1>5 DEF Wanted, IsApi, Tagged, Stands, Alike, toFormValue, fromJsonValue, submitValue, toApiValue, JsonLeaf, IsNothing, Null, NoFile, Stored, Existing
<1>6. QED
  BY <1>1, <1>2, <1>3, <1>4, <1>5 DEF Kinds

LEMMA StandsEntry ==
    ASSUME NEW k \in Kinds, NEW n \in BOOLEAN, NEW e \in Entries(k, n)
    PROVE  Stands(k, n, e[1], e[2]) /\ Wanted(k, n, e[2])
<1>1. CASE k = "string"
  BY <1>1 DEF Entries, Wanted, IsApi, Tagged, Stands, Alike, toFormValue, submitValue, toApiValue, JsonLeaf, IsNothing, Null, Undefined, Empty, Plain
<1>2. CASE k = "number"
  BY <1>2 DEF Entries, Wanted, IsApi, Tagged, Stands, Alike, toFormValue, submitValue, toApiValue, JsonLeaf, IsNothing, Null, Undefined, Empty, Plain
<1>3. CASE k = "date"
  BY <1>3 DEF Entries, Wanted, IsApi, Tagged, Stands, Alike, toFormValue, submitValue, toApiValue, JsonLeaf, IsNothing, Null, Undefined, Date, Iso
<1>4. CASE k = "object"
  BY <1>4 DEF Entries, Wanted, IsApi, Tagged, Stands, Alike, toFormValue, submitValue, toApiValue, JsonLeaf, IsNothing, Null, Empty, Text, Object, Garbage
<1>5. CASE k = "binary"
  BY <1>5 DEF Entries, Wanted, IsApi, Tagged, Stands, Alike, toFormValue, submitValue, toApiValue, JsonLeaf, IsNothing, Null, NoFile, Stored, Existing, File, Husk
<1>6. QED
  BY <1>1, <1>2, <1>3, <1>4, <1>5 DEF Kinds

LEMMA FilesDiffer ==
    ASSUME NEW k \in Kinds, NEW n \in BOOLEAN, NEW v, NEW w, Wanted(k, n, w), Stands(k, n, v, w), v.t = "file"
    PROVE  ~Alike(k, w)
<1>1. JsonLeaf(v) = Husk
  BY DEF JsonLeaf
<1>2. w # Husk
  BY WantedJson DEF Husk, Tags
<1>3. QED
  BY <1>1, <1>2 DEF Stands

(* The same for a field, with the items of a list one by one.               *)
WantedField(i, w) ==
    IF IsList(i) THEN /\ w.t = "list" /\ w = List(w.of) /\ w.of = [j \in DOMAIN w.of |-> w.of[j]]
                      /\ \A j \in DOMAIN w.of : Wanted(Kind(i), Nullable(i), w.of[j])
                 ELSE Wanted(Kind(i), Nullable(i), w)
StandsField(i, v, w) ==
    IF IsList(i) THEN /\ v.t = "list" /\ v = List(v.of) /\ DOMAIN v.of = DOMAIN w.of
                      /\ \A j \in DOMAIN w.of : Stands(Kind(i), Nullable(i), v.of[j], w.of[j])
                 ELSE Stands(Kind(i), Nullable(i), v, w)

LEMMA WantedTag ==
    ASSUME NEW i \in Index, NEW w, WantedField(i, w)
    PROVE  w.t \in Tags \cup {"list"}
BY PathFacts, WantedJson DEF WantedField

LEMMA DocWanted ==
    ASSUME NEW doc \in Docs, NEW i \in Index
    PROVE  WantedField(i, doc[i])
<1>1. CASE ~IsList(i)
  BY <1>1, DocsAssumption DEF WantedField, Wanted
<1>2. CASE IsList(i)
  <2>1. /\ Tagged("list", doc[i]) /\ doc[i].of \in Seq(Range(doc[i].of))
        /\ \A j \in DOMAIN doc[i].of : IsApi(Kind(i), Nullable(i), doc[i].of[j])
    BY <1>2, DocsAssumption
  <2>2. doc[i].of = [j \in DOMAIN doc[i].of |-> doc[i].of[j]]
    BY <2>1
  <2>3. QED
    BY <1>2, <2>1, <2>2 DEF WantedField, Wanted, Tagged, List
<1>3. QED
  BY <1>1, <1>2

(* Entries of the user.                                                     *)
LEMMA InputStands ==
    ASSUME NEW i \in Index, NEW e \in Inputs(i)
    PROVE  StandsField(i, e[1], e[2]) /\ WantedField(i, e[2])
<1>1. CASE ~IsList(i)
  BY <1>1, StandsEntry, PathFacts DEF Inputs, StandsField, WantedField
<1>2. CASE IsList(i)
  <2>1. CASE e = <<List(<<>>), List(<<>>)>>
    BY <1>2, <2>1 DEF StandsField, WantedField, List
  <2>2. ASSUME NEW f \in Entries(Kind(i), Nullable(i)), e = <<List(<<f[1]>>), List(<<f[2]>>)>>
        PROVE  StandsField(i, e[1], e[2]) /\ WantedField(i, e[2])
    <3>1. Stands(Kind(i), Nullable(i), f[1], f[2]) /\ Wanted(Kind(i), Nullable(i), f[2])
      BY StandsEntry, PathFacts
    <3>2. /\ DOMAIN <<f[1]>> = {1} /\ DOMAIN <<f[2]>> = {1}
          /\ <<f[1]>>[1] = f[1] /\ <<f[2]>>[1] = f[2] /\ <<f[2]>> = [j \in {1} |-> <<f[2]>>[j]]
      OBVIOUS
    <3>3. e[1] = List(<<f[1]>>) /\ e[2] = List(<<f[2]>>)
      BY <2>2
    <3>4. e[1].t = "list" /\ e[1].of = <<f[1]>> /\ e[2].t = "list" /\ e[2].of = <<f[2]>>
      BY <3>3 DEF List
    <3>5. QED
      BY <1>2, <3>1, <3>2, <3>3, <3>4 DEF StandsField, WantedField
  <2>3. QED
    BY <1>2, <2>1, <2>2 DEF Inputs
<1>3. QED
  BY <1>1, <1>2, PathFacts

(* What the conversions make of a field.                                    *)
LEMMA FieldForm ==
    ASSUME NEW i \in Index, NEW w, WantedField(i, w)
    PROVE  StandsField(i, FormValue(i, w), w)
BY StandsForm, PathFacts DEF WantedField, StandsField, FormValue, Each, List

LEMMA FieldFromJson ==
    ASSUME NEW i \in Index, NEW G, WantedField(i, G[Path(i)])
    PROVE  StandsField(i, FromJson(G, i), G[Path(i)])
BY StandsFromJson, PathFacts DEF WantedField, StandsField, FromJson, Each, List

LEMMA FieldItself ==
    ASSUME NEW i \in Index, NEW w, WantedField(i, w), Robust(i, w)
    PROVE  StandsField(i, w, w)
BY StandsItself, PathFacts DEF WantedField, StandsField, Robust

LEMMA FieldJson ==
    ASSUME NEW i \in Index, NEW v, NEW w, WantedField(i, w), StandsField(i, v, w), Robust(i, w)
    PROVE  JsonPart(v) = w
<1>1. CASE IsList(i)
  <2>1. v = List(v.of) /\ v.t = "list" /\ w = List(w.of) /\ DOMAIN v.of = DOMAIN w.of
    BY <1>1 DEF StandsField, WantedField
  <2>2. \A j \in DOMAIN w.of : JsonLeaf(v.of[j]) = w.of[j]
    BY <1>1 DEF StandsField, Robust, Stands
  <2>3. [j \in DOMAIN v.of |-> JsonLeaf(v.of[j])] = w.of
    BY <1>1, <2>1, <2>2 DEF WantedField
  <2>4. JsonPart(v) = [v EXCEPT !.of = w.of]
    BY <2>1, <2>3 DEF JsonPart
  <2>5. QED
    BY <2>1, <2>4 DEF List
<1>2. CASE ~IsList(i)
  <2>1. JsonLeaf(v) = w
    BY <1>2 DEF StandsField, Robust, Stands
  <2>2. v.t \notin {"list", "indexed"}
    BY <1>2, <2>1, WantedTag, WantedJson, PathFacts DEF WantedField, JsonLeaf, Tags
  <2>3. QED
    BY <2>1, <2>2 DEF JsonPart
<1>3. QED
  BY <1>1, <1>2

LEMMA WantedFieldJson ==
    ASSUME NEW i \in Index, NEW w, WantedField(i, w)
    PROVE  JsonPart(w) = w
<1>1. CASE IsList(i)
  <2>1. w = List(w.of) /\ w.t = "list" /\ w.of = [j \in DOMAIN w.of |-> w.of[j]]
    BY <1>1 DEF WantedField
  <2>2. \A j \in DOMAIN w.of : JsonLeaf(w.of[j]) = w.of[j]
    BY <1>1, WantedJson, PathFacts DEF WantedField
  <2>3. JsonPart(w) = [w EXCEPT !.of = w.of]
    BY <2>1, <2>2 DEF JsonPart
  <2>4. QED
    BY <2>1, <2>3 DEF List
<1>2. CASE ~IsList(i)
  BY <1>2, WantedJson, PathFacts DEF WantedField, JsonPart, Tags
<1>3. QED
  BY <1>1, <1>2

LEMMA FieldApi ==
    ASSUME NEW i \in Index, NEW v, NEW w, WantedField(i, w), StandsField(i, v, w), ~HasFile(v)
    PROVE  ApiValue(i, v) = w
<1>1. CASE IsList(i)
  <2>1. v = List(v.of) /\ v.t = "list" /\ w = List(w.of) /\ DOMAIN v.of = DOMAIN w.of
    BY <1>1 DEF StandsField, WantedField
  <2>2. \A j \in DOMAIN w.of : toApiValue(Kind(i), Nullable(i), v.of[j]) = w.of[j]
    BY <1>1, <2>1 DEF StandsField, HasFile, Stands
  <2>3. QED
    BY <1>1, <2>1, <2>2 DEF WantedField, ApiValue, Each
<1>2. CASE ~IsList(i)
  BY <1>2 DEF StandsField, Stands, HasFile, ApiValue
<1>3. QED
  BY <1>1, <1>2

LEMMA FieldSubmit ==
    ASSUME NEW i \in Index, NEW v, NEW w, WantedField(i, w), StandsField(i, v, w),
           ~(Kind(i) = "binary" /\ IsList(i) /\ Len(Path(i)) > 1)
    PROVE  SubmitField(i, v) = w
<1>1. CASE IsList(i)
  <2>1. v = List(v.of) /\ v.t = "list" /\ w = List(w.of) /\ DOMAIN v.of = DOMAIN w.of
    BY <1>1 DEF StandsField, WantedField
  <2>2. \A j \in DOMAIN w.of : SubmitItem(i, v.of[j]) = w.of[j]
    BY <1>1, <2>1 DEF StandsField, SubmitItem, Stands
  <2>3. QED
    BY <1>1, <2>1, <2>2 DEF WantedField, SubmitField, Each
<1>2. CASE ~IsList(i)
  BY <1>2 DEF StandsField, Stands, SubmitField
<1>3. QED
  BY <1>1, <1>2

LEMMA RobustHasNoFile ==
    ASSUME NEW i \in Index, NEW v, NEW w, WantedField(i, w), StandsField(i, v, w), HasFile(v)
    PROVE  ~Robust(i, w)
<1>1. CASE IsList(i)
  <2>1. PICK j \in DOMAIN v.of : v.of[j].t = "file"
    BY <1>1 DEF StandsField, HasFile
  <2>2. ~Alike(Kind(i), w.of[j]) /\ j \in DOMAIN w.of
    BY <1>1, <2>1, FilesDiffer, PathFacts DEF StandsField, WantedField
  <2>3. QED
    BY <1>1, <2>2 DEF Robust
<1>2. CASE ~IsList(i)
  <2>1. CASE v.t = "file"
    BY <1>2, <2>1, FilesDiffer, PathFacts DEF StandsField, WantedField, Robust
  <2>2. CASE v.t = "list"
    BY <1>2, <2>2, WantedJson, PathFacts DEF StandsField, WantedField, Robust, Stands, JsonLeaf, Tags
  <2>3. QED
    BY <2>1, <2>2 DEF HasFile
<1>3. QED
  BY <1>1, <1>2

-----------------------------------------------------------------------------
(* How a form holds an entry: as the value of the field, or in the text of  *)
(* its area.                                                                *)
Carries(x, g, i, w) ==
    IF g = Path(i) THEN x = w
    ELSE /\ x.t = "tree" /\ DOMAIN x.of = Node
         /\ x.of[Path(i)] = w
         /\ \A r \in Node : IsStrictPrefix(g, r) /\ IsStrictPrefix(r, Path(i)) => x.of[r] = Obj
InText(F, g, i, w) == Assignable(F, g) /\ F[g].t = "text" /\ Carries(F[g].of, g, i, w)
Open(F, i, w) == Assignable(F, Path(i)) /\ StandsField(i, F[Path(i)], w)
HeldAt(F, d, i, w) == IF Hidden(i, d) THEN InText(F, Area(i, d), i, w) ELSE Open(F, i, w)

(* Above every node below the area of a field stands an object or the area. *)
LEMMA Between ==
    ASSUME NEW i \in Index, NEW g \in Node, IsPrefix(g, Path(i)), NEW r \in Node, IsStrictPrefix(r, Path(i))
    PROVE  IsStrictPrefix(r, g) \/ r = g \/ IsStrictPrefix(g, r)
BY NodeFacts, PathFacts, PrefixesMeet DEF IsStrictPrefix

(* Parsing a text that carries a value puts it at the field's path.         *)
LEMMA PutCarried ==
    ASSUME NEW F, NEW U, DOMAIN U \subseteq Node, Antichain(DOMAIN U), NEW i \in Index,
           NEW g \in DOMAIN U, IsPrefix(g, Path(i)), NEW w, w.t # "tree", Carries(U[g], g, i, w)
    PROVE  PutAll(F, U)[Path(i)] = w /\ Assignable(PutAll(F, U), Path(i))
<1>0. /\ g \in Node /\ g \in Names /\ Path(i) \in Node /\ Path(i) \in Names /\ DOMAIN U \subseteq Names
      /\ IsPrefix(g, g)
  BY NodeFacts, PrefixRefl
<1>1. CASE g = Path(i)
  BY <1>0, <1>1, KeySet DEF Carries, Member
<1>2. CASE g # Path(i)
  <2>1. PutAll(F, U)[Path(i)] = w
    BY <1>0, <1>2, PutAllBelow DEF Carries, Member
  <2>2. ASSUME NEW r \in Node, IsStrictPrefix(r, Path(i)) PROVE PutAll(F, U)[r] = Obj
    <3>1. CASE IsStrictPrefix(r, g)
      BY <1>0, <3>1, PutAllAbove
    <3>2. CASE r = g
      <4>1. PutAll(F, U)[g] = Member(U[g], g, g)
        BY <1>0, PutAllBelow
      <4>2. QED
        BY <1>2, <3>2, <4>1 DEF Carries, Member
    <3>3. CASE IsStrictPrefix(g, r)
      <4>1. PutAll(F, U)[r] = Member(U[g], g, r) /\ r # g
        BY <1>0, <3>3, PutAllBelow DEF IsStrictPrefix
      <4>2. QED
        BY <1>2, <2>2, <3>3, <4>1 DEF Carries, Member
    <3>4. QED
      BY <1>0, <2>2, <3>1, <3>2, <3>3, Between
  <2>3. QED
    BY <2>1, <2>2 DEF Assignable
<1>3. QED
  BY <1>1, <1>2

(* The part of a form around a field carries its value.                     *)
LEMMA GetCarries ==
    ASSUME NEW F, NEW i \in Index, NEW g \in Node, IsPrefix(g, Path(i)), Assignable(F, Path(i)), F[Path(i)] # Obj
    PROVE  Carries(Get(F, g), g, i, F[Path(i)])
<1>0. Path(i) \in Node
  BY NodeFacts
<1>1. CASE g = Path(i)
  BY <1>1 DEF Get, Carries
<1>2. CASE g # Path(i)
  <2>1. F[g] = Obj
    BY <1>2 DEF Assignable, IsStrictPrefix
  <2>2. Get(F, g) = Tree([q \in Node |-> IF IsStrictPrefix(g, q) THEN F[q] ELSE Undefined])
    BY <2>1 DEF Get
  <2>3. IsStrictPrefix(g, Path(i))
    BY <1>2 DEF IsStrictPrefix
  <2>4. QED
    BY <1>0, <1>2, <2>2, <2>3 DEF Carries, Tree, Assignable
<1>3. QED
  BY <1>1, <1>2

LEMMA JsonCarries ==
    ASSUME NEW x, NEW i \in Index, NEW g \in Node, NEW v, v.t # "tree", Carries(x, g, i, v)
    PROVE  Carries(JsonOf(x), g, i, JsonPart(v))
<1>0. Path(i) \in Node
  BY NodeFacts
<1>1. CASE g = Path(i)
  BY <1>1 DEF Carries, JsonOf
<1>2. CASE g # Path(i)
  <2>1. JsonOf(x) = Tree([q \in Node |-> JsonPart(x.of[q])])
    BY <1>2 DEF Carries, JsonOf, JsonMembers
  <2>2. JsonPart(Obj) = Obj
    BY DEF JsonPart, JsonLeaf, Obj
  <2>3. QED
    BY <1>0, <1>2, <2>1, <2>2 DEF Carries, Tree
<1>3. QED
  BY <1>1, <1>2

(* Updates beside a field leave what the form holds of it.                  *)
LEMMA HeldBeside ==
    ASSUME NEW F, NEW U, DOMAIN U \subseteq Node, NEW d \in Nat \ {0}, NEW i \in Index, NEW w, HeldAt(F, d, i, w),
           LET key == IF Hidden(i, d) THEN Area(i, d) ELSE Path(i)
           IN  \A p \in DOMAIN U : ~IsPrefix(p, key) /\ ~IsPrefix(key, p)
    PROVE  HeldAt(PutAll(F, U), d, i, w)
<1>1. DOMAIN U \subseteq Names
  BY NodeFacts
<1>2. CASE Hidden(i, d)
  <2>1. Area(i, d) \in Node /\ \A p \in DOMAIN U : ~IsPrefix(p, Area(i, d)) /\ ~IsPrefix(Area(i, d), p)
    BY <1>2, NodeFacts
  <2>2. PutAll(F, U)[Area(i, d)] = F[Area(i, d)] /\ Assignable(PutAll(F, U), Area(i, d))
    BY <1>1, <1>2, <2>1, KeyBeside DEF HeldAt, InText
  <2>3. QED
    BY <1>2, <2>2 DEF HeldAt, InText
<1>3. CASE ~Hidden(i, d)
  <2>1. Path(i) \in Node /\ \A p \in DOMAIN U : ~IsPrefix(p, Path(i)) /\ ~IsPrefix(Path(i), p)
    BY <1>3, NodeFacts
  <2>2. PutAll(F, U)[Path(i)] = F[Path(i)] /\ Assignable(PutAll(F, U), Path(i))
    BY <1>1, <1>3, <2>1, KeyBeside DEF HeldAt, Open
  <2>3. QED
    BY <1>3, <2>2 DEF HeldAt, Open
<1>4. QED
  BY <1>2, <1>3

(* Values of fields are no objects with parts.                              *)
LEMMA NoObject ==
    ASSUME NEW i \in Index, NEW v, NEW w, WantedField(i, w), StandsField(i, v, w)
    PROVE  v.t # "tree" /\ v # Obj /\ w.t # "tree" /\ w # Obj
<1>1. w.t # "tree" /\ w # Obj /\ w.t \in Tags \cup {"list"}
  BY WantedTag DEF Tags, Obj
<1>2. CASE IsList(i)
  BY <1>1, <1>2 DEF StandsField, Obj
<1>3. CASE ~IsList(i)
  BY <1>1, <1>3 DEF StandsField, Stands, Obj
<1>4. QED
  BY <1>2, <1>3

-----------------------------------------------------------------------------
(* The inductive invariant: an entry that is kept is in the form, in the    *)
(* JSON text, or in what was sent.                                          *)
FormHolds == mode = "form" /\ ~thrown => \A i \in Index : Kept(i) => HeldAt(form, depth, i, want[i])
TextHolds == mode = "json" /\ ~thrown /\ json # Garbage =>
                \A i \in Index : Kept(i) => json.of[Path(i)] = want[i] /\ Assignable(json.of, Path(i))
SentHolds == mode = "closed" /\ ~thrown => \A i \in Index : sent # Garbage /\ Kept(i) => sent.of[Path(i)] = want[i]
EntryInv ==
    /\ depth \in Depths /\ mode \in {"form", "json", "closed"} /\ thrown \in BOOLEAN
    /\ (sent # Nothing) <=> (mode = "closed")
    /\ mode = "json" => json # Nothing
    /\ want = [i \in Index |-> want[i]]
    /\ mode = "form" => FoldedAt(depth) \subseteq folded
    /\ \A i \in Index : Kept(i) => WantedField(i, want[i])
    /\ FormHolds /\ TextHolds /\ SentHolds

LEMMA DepthPositive == ASSUME NEW d \in Depths PROVE d \in Nat \ {0}
BY DepthsAssumption

(* Nothing is meant that a text could not hold.                             *)
LEMMA UndefinedNotRobust == ASSUME NEW i \in Index PROVE ~Robust(i, Undefined)
BY PathFacts DEF Robust, Alike, toFormValue, JsonLeaf, IsNothing, Undefined, Null, Empty, NoFile, Kinds

(* Where the user meant what the API gave or what was left empty.           *)
LEMMA HiddenRobust ==
    ASSUME EntryInv, mode = "form", NEW i \in Index, Kept(i), Hidden(i, depth)
    PROVE  Robust(i, want[i])
BY DEF EntryInv, FoldedAt, Kept

LEMMA InitEntry == ASSUME Init PROVE EntryInv
<1>1. PICK doc \in Docs, d \in Depths :
         form = Initial(doc, d) /\ depth = d /\ want = [i \in Index |-> doc[i]] /\ folded = FoldedAt(d)
  BY DEF Init
<1>2. /\ mode = "form" /\ thrown = FALSE /\ lost = {} /\ sent = Nothing /\ d \in Nat \ {0}
  BY DepthPositive DEF Init
<1>3. \A i \in Index : WantedField(i, want[i]) /\ want[i] = doc[i]
  BY <1>1, DocWanted
<1> DEFINE U == [p \in Leaves(Index) |-> FormValue(FieldAt(p), doc[FieldAt(p)])]
           plain == PutAll(Blank, U)
           areas == [g \in Groups(d) |-> Text(JsonOf(Get(plain, g)))]
<1>4. form = PutAll(plain, areas)
  BY <1>1 DEF Initial
<1>5. ASSUME NEW i \in Index PROVE StandsField(i, plain[Path(i)], want[i]) /\ Assignable(plain, Path(i))
  <2>1. Path(i) \in DOMAIN U /\ DOMAIN U \subseteq Node /\ Antichain(DOMAIN U)
    BY LeavesApart DEF Leaves
  <2>2. plain[Path(i)] = Member(U[Path(i)], Path(i), Path(i)) /\ Assignable(plain, Path(i))
    BY <2>1, KeySet
  <2>3. U[Path(i)] = FormValue(i, doc[i])
    BY <2>1, FieldAtPath
  <2>4. StandsField(i, U[Path(i)], doc[i])
    BY <2>3, <1>3, FieldForm
  <2>5. QED
    BY <1>3, <2>2, <2>4, NoObject DEF Member
<1>6. ASSUME NEW i \in Index, Kept(i) PROVE HeldAt(form, d, i, want[i])
  <2>1. CASE ~Hidden(i, d)
    <3>1. HeldAt(plain, d, i, want[i])
      BY <1>5, <2>1 DEF HeldAt, Open
    <3>2. DOMAIN areas \subseteq Node /\ \A g \in DOMAIN areas : ~IsPrefix(g, Path(i)) /\ ~IsPrefix(Path(i), g)
      BY <1>2, <2>1, NodeFacts, VisibleApart
    <3>3. QED
      BY <1>2, <1>4, <2>1, <3>1, <3>2, HeldBeside
  <2>2. CASE Hidden(i, d)
    <3> DEFINE g == Area(i, d)
    <3>1. g \in DOMAIN areas /\ g \in Node /\ IsPrefix(g, Path(i)) /\ DOMAIN areas \subseteq Node /\ Antichain(DOMAIN areas)
      BY <1>2, <2>2, NodeFacts, GroupsApart
    <3>2. form[g] = Member(areas[g], g, g) /\ Assignable(form, g)
      BY <1>4, <3>1, KeySet
    <3>3. form[g] = Text(JsonOf(Get(plain, g)))
      BY <3>1, <3>2 DEF Member, Text
    <3>4. plain[Path(i)] # Obj /\ plain[Path(i)].t # "tree" /\ Assignable(plain, Path(i))
      BY <1>3, <1>5, NoObject
    <3>5. Carries(JsonOf(Get(plain, g)), g, i, JsonPart(plain[Path(i)]))
      BY <3>1, <3>4, GetCarries, JsonCarries
    <3>6. Robust(i, want[i])
      BY <1>1, <1>6, <2>2 DEF Kept, FoldedAt
    <3>7. JsonPart(plain[Path(i)]) = want[i]
      BY <1>3, <1>5, <3>6, FieldJson
    <3>8. QED
      BY <2>2, <3>2, <3>3, <3>5, <3>7 DEF HeldAt, InText, Text
  <2>3. QED
    BY <2>1, <2>2
<1>7. QED
  BY <1>1, <1>2, <1>3, <1>6 DEF EntryInv, FormHolds, TextHolds, SentHolds

-----------------------------------------------------------------------------
(* The handlers.                                                            *)
LEMMA FormStep ==
    ASSUME EntryInv, mode = "form", mode' = "form", depth' \in Depths, thrown' \in BOOLEAN, sent' = sent,
           want' = [i \in Index |-> want'[i]], FoldedAt(depth') \subseteq folded',
           \A i \in Index : Kept(i)' => WantedField(i, want'[i]),
           ~thrown' => \A i \in Index : Kept(i)' => HeldAt(form', depth', i, want'[i])
    PROVE  EntryInv'
BY DEF EntryInv, FormHolds, TextHolds, SentHolds

(* Where a form of depth d holds field i.                                   *)
Key(i, d) == IF Hidden(i, d) THEN Area(i, d) ELSE Path(i)

LEMMA KeysApart ==
    ASSUME NEW d \in Nat \ {0}, NEW i \in Index, NEW j \in Index, i # j, ~Hidden(i, d)
    PROVE  ~IsPrefix(Path(i), Key(j, d)) /\ ~IsPrefix(Key(j, d), Path(i))
<1>1. CASE Hidden(j, d)
  BY <1>1, NodeFacts, VisibleApart DEF Key
<1>2. CASE ~Hidden(j, d)
  BY <1>2, FieldsApart DEF Key
<1>3. QED
  BY <1>1, <1>2

(* A field is in an area, or its key is apart from the area.                *)
LEMMA AreaOrApart ==
    ASSUME NEW d \in Nat \ {0}, NEW i \in Index, NEW g \in Groups(d)
    PROVE  /\ i \in Inside(g) => Hidden(i, d) /\ Area(i, d) = g
           /\ i \notin Inside(g) => ~IsPrefix(g, Key(i, d)) /\ ~IsPrefix(Key(i, d), g)
<1>1. g \in Node /\ g \in Names /\ Path(i) \in Names
  BY NodeFacts
<1>2. CASE ~Hidden(i, d)
  BY <1>2, VisibleApart DEF Inside, Key
<1>3. CASE Hidden(i, d)
  <2>1. Area(i, d) \in Groups(d) /\ IsPrefix(Area(i, d), Path(i)) /\ Area(i, d) \in Names
    BY <1>3, NodeFacts
  <2>2. i \in Inside(g) => Area(i, d) = g
    BY <1>1, <2>1, PrefixesMeet, GroupsApart DEF Inside, Antichain
  <2>3. IsPrefix(g, Area(i, d)) \/ IsPrefix(Area(i, d), g) => g = Area(i, d)
    BY <2>1, GroupsApart DEF Antichain
  <2>4. QED
    BY <1>3, <2>1, <2>2, <2>3 DEF Key, Inside
<1>4. QED
  BY <1>2, <1>3

LEMMA PutHere ==
    ASSUME NEW F, NEW p \in Node, NEW v, v.t # "tree"
    PROVE  Put(F, p, v)[p] = v /\ Assignable(Put(F, p, v), p)
<1> DEFINE U == [q \in {p} |-> v]
<1>1. DOMAIN U = {p} /\ U[p] = v
  OBVIOUS
<1>2. Antichain(DOMAIN U) /\ DOMAIN U \subseteq Node /\ p \in DOMAIN U
  BY <1>1 DEF Antichain
<1>3. PutAll(F, U)[p] = Member(U[p], p, p) /\ Assignable(PutAll(F, U), p)
  BY <1>2, KeySet
<1>4. QED
  BY <1>1, <1>3 DEF Put, Member

LEMMA PutBeside ==
    ASSUME NEW F, NEW p \in Node, NEW v, NEW d \in Nat \ {0}, NEW i \in Index, NEW w, HeldAt(F, d, i, w),
           ~IsPrefix(p, Key(i, d)), ~IsPrefix(Key(i, d), p)
    PROVE  HeldAt(Put(F, p, v), d, i, w)
<1> DEFINE U == [q \in {p} |-> v]
<1>1. DOMAIN U = {p}
  OBVIOUS
<1>2. HeldAt(PutAll(F, U), d, i, w)
  BY <1>1, HeldBeside DEF Key
<1>3. QED
  BY <1>2 DEF Put

LEMMA TypeEntry == ASSUME EntryInv, NEW i \in Index, Type(i) PROVE EntryInv'
<1>1. /\ mode = "form" /\ mode' = "form" /\ depth' = depth /\ sent' = sent /\ ~Hidden(i, depth)
      /\ depth \in Depths /\ depth \in Nat \ {0} /\ want = [j \in Index |-> want[j]] /\ thrown \in BOOLEAN
      /\ FoldedAt(depth) \subseteq folded
  BY DepthPositive DEF Type, EntryInv
<1>2. CASE ~Assignable(form, Path(i))
  <2>1. thrown' = TRUE /\ UNCHANGED <<form, want, folded, lost>>
    BY <1>2 DEF Type
  <2>2. \A j \in Index : Kept(j)' => WantedField(j, want'[j])
    BY <2>1 DEF EntryInv, Kept
  <2>3. QED
    BY <1>1, <2>1, <2>2, FormStep
<1>3. CASE Assignable(form, Path(i))
  <2>1. thrown' = thrown /\ folded' = folded \ {i} /\ FoldedAt(depth) \subseteq folded'
    BY <1>1, <1>3 DEF Type, FoldedAt
  <2>2. ASSUME NEW j \in Index, j # i, Kept(j)', want'[j] = want[j], NEW v, form' = Put(form, Path(i), v),
               lost' \in {lost \ {i}, lost \cup {i}}
        PROVE  WantedField(j, want'[j]) /\ (~thrown' => HeldAt(form', depth', j, want'[j]))
    <3>1. Kept(j)
      BY <2>1, <2>2 DEF Kept
    <3>2. WantedField(j, want[j]) /\ (~thrown => HeldAt(form, depth, j, want[j]))
      BY <1>1, <3>1 DEF EntryInv, FormHolds
    <3>3. Path(i) \in Node /\ ~IsPrefix(Path(i), Key(j, depth)) /\ ~IsPrefix(Key(j, depth), Path(i))
      BY <1>1, <2>2, NodeFacts, KeysApart
    <3>4. ~thrown => HeldAt(Put(form, Path(i), v), depth, j, want[j])
      BY <1>1, <3>2, <3>3, PutBeside
    <3>5. QED
      BY <1>1, <2>1, <2>2, <3>2, <3>4
  <2>3. ASSUME NEW e \in Inputs(i), form' = Put(form, Path(i), e[1]), want' = [want EXCEPT ![i] = e[2]],
               lost' = lost \ {i}
        PROVE  EntryInv'
    <3>1. want'[i] = e[2] /\ \A j \in Index : j # i => want'[j] = want[j]
      BY <1>1, <2>3
    <3>2. StandsField(i, e[1], e[2]) /\ WantedField(i, e[2]) /\ e[1].t # "tree"
      BY InputStands, NoObject
    <3>3. form'[Path(i)] = e[1] /\ Assignable(form', Path(i))
      BY <2>3, <3>2, NodeFacts, PutHere
    <3>4. HeldAt(form', depth', i, want'[i])
      BY <1>1, <3>1, <3>2, <3>3 DEF HeldAt, Open
    <3>5. want' = [j \in Index |-> want'[j]]
      BY <1>1, <2>3
    <3>6. \A j \in Index : Kept(j)' => WantedField(j, want'[j]) /\ (~thrown' => HeldAt(form', depth', j, want'[j]))
      BY <2>2, <2>3, <3>1, <3>2, <3>4
    <3>7. QED
      BY <1>1, <2>1, <3>5, <3>6, FormStep
  <2>4. ASSUME form' = Put(form, Path(i), Garbage), lost' = lost \cup {i}, want' = want
        PROVE  EntryInv'
    <3>1. ~Kept(i)'
      BY <2>4 DEF Kept
    <3>2. \A j \in Index : Kept(j)' => WantedField(j, want'[j]) /\ (~thrown' => HeldAt(form', depth', j, want'[j]))
      BY <2>2, <2>4, <3>1
    <3>3. QED
      BY <1>1, <2>1, <2>4, <3>2, FormStep
  <2>5. QED
    BY <1>3, <2>3, <2>4 DEF Type
<1>4. QED
  BY <1>2, <1>3

LEMMA ResourceCarries ==
    ASSUME NEW doc \in Docs, NEW i \in Index
    PROVE  Resource(doc)[Path(i)] = doc[i] /\ Assignable(Resource(doc), Path(i))
<1> DEFINE U == [p \in Leaves(Index) |-> doc[FieldAt(p)]]
<1>1. Path(i) \in DOMAIN U /\ DOMAIN U \subseteq Node /\ Antichain(DOMAIN U)
  BY LeavesApart DEF Leaves
<1>2. U[Path(i)] = doc[i]
  BY <1>1, FieldAtPath
<1>3. PutAll(Blank, U)[Path(i)] = Member(U[Path(i)], Path(i), Path(i)) /\ Assignable(PutAll(Blank, U), Path(i))
  BY <1>1, KeySet
<1>4. doc[i].t # "tree"
  BY DocWanted, WantedTag DEF Tags
<1>5. QED
  BY <1>2, <1>3, <1>4 DEF Resource, Member

LEMMA EditAreaEntry == ASSUME EntryInv, NEW g, EditArea(g) PROVE EntryInv'
<1>1. /\ mode = "form" /\ mode' = "form" /\ depth' = depth /\ sent' = sent /\ thrown' = thrown
      /\ depth \in Depths /\ depth \in Nat \ {0} /\ want = [j \in Index |-> want[j]] /\ thrown \in BOOLEAN
      /\ FoldedAt(depth) \subseteq folded' /\ folded' = folded \cup Inside(g) /\ g \in Groups(depth) /\ g \in Node
  BY DepthPositive, NodeFacts DEF EditArea, EntryInv
<1>2. ASSUME NEW j \in Index, j \notin Inside(g), Kept(j)', want'[j] = want[j], NEW v, form' = Put(form, g, v),
             lost' \in {lost \ Inside(g), lost \cup Inside(g)}
      PROVE  WantedField(j, want'[j]) /\ (~thrown' => HeldAt(form', depth', j, want'[j]))
  <2>1. Kept(j)
    BY <1>1, <1>2 DEF Kept
  <2>2. WantedField(j, want[j]) /\ (~thrown => HeldAt(form, depth, j, want[j]))
    BY <1>1, <2>1 DEF EntryInv, FormHolds
  <2>3. ~IsPrefix(g, Key(j, depth)) /\ ~IsPrefix(Key(j, depth), g)
    BY <1>1, <1>2, AreaOrApart
  <2>4. ~thrown => HeldAt(Put(form, g, v), depth, j, want[j])
    BY <1>1, <2>2, <2>3, PutBeside
  <2>5. QED
    BY <1>1, <1>2, <2>2, <2>4
<1>3. ASSUME NEW doc \in Docs, form' = Put(form, g, Text(JsonOf(Get(Resource(doc), g)))),
             want' = [i \in Index |-> IF i \in Inside(g) THEN doc[i] ELSE want[i]],
             lost' = lost \ Inside(g)
      PROVE  EntryInv'
  <2>1. want' = [j \in Index |-> want'[j]]
    BY <1>3
  <2>2. ASSUME NEW j \in Inside(g)
        PROVE  WantedField(j, want'[j]) /\ HeldAt(form', depth', j, want'[j])
    <3>1. j \in Index /\ want'[j] = doc[j] /\ IsPrefix(g, Path(j)) /\ Hidden(j, depth) /\ Area(j, depth) = g
      BY <1>1, <1>3, AreaOrApart DEF Inside
    <3>2. WantedField(j, doc[j]) /\ doc[j].t # "tree" /\ doc[j] # Obj
      BY <3>1, DocWanted, WantedTag DEF Tags, Obj
    <3>3. Carries(Get(Resource(doc), g), g, j, doc[j])
      BY <1>1, <3>1, <3>2, ResourceCarries, GetCarries
    <3>4. Carries(JsonOf(Get(Resource(doc), g)), g, j, doc[j])
      BY <1>1, <3>1, <3>2, <3>3, JsonCarries, WantedFieldJson
    <3>5. form'[g] = Text(JsonOf(Get(Resource(doc), g))) /\ Assignable(form', g)
      BY <1>1, <1>3, PutHere DEF Text
    <3>6. QED
      BY <1>1, <3>1, <3>2, <3>4, <3>5 DEF HeldAt, InText, Text
  <2>3. \A j \in Index : Kept(j)' => WantedField(j, want'[j]) /\ (~thrown' => HeldAt(form', depth', j, want'[j]))
    BY <1>2, <1>3, <2>2
  <2>4. QED
    BY <1>1, <2>1, <2>3, FormStep
<1>4. ASSUME NEW v, form' = Put(form, g, v),
             want' = [i \in Index |-> IF i \in Inside(g) THEN Undefined ELSE want[i]],
             lost' = lost \ Inside(g)
      PROVE  EntryInv'
  <2>1. want' = [j \in Index |-> want'[j]]
    BY <1>4
  <2>2. \A j \in Inside(g) : ~Kept(j)'
    <3>1. SUFFICES ASSUME NEW j \in Inside(g) PROVE ~Kept(j)'
      OBVIOUS
    <3>2. j \in Index /\ want'[j] = Undefined /\ j \in folded'
      BY <1>1, <1>4 DEF Inside
    <3>3. QED
      BY <3>2, UndefinedNotRobust DEF Kept
  <2>3. \A j \in Index : Kept(j)' => WantedField(j, want'[j]) /\ (~thrown' => HeldAt(form', depth', j, want'[j]))
    BY <1>2, <1>4, <2>2
  <2>4. QED
    BY <1>1, <2>1, <2>3, FormStep
<1>5. ASSUME NEW v, form' = Put(form, g, v), want' = want, lost' = lost \cup Inside(g)
      PROVE  EntryInv'
  <2>1. \A j \in Inside(g) : ~Kept(j)'
    BY <1>5 DEF Kept, Inside
  <2>2. \A j \in Index : Kept(j)' => WantedField(j, want'[j]) /\ (~thrown' => HeldAt(form', depth', j, want'[j]))
    BY <1>2, <1>5, <2>1
  <2>3. QED
    BY <1>1, <1>5, <2>2, FormStep
<1>6. QED
  BY <1>3, <1>4, <1>5 DEF EditArea

(* Areas of two depths differ.                                              *)
LEMMA DepthsDiffer ==
    ASSUME NEW d \in Nat \ {0}, NEW e \in Nat \ {0}, d # e, NEW g \in Groups(d)
    PROVE  g \notin Groups(e) /\ g \in Node /\ g \in Names /\ Len(g) = d
BY NodeFacts DEF Groups

(* A part carries a value whatever is put beside it.                        *)
LEMMA CarriesBeside ==
    ASSUME NEW F, NEW U, DOMAIN U \subseteq Names, NEW i \in Index, NEW g \in Node, g # Path(i), NEW v,
           Carries(Tree(F), g, i, v), \A p \in DOMAIN U : ~IsPrefix(p, Path(i)) /\ ~IsPrefix(Path(i), p)
    PROVE  Carries(Tree(PutAll(F, U)), g, i, v)
<1>1. DOMAIN F = Node /\ F[Path(i)] = v
      /\ \A r \in Node : IsStrictPrefix(g, r) /\ IsStrictPrefix(r, Path(i)) => F[r] = Obj
  BY DEF Carries, Tree
<1>2. PutAll(F, U)[Path(i)] = v
  BY <1>1, NodeFacts, PutAllBeside
<1>3. ASSUME NEW r \in Node, IsStrictPrefix(g, r), IsStrictPrefix(r, Path(i)) PROVE PutAll(F, U)[r] = Obj
  <2>1. F[r] = Obj
    BY <1>1, <1>3
  <2>2. \A p \in DOMAIN U : ~IsPrefix(p, r)
    BY <1>3, NodeFacts, PrefixTrans DEF IsStrictPrefix
  <2>3. QED
    BY <2>1, <2>2 DEF PutAll
<1>4. DOMAIN PutAll(F, U) = Node
  BY PutAllNode
<1>5. QED
  BY <1>2, <1>3, <1>4 DEF Carries, Tree

(* Expanding the areas leaves every entry with its field, and no text where *)
(* the area of the field was.                                               *)
LEMMA OpenedHolds ==
    ASSUME depth \in Nat \ {0}, NEW d \in Nat \ {0}, d # depth, NEW i \in Index, NEW w, WantedField(i, w),
           HeldAt(form, depth, i, w), Hidden(i, depth) => Robust(i, w)
    PROVE  /\ Open(Opened(form, d), i, w)
           /\ Hidden(i, depth) => Opened(form, d)[Area(i, depth)].t # "text"
<1> DEFINE U == [p \in Opening(form, d) |-> Expanded(p, form[p])]
<1>1. Opened(form, d) = PutAll(form, U) /\ DOMAIN U \subseteq Groups(depth) /\ DOMAIN U \subseteq Node
      /\ Antichain(DOMAIN U) /\ DOMAIN U = Opening(form, d)
  BY NodeFacts, GroupsApart DEF Opened, Opening, Antichain
<1>u. \A p \in Opening(form, d) : U[p] = Expanded(p, form[p])
  OBVIOUS
<1> HIDE DEF U
<1>2. CASE ~Hidden(i, depth)
  <2>1. \A p \in DOMAIN U : ~IsPrefix(p, Path(i)) /\ ~IsPrefix(Path(i), p)
    BY <1>1, <1>2, VisibleApart
  <2>2. HeldAt(PutAll(form, U), depth, i, w)
    BY <1>1, <1>2, <2>1, HeldBeside
  <2>3. QED
    BY <1>1, <1>2, <2>2 DEF HeldAt
<1>3. CASE Hidden(i, depth)
  <2> DEFINE g == Area(i, depth)
  <2>1. /\ g \in Groups(depth) /\ g \in Node /\ IsPrefix(g, Path(i)) /\ g \in Names /\ IsPrefix(g, g)
        /\ Path(i) \in Node
    BY <1>3, NodeFacts, PrefixRefl
  <2>2. form[g].t = "text" /\ Carries(form[g].of, g, i, w)
    BY <1>3 DEF HeldAt, InText
  <2>3. g \in DOMAIN U
    <3>1. g \notin Groups(d)
      BY <2>1, DepthsDiffer
    <3>2. QED
      BY <1>1, <2>1, <2>2, <3>1 DEF Opening, IsString, Parses
  <2>4. U[g] = IF ListAt(g) THEN FormValue(FieldAt(g), form[g].of) ELSE form[g].of
    BY <1>1, <1>u, <2>2, <2>3 DEF Expanded
  <2>5. CASE g = Path(i)
    <3>1. IsList(i)
      BY <1>3, <2>1, <2>5, NodeFacts DEF Hidden
    <3>2. ListAt(g) /\ FieldAt(g) = i
      BY <2>5, <3>1, FieldAtPath DEF ListAt
    <3>3. U[g] = FormValue(i, w)
      BY <2>2, <2>4, <2>5, <3>2 DEF Carries
    <3>4. StandsField(i, U[g], w)
      BY <3>3, FieldForm
    <3>5. U[g].t = "list"
      BY <3>1, <3>4 DEF StandsField
    <3>6. PutAll(form, U)[g] = U[g] /\ Assignable(PutAll(form, U), g)
      BY <1>1, <2>3, <3>5, KeySet DEF Member
    <3>7. QED
      BY <1>1, <2>5, <3>4, <3>5, <3>6 DEF Open
  <2>6. CASE g # Path(i)
    <3>1. ~ListAt(g)
      BY <2>1, <2>6, FieldsApart DEF ListAt
    <3>2. U[g] = form[g].of
      BY <2>4, <3>1
    <3>3. w.t # "tree" /\ StandsField(i, w, w)
      BY <1>3, WantedTag, FieldItself DEF Tags
    <3>4. Carries(U[g], g, i, w) /\ U[g].t = "tree"
      BY <2>2, <2>6, <3>2 DEF Carries
    <3>5. PutAll(form, U)[Path(i)] = w /\ Assignable(PutAll(form, U), Path(i))
      BY <1>1, <2>1, <2>3, <3>3, <3>4, PutCarried
    <3>6. PutAll(form, U)[g] = Obj
      BY <2>1, <2>6, <3>5 DEF Assignable, IsStrictPrefix
    <3>7. QED
      BY <1>1, <3>3, <3>5, <3>6 DEF Open, Obj
  <2>7. QED
    BY <2>5, <2>6
<1>4. QED
  BY <1>2, <1>3

(* Folding areas leaves every entry in its text, or with its field, but for *)
(* the lists that are folded themselves.                                    *)
LEMMA CollapsedHolds ==
    ASSUME depth \in Nat \ {0}, NEW d \in Nat \ {0}, d # depth, NEW i \in Index, NEW w, WantedField(i, w),
           HeldAt(form, depth, i, w), Hidden(i, depth) \/ Hidden(i, d) => Robust(i, w),
           Path(i) \notin Closing(form, d)
    PROVE  HeldAt(Collapsed(form, d, Closing(form, d)), d, i, w)
<1> DEFINE O == Opened(form, d)
           U == [g \in Closing(form, d) |-> collapseFieldToJson(g, Restored(g, Get(O, g), Groups(depth)))]
<1>1. /\ Open(O, i, w)
      /\ Hidden(i, depth) => O[Area(i, depth)].t # "text"
  BY OpenedHolds
<1>2. Collapsed(form, d, Closing(form, d)) = PutAll(O, U) /\ DOMAIN U = Closing(form, d)
      /\ DOMAIN U \subseteq Groups(d) /\ DOMAIN U \subseteq Node /\ Antichain(DOMAIN U)
  BY NodeFacts, GroupsApart DEF Collapsed, Closing, Antichain
<1>u. \A g \in Closing(form, d) : U[g] = collapseFieldToJson(g, Restored(g, Get(O, g), Groups(depth)))
  OBVIOUS
<1>c. \A g \in Groups(d) \ Groups(depth) : ~IsString(O[g]) => g \in Closing(form, d)
  BY DEF Closing
<1> HIDE DEF U, O
<1>3. CASE ~Hidden(i, d)
  <2>1. \A p \in DOMAIN U : ~IsPrefix(p, Path(i)) /\ ~IsPrefix(Path(i), p)
    BY <1>2, <1>3, VisibleApart
  <2>2. HeldAt(O, d, i, w)
    BY <1>1, <1>3 DEF HeldAt
  <2>3. QED
    BY <1>2, <1>3, <2>1, <2>2, HeldBeside
<1>4. CASE Hidden(i, d)
  <2> DEFINE g == Area(i, d)
             v == O[Path(i)]
  <2>1. /\ g \in Groups(d) /\ g \in Node /\ IsPrefix(g, Path(i)) /\ g \in Names /\ Path(i) \in Node /\ Path(i) \in Names
        /\ g \notin Groups(depth) /\ Robust(i, w)
    BY <1>4, NodeFacts, DepthsDiffer
  <2>2. StandsField(i, v, w) /\ Assignable(O, Path(i)) /\ v.t # "tree" /\ v # Obj
    BY <1>1, NoObject DEF Open
  <2>3. ASSUME g = Path(i) PROVE FALSE
    <3>1. IsList(i)
      BY <1>4, <2>1, <2>3, NodeFacts DEF Hidden
    <3>2. v.t = "list"
      BY <2>2, <3>1 DEF StandsField
    <3>3. QED
      BY <1>c, <2>1, <2>3, <3>2 DEF IsString
  <2>4. O[g] = Obj /\ IsStrictPrefix(g, Path(i))
    BY <2>1, <2>2, <2>3 DEF Assignable, IsStrictPrefix
  <2>5. g \in Closing(form, d)
    BY <1>c, <2>1, <2>4 DEF IsString, Obj
  <2> DEFINE F == [q \in Node |-> IF IsStrictPrefix(g, q) THEN O[q] ELSE Undefined]
             again == {q \in Groups(depth) : IsStrictPrefix(g, q) /\ Len(q) = Len(g) + 1 /\ F[q].t = "text"}
             A == [q \in again |-> F[q].of]
  <2>6. Get(O, g) = Tree(F) /\ Carries(Tree(F), g, i, v)
    BY <2>1, <2>2, <2>4, GetCarries DEF Get
  <2>7. Restored(g, Get(O, g), Groups(depth)) = Tree(PutAll(F, A))
    BY <2>6 DEF Restored, Tree
  <2>8. \A q \in again : ~IsPrefix(q, Path(i)) /\ ~IsPrefix(Path(i), q)
    <3>1. SUFFICES ASSUME NEW q \in again, IsPrefix(q, Path(i)) \/ IsPrefix(Path(i), q) PROVE FALSE
      OBVIOUS
    <3>2. q \in Groups(depth) /\ q \in Node /\ q \in Names /\ IsStrictPrefix(g, q) /\ F[q].t = "text"
      BY NodeFacts
    <3>3. O[q].t = "text"
      BY <3>2
    <3>4. Hidden(i, depth)
      BY <3>1, <3>2, VisibleApart
    <3>5. Area(i, depth) \in Groups(depth) /\ Area(i, depth) \in Names /\ IsPrefix(Area(i, depth), Path(i))
      BY <3>4, NodeFacts
    <3>6. IsPrefix(q, Area(i, depth)) \/ IsPrefix(Area(i, depth), q)
      BY <2>1, <3>1, <3>2, <3>5, PrefixesMeet, PrefixTrans
    <3>7. q = Area(i, depth)
      BY <3>2, <3>5, <3>6, GroupsApart DEF Antichain
    <3>8. QED
      BY <1>1, <3>3, <3>4, <3>7
  <2>9. DOMAIN A \subseteq Names /\ \A q \in DOMAIN A : ~IsPrefix(q, Path(i)) /\ ~IsPrefix(Path(i), q)
    BY <2>8, NodeFacts
  <2> HIDE DEF F, A
  <2>10. Carries(Tree(PutAll(F, A)), g, i, v)
    BY <2>1, <2>3, <2>6, <2>9, CarriesBeside
  <2>11. Carries(JsonOf(Tree(PutAll(F, A))), g, i, JsonPart(v))
    BY <2>1, <2>2, <2>10, JsonCarries
  <2>12. U[g] = Text(JsonOf(Tree(PutAll(F, A))))
    BY <1>u, <2>5, <2>7 DEF collapseFieldToJson, IsString, IsNothing, Tree
  <2>13. JsonPart(v) = w
    BY <2>1, <2>2, FieldJson
  <2>14. PutAll(O, U)[g] = Text(JsonOf(Tree(PutAll(F, A)))) /\ Assignable(PutAll(O, U), g)
    BY <1>2, <2>5, <2>12, KeySet DEF Member, Text
  <2>15. QED
    BY <1>2, <1>4, <2>11, <2>13, <2>14 DEF HeldAt, InText, Text
<1>5. QED
  BY <1>3, <1>4

LEMMA ChangeDepthEntry == ASSUME EntryInv, NEW d \in Depths, ChangeDepth(d) PROVE EntryInv'
<1>1. /\ mode = "form" /\ mode' = "form" /\ sent' = sent /\ want' = want /\ d # depth
      /\ depth \in Depths /\ depth \in Nat \ {0} /\ want = [j \in Index |-> want[j]] /\ thrown \in BOOLEAN
      /\ FoldedAt(depth) \subseteq folded' /\ FoldedAt(d) \subseteq folded' /\ folded \subseteq folded' /\ lost \subseteq lost'
      /\ lost' = lost \cup {i \in Index : Path(i) \in Closing(form, d)} /\ d \in Nat \ {0}
  BY DepthPositive DEF ChangeDepth, EntryInv
<1>2. ASSUME NEW i \in Index, Kept(i)' PROVE Kept(i) /\ WantedField(i, want'[i])
  <2>1. Kept(i)
    BY <1>1, <1>2 DEF Kept
  <2>2. QED
    BY <1>1, <2>1 DEF EntryInv
<1>3. CASE Refused(form, d) # {}
  <2>1. thrown' = TRUE /\ depth' = depth
    BY <1>3 DEF ChangeDepth
  <2>2. QED
    BY <1>1, <1>2, <2>1, FormStep
<1>4. CASE Refused(form, d) = {}
  <2>1. thrown' = thrown /\ depth' = d /\ form' = Collapsed(form, d, Closing(form, d))
    BY <1>4 DEF ChangeDepth
  <2>2. ASSUME NEW i \in Index, Kept(i)', ~thrown PROVE HeldAt(form', depth', i, want'[i])
    <3>1. Kept(i) /\ WantedField(i, want[i]) /\ HeldAt(form, depth, i, want[i])
      BY <1>1, <1>2, <2>2 DEF EntryInv, FormHolds
    <3>2. Hidden(i, depth) \/ Hidden(i, d) => Robust(i, want[i])
      BY <1>1, <2>2 DEF Kept, FoldedAt
    <3>3. Path(i) \notin Closing(form, d)
      BY <1>1, <2>2 DEF Kept
    <3>4. HeldAt(Collapsed(form, d, Closing(form, d)), d, i, want[i])
      BY <1>1, <3>1, <3>2, <3>3, CollapsedHolds
    <3>5. QED
      BY <1>1, <2>1, <3>4
  <2>3. QED
    BY <1>1, <1>2, <2>1, <2>2, FormStep
<1>5. QED
  BY <1>3, <1>4

(* Parsing the areas over a form, when the fields were gone through.        *)
LEMMA ParsedHolds ==
    ASSUME depth \in Nat \ {0}, NEW base, NEW U, DOMAIN U = {h \in Groups(depth) : form[h] # Garbage},
           \A g \in DOMAIN U : form[g].t = "text" => U[g] = form[g].of,
           NEW i \in Index, NEW w, WantedField(i, w), HeldAt(form, depth, i, w),
           ~Hidden(i, depth) => base[Path(i)] = w /\ Assignable(base, Path(i))
    PROVE  PutAll(base, U)[Path(i)] = w /\ Assignable(PutAll(base, U), Path(i))
<1>1. DOMAIN U \subseteq Groups(depth) /\ DOMAIN U \subseteq Node /\ DOMAIN U \subseteq Names /\ Antichain(DOMAIN U)
      /\ Path(i) \in Node
  BY NodeFacts, GroupsApart DEF Antichain
<1>2. CASE ~Hidden(i, depth)
  <2>1. \A p \in DOMAIN U : ~IsPrefix(p, Path(i)) /\ ~IsPrefix(Path(i), p)
    BY <1>1, <1>2, VisibleApart
  <2>2. QED
    BY <1>1, <1>2, <2>1, KeyBeside
<1>3. CASE Hidden(i, depth)
  <2> DEFINE g == Area(i, depth)
  <2>1. g \in Groups(depth) /\ IsPrefix(g, Path(i))
    BY <1>3, NodeFacts
  <2>2. form[g].t = "text" /\ Carries(form[g].of, g, i, w)
    BY <1>3 DEF HeldAt, InText
  <2>3. g \in DOMAIN U /\ U[g] = form[g].of
    BY <2>1, <2>2 DEF Garbage
  <2>4. w.t # "tree"
    BY WantedTag DEF Tags
  <2>5. QED
    BY <1>1, <2>1, <2>2, <2>3, <2>4, PutCarried
<1>4. QED
  BY <1>2, <1>3

(* Going through the fields that are shown.                                 *)
LEMMA VisibleShown == ASSUME depth \in Nat \ {0}, NEW i \in Index, ~Hidden(i, depth) PROVE i \in Shown /\ Path(i) \in Leaves(Shown)
BY VisibleApart DEF Shown, IsCollapsedChild, IsStrictPrefix, Leaves

LEMMA ApiHolds ==
    ASSUME depth \in Nat \ {0}, NEW i \in Index, NEW w, WantedField(i, w), HeldAt(form, depth, i, w),
           HasFile(form[Path(i)]) => Robust(i, w)
    PROVE  ApiObject(form)[Path(i)] = w /\ Assignable(ApiObject(form), Path(i))
<1> DEFINE V == [p \in Leaves(Shown) |-> ApiValue(FieldAt(p), form[p])]
           base == PutAll(Blank, V)
           U == [g \in {h \in Groups(depth) : form[h] # Garbage} |-> IF form[g].t = "text" THEN form[g].of ELSE Null]
           all == PutAll(base, U)
<1>1. ApiObject(form) = JsonMembers(all)
  BY DEF ApiObject, ParseAreas
<1>2. ASSUME ~Hidden(i, depth) PROVE base[Path(i)] = w /\ Assignable(base, Path(i))
  <2>1. Path(i) \in DOMAIN V /\ DOMAIN V \subseteq Node /\ Antichain(DOMAIN V)
    BY <1>2, VisibleShown, LeavesApart DEF Shown
  <2>2. V[Path(i)] = ApiValue(i, form[Path(i)])
    BY <2>1, FieldAtPath
  <2>3. StandsField(i, form[Path(i)], w)
    BY <1>2 DEF HeldAt, Open
  <2>4. V[Path(i)] = w /\ w.t # "tree"
    BY <2>2, <2>3, RobustHasNoFile, FieldApi, NoObject
  <2>5. base[Path(i)] = Member(V[Path(i)], Path(i), Path(i)) /\ Assignable(base, Path(i))
    BY <2>1, KeySet
  <2>6. QED
    BY <2>4, <2>5 DEF Member
<1>3. DOMAIN U = {h \in Groups(depth) : form[h] # Garbage} /\ \A g \in DOMAIN U : form[g].t = "text" => U[g] = form[g].of
  OBVIOUS
<1> HIDE DEF base, U
<1>4. all[Path(i)] = w /\ Assignable(all, Path(i))
  BY <1>2, <1>3, ParsedHolds
<1>5. DOMAIN all = Node /\ Path(i) \in Node
  BY PutAllNode, NodeFacts
<1>6. JsonPart(w) = w /\ JsonPart(Obj) = Obj
  BY WantedFieldJson DEF JsonPart, JsonLeaf, Obj
<1>7. QED
  BY <1>1, <1>4, <1>5, <1>6 DEF JsonMembers, Assignable

LEMMA OutgoingHolds ==
    ASSUME depth \in Nat \ {0}, NEW i \in Index, NEW w, WantedField(i, w), HeldAt(form, depth, i, w),
           ~(Kind(i) = "binary" /\ IsList(i) /\ Len(Path(i)) > 1)
    PROVE  Outgoing(form)[Path(i)] = w
<1> DEFINE V == [p \in Leaves(Shown) |-> SubmitField(FieldAt(p), form[p])]
           base == PutAll(form, V)
           U == [g \in {h \in Groups(depth) : form[h] # Garbage} |->
                   IF form[g].t = "text" THEN form[g].of ELSE IF form[g] = Empty THEN Null ELSE Get(base, g)]
<1>1. Outgoing(form) = PutAll(base, U)
  BY DEF Outgoing, ParseAreas
<1>2. ASSUME ~Hidden(i, depth) PROVE base[Path(i)] = w /\ Assignable(base, Path(i))
  <2>1. Path(i) \in DOMAIN V /\ DOMAIN V \subseteq Node /\ Antichain(DOMAIN V)
    BY <1>2, VisibleShown, LeavesApart DEF Shown
  <2>2. V[Path(i)] = SubmitField(i, form[Path(i)])
    BY <2>1, FieldAtPath
  <2>3. StandsField(i, form[Path(i)], w)
    BY <1>2 DEF HeldAt, Open
  <2>4. V[Path(i)] = w /\ w.t # "tree"
    BY <2>2, <2>3, FieldSubmit, NoObject
  <2>5. base[Path(i)] = Member(V[Path(i)], Path(i), Path(i)) /\ Assignable(base, Path(i))
    BY <2>1, KeySet
  <2>6. QED
    BY <2>4, <2>5 DEF Member
<1>3. DOMAIN U = {h \in Groups(depth) : form[h] # Garbage} /\ \A g \in DOMAIN U : form[g].t = "text" => U[g] = form[g].of
  OBVIOUS
<1> HIDE DEF base, U
<1>4. QED
  BY <1>1, <1>2, <1>3, ParsedHolds

LEMMA SwitchToJsonEntry == ASSUME EntryInv, SwitchToJson PROVE EntryInv'
<1>1. /\ mode = "form" /\ mode' = "json" /\ sent' = sent /\ want' = want /\ lost' = lost /\ depth' = depth
      /\ thrown' = thrown /\ json' = Tree(ApiObject(form)) /\ depth \in Depths /\ depth \in Nat \ {0}
      /\ folded' = folded \cup {i \in Index : HasFile(form[Path(i)])}
  BY DepthPositive DEF SwitchToJson, EntryInv
<1>2. ASSUME NEW i \in Index, Kept(i)' PROVE Kept(i) /\ WantedField(i, want'[i])
  <2>1. Kept(i)
    BY <1>1, <1>2 DEF Kept
  <2>2. QED
    BY <1>1, <2>1 DEF EntryInv
<1>3. ASSUME NEW i \in Index, Kept(i)', ~thrown
      PROVE  json'.of[Path(i)] = want'[i] /\ Assignable(json'.of, Path(i))
  <2>1. Kept(i) /\ WantedField(i, want[i]) /\ HeldAt(form, depth, i, want[i])
    BY <1>1, <1>2, <1>3 DEF EntryInv, FormHolds
  <2>2. HasFile(form[Path(i)]) => Robust(i, want[i])
    BY <1>1, <1>3 DEF Kept
  <2>3. ApiObject(form)[Path(i)] = want[i] /\ Assignable(ApiObject(form), Path(i))
    BY <1>1, <2>1, <2>2, ApiHolds
  <2>4. QED
    BY <1>1, <2>3 DEF Tree
<1>4. json' # Nothing
  BY <1>1 DEF Tree, Nothing
<1>5. QED
  BY <1>1, <1>2, <1>3, <1>4 DEF EntryInv, FormHolds, TextHolds, SentHolds

LEMMA EditJsonEntry == ASSUME EntryInv, EditJson PROVE EntryInv'
<1>1. /\ mode = "json" /\ mode' = "json" /\ sent' = sent /\ depth' = depth /\ thrown' = thrown /\ json # Garbage
      /\ want = [i \in Index |-> want[i]]
  BY DEF EditJson, EntryInv
<1>2. ASSUME NEW i \in Index, NEW doc \in Docs, json' = Tree(Put(json.of, Path(i), doc[i])),
             want' = [want EXCEPT ![i] = doc[i]], folded' = folded \ {i}, lost' = lost \ {i}
      PROVE  EntryInv'
  <2>1. want' = [j \in Index |-> want'[j]] /\ want'[i] = doc[i] /\ \A j \in Index : j # i => want'[j] = want[j]
    BY <1>1, <1>2
  <2>2. json'.of = Put(json.of, Path(i), doc[i]) /\ json' # Nothing
    BY <1>2 DEF Tree, Nothing
  <2>3. Path(i) \in Node /\ doc[i].t # "tree" /\ WantedField(i, doc[i])
    BY NodeFacts, DocWanted, WantedTag DEF Tags
  <2>4. json'.of[Path(i)] = doc[i] /\ Assignable(json'.of, Path(i))
    BY <2>2, <2>3, PutHere
  <2>5. ASSUME NEW j \in Index, j # i, Kept(j)'
        PROVE  WantedField(j, want'[j]) /\ (~thrown => json'.of[Path(j)] = want'[j] /\ Assignable(json'.of, Path(j)))
    <3>1. Kept(j)
      BY <1>2, <2>1, <2>5 DEF Kept
    <3>2. WantedField(j, want[j]) /\ (~thrown => json.of[Path(j)] = want[j] /\ Assignable(json.of, Path(j)))
      BY <1>1, <3>1 DEF EntryInv, TextHolds
    <3> DEFINE U == [q \in {Path(i)} |-> doc[i]]
    <3>3. DOMAIN U \subseteq Names /\ Path(j) \in Node /\ \A q \in DOMAIN U : ~IsPrefix(q, Path(j)) /\ ~IsPrefix(Path(j), q)
      BY <2>3, <2>5, NodeFacts, FieldsApart
    <3>4. ~thrown => PutAll(json.of, U)[Path(j)] = json.of[Path(j)] /\ Assignable(PutAll(json.of, U), Path(j))
      BY <3>2, <3>3, KeyBeside
    <3>5. json'.of = PutAll(json.of, U)
      BY <2>2 DEF Put
    <3>6. QED
      BY <2>1, <2>5, <3>2, <3>4, <3>5
  <2>6. QED
    BY <1>1, <2>1, <2>2, <2>3, <2>4, <2>5 DEF EntryInv, FormHolds, TextHolds, SentHolds
<1>3. ASSUME json' = Garbage, UNCHANGED <<want, folded, lost>>
      PROVE  EntryInv'
  <2>1. \A j \in Index : Kept(j)' => Kept(j)
    BY <1>3 DEF Kept
  <2>2. json' # Nothing
    BY <1>3 DEF Garbage, Nothing
  <2>3. QED
    BY <1>1, <1>3, <2>1, <2>2 DEF EntryInv, FormHolds, TextHolds, SentHolds
<1>4. QED
  BY <1>2, <1>3 DEF EditJson

LEMMA UpdateApart ==
    ASSUME depth \in Nat \ {0}
    PROVE  Antichain(Leaves(Shown) \cup Groups(depth)) /\ Leaves(Shown) \cup Groups(depth) \subseteq Node
<1>1. Antichain(Leaves(Shown)) /\ Leaves(Shown) \subseteq Node /\ Antichain(Groups(depth)) /\ Groups(depth) \subseteq Node
  BY LeavesApart, GroupsApart, NodeFacts DEF Shown
<1>2. ASSUME NEW i \in Shown, NEW g \in Groups(depth), IsPrefix(g, Path(i)) PROVE g = Path(i)
  BY <1>2 DEF Shown, IsCollapsedChild, IsStrictPrefix
<1>3. ASSUME NEW i \in Shown, NEW g \in Groups(depth), IsPrefix(Path(i), g) PROVE g = Path(i)
  <2>1. PICK j \in Index : Hidden(j, depth) /\ g = Area(j, depth)
    BY DEF Groups
  <2>2. IsPrefix(g, Path(j)) /\ i \in Index /\ g \in Names /\ Path(i) \in Names /\ Path(j) \in Names
    BY <2>1, NodeFacts DEF Shown
  <2>3. i = j
    BY <1>3, <2>2, PrefixTrans, FieldsApart
  <2>4. QED
    BY <1>2, <2>2, <2>3
<1>4. QED
  BY <1>1, <1>2, <1>3 DEF Antichain, Leaves

LEMMA FormFromJson ==
    ASSUME depth \in Nat \ {0}, NEW F, NEW G, NEW U, DOMAIN U = Leaves(Shown) \cup Groups(depth),
           \A p \in DOMAIN U : U[p] = IF p \in Groups(depth) THEN AreaFromJson(G, p) ELSE FromJson(G, FieldAt(p)),
           NEW i \in Index, WantedField(i, G[Path(i)]), Assignable(G, Path(i))
    PROVE  HeldAt(PutAll(F, U), depth, i, G[Path(i)])
<1>1. Antichain(DOMAIN U) /\ DOMAIN U \subseteq Node
  BY UpdateApart
<1>2. CASE ~Hidden(i, depth)
  <2>1. Path(i) \in DOMAIN U
    BY <1>2, VisibleShown
  <2>2. Path(i) \notin Groups(depth)
    BY <1>2, VisibleApart, NodeFacts, PrefixRefl
  <2>3. U[Path(i)] = FromJson(G, i)
    BY <2>1, <2>2, FieldAtPath
  <2>4. StandsField(i, U[Path(i)], G[Path(i)]) /\ U[Path(i)].t # "tree"
    BY <2>3, FieldFromJson, NoObject
  <2>5. PutAll(F, U)[Path(i)] = Member(U[Path(i)], Path(i), Path(i)) /\ Assignable(PutAll(F, U), Path(i))
    BY <1>1, <2>1, KeySet
  <2>6. QED
    BY <1>2, <2>4, <2>5 DEF HeldAt, Open, Member
<1>3. CASE Hidden(i, depth)
  <2> DEFINE g == Area(i, depth)
  <2>1. g \in Groups(depth) /\ g \in Node /\ IsPrefix(g, Path(i))
    BY <1>3, NodeFacts
  <2>2. G[g].t \in {"obj", "list", "indexed"}
    <3>1. CASE g = Path(i)
      <4>1. IsList(i)
        BY <1>3, <2>1, <3>1, NodeFacts DEF Hidden
      <4>2. QED
        BY <3>1, <4>1 DEF WantedField
    <3>2. CASE g # Path(i)
      BY <2>1, <3>2 DEF Assignable, IsStrictPrefix, Obj
    <3>3. QED
      BY <3>1, <3>2
  <2>3. U[g] = Text(Get(G, g))
    BY <2>1, <2>2 DEF AreaFromJson
  <2>4. G[Path(i)] # Obj
    BY WantedTag DEF Obj, Tags
  <2>5. Carries(Get(G, g), g, i, G[Path(i)])
    BY <2>1, <2>4, GetCarries
  <2>6. PutAll(F, U)[g] = Member(U[g], g, g) /\ Assignable(PutAll(F, U), g)
    BY <1>1, <2>1, KeySet
  <2>7. QED
    BY <1>3, <2>3, <2>5, <2>6 DEF HeldAt, InText, Member, Text
<1>4. QED
  BY <1>2, <1>3

LEMMA SwitchToFormEntry == ASSUME EntryInv, SwitchToForm PROVE EntryInv'
<1> DEFINE U == [p \in Leaves(Shown) \cup Groups(depth) |->
                   IF p \in Groups(depth) THEN AreaFromJson(json.of, p) ELSE FromJson(json.of, FieldAt(p))]
           able == {p \in DOMAIN U : Assignable(form, p)}
<1>1. /\ mode = "json" /\ sent' = sent /\ want' = want /\ lost' = lost /\ depth' = depth /\ json # Garbage
      /\ depth \in Depths /\ depth \in Nat \ {0} /\ folded' = folded \cup FoldedAt(depth)
  BY DepthPositive DEF SwitchToForm, EntryInv
<1>2. ASSUME NEW i \in Index, Kept(i)' PROVE Kept(i) /\ WantedField(i, want'[i])
  <2>1. Kept(i)
    BY <1>1, <1>2 DEF Kept
  <2>2. QED
    BY <1>1, <2>1 DEF EntryInv
<1>3. CASE able = DOMAIN U
  <2>1. form' = PutAll(form, U) /\ mode' = "form" /\ thrown' = thrown
    BY <1>3 DEF SwitchToForm
  <2>2. DOMAIN U = Leaves(Shown) \cup Groups(depth)
        /\ \A p \in DOMAIN U : U[p] = IF p \in Groups(depth) THEN AreaFromJson(json.of, p) ELSE FromJson(json.of, FieldAt(p))
    OBVIOUS
  <2> HIDE DEF U
  <2>3. ASSUME NEW i \in Index, Kept(i)', ~thrown PROVE HeldAt(form', depth', i, want'[i])
    <3>1. Kept(i) /\ WantedField(i, want[i]) /\ json.of[Path(i)] = want[i] /\ Assignable(json.of, Path(i))
      BY <1>1, <1>2, <2>3 DEF EntryInv, TextHolds
    <3>2. HeldAt(PutAll(form, U), depth, i, want[i])
      BY <1>1, <2>2, <3>1, FormFromJson
    <3>3. QED
      BY <1>1, <2>1, <3>2
  <2>4. QED
    BY <1>1, <1>2, <2>1, <2>3 DEF EntryInv, FormHolds, TextHolds, SentHolds
<1>4. CASE able # DOMAIN U
  <2>1. thrown' = TRUE /\ mode' = mode /\ json' = json
    BY <1>4 DEF SwitchToForm
  <2>2. QED
    BY <1>1, <1>2, <2>1 DEF EntryInv, FormHolds, TextHolds, SentHolds
<1>5. QED
  BY <1>3, <1>4

LEMMA JsonSubmitEntry == ASSUME EntryInv, JsonSubmit PROVE EntryInv'
<1>1. /\ mode = "json" /\ mode' = "closed" /\ sent' = json /\ json # Garbage /\ json # Nothing
      /\ UNCHANGED <<depth, want, folded, lost, thrown>>
  BY DEF JsonSubmit, EntryInv
<1>2. \A i \in Index : Kept(i)' <=> Kept(i)
  BY <1>1 DEF Kept
<1>3. QED
  BY <1>1, <1>2 DEF EntryInv, FormHolds, TextHolds, SentHolds

LEMMA SubmitEntry == ASSUME EntryInv, Submit PROVE EntryInv'
<1>1. /\ mode = "form" /\ mode' = "closed" /\ sent' = Tree(Outgoing(form))
      /\ UNCHANGED <<depth, want, folded, lost, thrown>> /\ depth \in Nat \ {0}
  BY DepthPositive DEF Submit, EntryInv
<1>2. \A i \in Index : Kept(i)' <=> Kept(i)
  BY <1>1 DEF Kept
<1>3. sent' # Nothing /\ sent' # Garbage /\ sent'.of = Outgoing(form)
  BY <1>1 DEF Tree, Nothing, Garbage
<1>4. ASSUME ~thrown, NEW i \in Index, Kept(i) PROVE Outgoing(form)[Path(i)] = want[i]
  BY <1>1, <1>4, OutgoingHolds DEF EntryInv, FormHolds, Kept
<1>5. QED
  BY <1>1, <1>2, <1>3, <1>4 DEF EntryInv, FormHolds, TextHolds, SentHolds

LEMMA StepEntry == ASSUME EntryInv, [Next]_vars PROVE EntryInv'
<1>1. CASE Next
  BY <1>1, TypeEntry, EditAreaEntry, ChangeDepthEntry, SwitchToJsonEntry, EditJsonEntry, SwitchToFormEntry,
     JsonSubmitEntry, SubmitEntry DEF Next
<1>2. CASE UNCHANGED vars
  <2>1. \A i \in Index : Kept(i)' <=> Kept(i)
    BY <1>2 DEF vars, Kept
  <2>2. QED
    BY <1>2, <2>1 DEF vars, EntryInv, FormHolds, TextHolds, SentHolds
<1>3. QED
  BY <1>1, <1>2

LEMMA EntryInvKeeps == ASSUME EntryInv PROVE EntriesKept
<1>1. SUFFICES ASSUME ~thrown, Now # Garbage, NEW i \in Index, Kept(i) PROVE Now.of[Path(i)] = want[i]
  BY DEF EntriesKept
<1>2. CASE mode = "closed"
  BY <1>1, <1>2 DEF Now, EntryInv, SentHolds
<1>3. CASE mode = "json"
  BY <1>1, <1>3 DEF Now, EntryInv, TextHolds
<1>4. CASE mode = "form"
  <2>1. Now.of = Outgoing(form) /\ depth \in Nat \ {0}
    BY <1>4, DepthPositive DEF Now, EntryInv, Tree
  <2>2. WantedField(i, want[i]) /\ HeldAt(form, depth, i, want[i])
    BY <1>1, <1>4 DEF EntryInv, FormHolds
  <2>3. QED
    BY <1>1, <2>1, <2>2, OutgoingHolds DEF Kept
<1>5. QED
  BY <1>2, <1>3, <1>4 DEF EntryInv

(* What the user entered is in the form, in the JSON text and in what is    *)
(* sent, in whatever order the depth and the mode are changed               *)
(* (useResourceForm.ts, depthTransition.ts, transformers.ts).               *)
THEOREM EntriesAreKept == Spec => []EntriesKept
<1>1. Init => EntryInv
  BY InitEntry
<1>2. EntryInv /\ [Next]_vars => EntryInv'
  BY StepEntry
<1>3. EntryInv => EntriesKept
  BY EntryInvKeeps
<1>4. QED
  BY <1>1, <1>2, <1>3, PTL DEF Spec

-----------------------------------------------------------------------------
(* Assignments.  With paths of at most two members, as every object of      *)
(* which the members are fields is one of the form's own, what lies above   *)
(* a field is an object or an area.                                         *)
Short == \A i \in Index : Len(Path(i)) <= 2
Inner == {q \in Node : \E i \in Index : IsStrictPrefix(q, Path(i))}

LEMMA InnerFacts ==
    ASSUME Short, NEW q \in Inner
    PROVE  /\ q \in Node /\ q \in Names /\ Len(q) = 1 /\ ~ListAt(q) /\ \A i \in Index : Path(i) # q
           /\ q \in Groups(1)
           /\ \A d \in Nat \ {0} : q \in Groups(d) => d = 1
           /\ \A p \in Node : IsPrefix(p, q) => p = q
<1>1. PICK i \in Index : IsStrictPrefix(q, Path(i))
  BY DEF Inner
<1>n. \A p \in Node : Len(p) \in Nat /\ Len(p) >= 1 /\ p \in Names
  <2>1. SUFFICES ASSUME NEW p \in Node PROVE Len(p) \in Nat /\ Len(p) >= 1
    BY NodeFacts
  <2>2. PICK j \in Index : \E n \in 1..Len(Path(j)) : p = SubSeq(Path(j), 1, n)
    BY DEF Node
  <2>3. PICK n \in 1..Len(Path(j)) : p = SubSeq(Path(j), 1, n)
    BY <2>2
  <2>4. Len(p) = n /\ Len(Path(j)) \in Nat
    BY <2>3, Cut, PathFacts
  <2>5. QED
    BY <2>4
<1>2. q \in Node /\ q \in Names /\ Len(q) \in Nat /\ Len(q) >= 1
  BY <1>n DEF Inner
<1>3. Path(i) \in Names /\ Len(Path(i)) \in Nat /\ Len(Path(i)) <= 2
  BY PathFacts DEF Short
<1>4. Len(q) = 1 /\ Len(Path(i)) = 2
  <2>1. Len(q) <= Len(Path(i)) /\ Len(q) # Len(Path(i))
    BY <1>1, <1>2, <1>3, PrefixLen DEF IsStrictPrefix
  <2>2. \A a, b \in Nat : 1 <= a /\ a <= b /\ a # b /\ b <= 2 => a = 1 /\ b = 2
    OBVIOUS
  <2>3. QED
    BY <1>2, <1>3, <2>1, <2>2
<1>5. \A j \in Index : Path(j) # q
  BY <1>1, FieldsApart DEF IsStrictPrefix
<1>6. q \in Groups(1)
  <2>1. Hidden(i, 1)
    BY <1>4 DEF Hidden
  <2>2. Area(i, 1) \in Groups(1) /\ Area(i, 1) \in Names /\ Len(Area(i, 1)) = 1 /\ IsPrefix(Area(i, 1), Path(i))
    <3>1. 1 \in Nat \ {0}
      OBVIOUS
    <3>2. QED
      BY <2>1, <3>1, NodeFacts
  <2>3. IsPrefix(q, Area(i, 1)) \/ IsPrefix(Area(i, 1), q)
    BY <1>1, <1>2, <1>3, <2>2, PrefixesMeet DEF IsStrictPrefix
  <2>4. q = Area(i, 1)
    BY <1>2, <1>4, <2>2, <2>3, PrefixLen
  <2>5. QED
    BY <2>2, <2>4
<1>7. \A d \in Nat \ {0} : q \in Groups(d) => d = 1
  BY <1>4, NodeFacts DEF Groups
<1>8. ASSUME NEW p \in Node, IsPrefix(p, q) PROVE p = q
  <2>1. Len(p) <= Len(q) /\ (Len(p) = Len(q) => p = q)
    BY <1>n, <1>2, <1>8, PrefixLen
  <2>2. \A a \in Nat : a >= 1 /\ a <= 1 => a = 1
    OBVIOUS
  <2>3. QED
    BY <1>n, <1>4, <2>1, <2>2
<1>9. QED
  BY <1>2, <1>4, <1>5, <1>6, <1>7, <1>8 DEF ListAt

LEMMA AboveIsInner ==
    ASSUME Short, NEW p \in Node, NEW r \in Node, IsStrictPrefix(r, p)
    PROVE  r \in Inner /\ Len(p) = 2
<1>1. PICK j \in Index : \E n \in 1..Len(Path(j)) : p = SubSeq(Path(j), 1, n)
  BY DEF Node
<1>2. PICK n \in 1..Len(Path(j)) : p = SubSeq(Path(j), 1, n)
  BY <1>1
<1>3. Path(j) \in Names /\ IsPrefix(p, Path(j)) /\ p \in Names /\ r \in Names /\ Len(p) = n /\ n <= 2 /\ n \in Nat
  BY <1>2, Cut, PathFacts, NodeFacts DEF Short
<1>4. IsStrictPrefix(r, Path(j))
  <2>1. IsPrefix(r, Path(j))
    BY <1>3, PrefixTrans DEF IsStrictPrefix
  <2>2. r # Path(j)
    BY <1>3, PrefixLen DEF IsStrictPrefix
  <2>3. QED
    BY <2>1, <2>2 DEF IsStrictPrefix
<1>5. r \in Inner
  BY <1>4 DEF Inner
<1>6. Len(r) = 1
  BY <1>5, InnerFacts
<1>7. Len(p) # 1
  BY <1>3, <1>6, PrefixLen DEF IsStrictPrefix
<1>8. Len(r) <= Len(p)
  BY <1>3, PrefixLen DEF IsStrictPrefix
<1>9. QED
  BY <1>3, <1>5, <1>6, <1>7, <1>8

(* What updates make of what lies above fields.                             *)
LEMMA InnerPut ==
    ASSUME Short, NEW F, NEW U, DOMAIN U \subseteq Node, Antichain(DOMAIN U), NEW q \in Inner
    PROVE  PutAll(F, U)[q] = IF q \in DOMAIN U THEN Member(U[q], q, q)
                             ELSE IF \E p \in DOMAIN U : IsStrictPrefix(q, p) THEN Obj ELSE F[q]
<1>1. q \in Node /\ (\A p \in DOMAIN U : IsPrefix(p, q) => p = q) /\ IsPrefix(q, q) /\ DOMAIN U \subseteq Names
  BY InnerFacts, PrefixRefl, NodeFacts
<1>2. CASE q \in DOMAIN U
  BY <1>1, <1>2, PutAllBelow
<1>3. CASE q \notin DOMAIN U
  BY <1>1, <1>3 DEF PutAll
<1>4. QED
  BY <1>2, <1>3

(* An area above fields is an object, or text of an object, unless the user *)
(* wrote something else; no text of it is a list.                           *)
AreaValue(v) == \/ v.t \in {"obj", "empty", "garbage", "null", "undefined"} /\ (v.t = "obj" => v = Obj)
                                                                         /\ (v.t = "empty" => v = Empty)
                \/ v.t = "text" /\ v.of.t \in {"tree", "null"}
Folding(v) == v = Empty \/ (v.t = "text" /\ v.of.t = "tree")
Standing(v, d) == v = Obj \/ (d = 1 /\ Folding(v))
AreasStand(F, d, B) == \A q \in Inner : AreaValue(F[q]) /\ (q \notin B => Standing(F[q], d))
ThrowInv ==
    /\ depth \in Depths /\ mode \in {"form", "json", "closed"}
    /\ ~thrown => AreasStand(form, depth, broken)
    /\ ~thrown /\ mode = "json" /\ json # Garbage =>
          \A q \in Inner : json.of[q].t \notin {"list", "indexed"} /\ (json.of[q].t = "obj" => json.of[q] = Obj)

LEMMA InitThrow == ASSUME Short, Init PROVE ThrowInv
<1>1. PICK doc \in Docs, d \in Depths : form = Initial(doc, d) /\ depth = d
  BY DEF Init
<1> DEFINE U == [p \in Leaves(Index) |-> FormValue(FieldAt(p), doc[FieldAt(p)])]
           plain == PutAll(Blank, U)
           areas == [g \in Groups(d) |-> Text(JsonOf(Get(plain, g)))]
<1>2. form = PutAll(plain, areas) /\ d \in Nat \ {0} /\ mode = "form"
  BY <1>1, DepthPositive DEF Initial, Init
<1>3. /\ DOMAIN U \subseteq Node /\ Antichain(DOMAIN U) /\ \A i \in Index : Path(i) \in DOMAIN U
      /\ DOMAIN areas \subseteq Node /\ Antichain(DOMAIN areas) /\ DOMAIN areas = Groups(d)
  BY <1>2, LeavesApart, GroupsApart, NodeFacts DEF Leaves
<1>4. ASSUME NEW q \in Inner PROVE plain[q] = Obj
  <2>1. PICK i \in Index : IsStrictPrefix(q, Path(i))
    BY DEF Inner
  <2>2. q \notin DOMAIN U
    BY InnerFacts DEF Leaves
  <2>3. plain[q] = IF q \in DOMAIN U THEN Member(U[q], q, q)
                   ELSE IF \E p \in DOMAIN U : IsStrictPrefix(q, p) THEN Obj ELSE Blank[q]
    BY <1>3, InnerPut
  <2>4. QED
    BY <1>3, <2>1, <2>2, <2>3
<1> HIDE DEF plain
<1>5. ASSUME NEW q \in Inner PROVE Standing(form[q], d) /\ AreaValue(form[q])
  <2>1. form[q] = IF q \in DOMAIN areas THEN Member(areas[q], q, q)
                  ELSE IF \E p \in DOMAIN areas : IsStrictPrefix(q, p) THEN Obj ELSE plain[q]
    BY <1>2, <1>3, InnerPut
  <2>2. CASE q \in DOMAIN areas
    <3>1. d = 1
      BY <1>2, <1>3, <2>2, InnerFacts
    <3>2. form[q] = Text(JsonOf(Get(plain, q)))
      BY <2>1, <2>2 DEF Member, Text
    <3>3. JsonOf(Get(plain, q)).t = "tree"
      BY <1>4 DEF Get, JsonOf, Tree
    <3>4. QED
      BY <3>1, <3>2, <3>3 DEF Standing, AreaValue, Folding, Text
  <2>3. CASE q \notin DOMAIN areas
    BY <1>4, <2>1, <2>3 DEF Standing, AreaValue, Obj
  <2>4. QED
    BY <2>2, <2>3
<1>6. QED
  BY <1>1, <1>2, <1>5 DEF ThrowInv, AreasStand

(* Assigning beside the areas.                                              *)
LEMMA StandOne ==
    ASSUME Short, NEW F, NEW d, NEW B, AreasStand(F, d, B), NEW p \in Node, p \notin Inner, NEW v
    PROVE  AreasStand(Put(F, p, v), d, B)
<1> DEFINE U == [q \in {p} |-> v]
<1>1. DOMAIN U = {p} /\ DOMAIN U \subseteq Node /\ Antichain(DOMAIN U)
  BY DEF Antichain
<1>2. ASSUME NEW q \in Inner PROVE Put(F, p, v)[q] \in {F[q], Obj}
  <2>1. PutAll(F, U)[q] = IF q \in DOMAIN U THEN Member(U[q], q, q)
                          ELSE IF \E r \in DOMAIN U : IsStrictPrefix(q, r) THEN Obj ELSE F[q]
    BY <1>1, InnerPut
  <2>2. q \notin DOMAIN U
    BY <1>1
  <2>3. QED
    BY <2>1, <2>2 DEF Put
<1>3. AreaValue(Obj) /\ Standing(Obj, d)
  BY DEF AreaValue, Standing, Obj
<1>4. QED
  BY <1>2, <1>3 DEF AreasStand

(* Below the depth of one, everything above a field is an object.           *)
LEMMA StandAssignable ==
    ASSUME Short, NEW F, NEW d \in Nat \ {0}, AreasStand(F, d, {}), NEW p \in Node, Len(p) = 2 => d # 1
    PROVE  Assignable(F, p)
<1>1. SUFFICES ASSUME NEW r \in Node, IsStrictPrefix(r, p) PROVE F[r] = Obj
  BY DEF Assignable
<1>2. r \in Inner /\ d # 1
  BY <1>1, AboveIsInner
<1>3. QED
  BY <1>2 DEF AreasStand, Standing

LEMMA FormThrow ==
    ASSUME ThrowInv, mode = "form", mode' = "form", depth' \in Depths, ~thrown' => AreasStand(form', depth', broken')
    PROVE  ThrowInv'
BY DEF ThrowInv

LEMMA LeafNotInner == ASSUME Short, NEW i \in Index PROVE Path(i) \in Node /\ Path(i) \notin Inner
BY InnerFacts, NodeFacts

LEMMA TypeThrow ==
    ASSUME Short, ThrowInv, NEW i \in Index, Type(i)
    PROVE  ThrowInv' /\ (thrown' /\ ~thrown => broken # {})
<1>1. /\ mode = "form" /\ mode' = "form" /\ depth' = depth /\ depth \in Depths /\ broken' = broken /\ ~Hidden(i, depth)
      /\ depth \in Nat \ {0}
  BY DepthPositive DEF Type, ThrowInv
<1>2. CASE ~Assignable(form, Path(i))
  <2>1. thrown' = TRUE
    BY <1>2 DEF Type
  <2>2. ASSUME ~thrown, broken = {} PROVE FALSE
    <3>1. AreasStand(form, depth, {})
      BY <2>2 DEF ThrowInv
    <3>2. Len(Path(i)) = 2 => depth # 1
      BY <1>1 DEF Hidden
    <3>3. QED
      BY <1>1, <1>2, <3>1, <3>2, LeafNotInner, StandAssignable
  <2>3. QED
    BY <1>1, <2>1, <2>2, FormThrow
<1>3. CASE Assignable(form, Path(i))
  <2>1. thrown' = thrown /\ \E v : form' = Put(form, Path(i), v)
    BY <1>3 DEF Type
  <2>2. ~thrown => AreasStand(form', depth, broken)
    BY <1>1, <2>1, LeafNotInner, StandOne DEF ThrowInv
  <2>3. QED
    BY <1>1, <2>1, <2>2, FormThrow
<1>4. QED
  BY <1>2, <1>3

LEMMA EditAreaThrow ==
    ASSUME Short, ThrowInv, NEW g, EditArea(g)
    PROVE  ThrowInv' /\ thrown' = thrown
<1>1. /\ mode = "form" /\ mode' = "form" /\ depth' = depth /\ depth \in Depths /\ g \in Groups(depth) /\ thrown' = thrown
      /\ depth \in Nat \ {0} /\ g \in Node
  BY DepthPositive, NodeFacts DEF EditArea, ThrowInv
<1>2. broken' \in {{h \in broken : ~IsPrefix(g, h)}, broken \cup {g}}
  BY DEF EditArea
<1>3. CASE g \notin Inner
  <2>1. \E v : form' = Put(form, g, v)
    BY DEF EditArea
  <2>2. ~thrown => AreasStand(form', depth, broken)
    BY <1>1, <1>3, <2>1, StandOne DEF ThrowInv
  <2>3. ASSUME NEW q \in Inner PROVE q \notin broken' => q \notin broken
    BY <1>1, <1>2, <1>3, InnerFacts
  <2>4. QED
    BY <1>1, <2>2, <2>3, FormThrow DEF AreasStand
<1>4. CASE g \in Inner
  <2>1. depth = 1
    BY <1>1, <1>4, InnerFacts
  <2>2. ASSUME NEW v, v.t # "tree", form' = Put(form, g, v), NEW q \in Inner
        PROVE  form'[q] = IF q = g THEN v ELSE form[q]
    <3> DEFINE U == [r \in {g} |-> v]
    <3>1. DOMAIN U = {g} /\ DOMAIN U \subseteq Node /\ Antichain(DOMAIN U) /\ (q = g => U[q] = v)
      BY <1>1 DEF Antichain
    <3>2. PutAll(form, U)[q] = IF q \in DOMAIN U THEN Member(U[q], q, q)
                               ELSE IF \E p \in DOMAIN U : IsStrictPrefix(q, p) THEN Obj ELSE form[q]
      BY <3>1, InnerPut
    <3>3. ~IsStrictPrefix(q, g)
      BY <1>1, <1>4, AboveIsInner, InnerFacts
    <3>4. form' = PutAll(form, U)
      BY <2>2 DEF Put
    <3>5. QED
      BY <2>2, <3>1, <3>2, <3>3, <3>4 DEF Member
  <2>3. ASSUME NEW v, v.t # "tree", form' = Put(form, g, v), AreaValue(v), Folding(v) \/ broken' = broken \cup {g}
        PROVE  ThrowInv'
    <3>1. ASSUME ~thrown, NEW q \in Inner PROVE AreaValue(form'[q]) /\ (q \notin broken' => Standing(form'[q], depth))
      <4>1. form'[q] = IF q = g THEN v ELSE form[q]
        BY <2>2, <2>3, <3>1
      <4>2. CASE q = g
        BY <2>1, <2>3, <4>1, <4>2 DEF Standing
      <4>3. CASE q # g
        <5>1. q \notin broken' => q \notin broken
          BY <1>1, <1>2, <4>3, InnerFacts
        <5>2. QED
          BY <3>1, <4>1, <4>3, <5>1 DEF ThrowInv, AreasStand
      <4>4. QED
        BY <4>2, <4>3
    <3>2. QED
      BY <1>1, <3>1, FormThrow DEF AreasStand
  <2>4. ASSUME NEW doc \in Docs, form' = Put(form, g, Text(JsonOf(Get(Resource(doc), g)))) PROVE ThrowInv'
    <3>1. PICK i \in Index : IsStrictPrefix(g, Path(i))
      BY <1>4 DEF Inner
    <3>2. Resource(doc)[g] = Obj
      BY <1>1, <3>1, ResourceCarries DEF Assignable
    <3>3. JsonOf(Get(Resource(doc), g)).t = "tree"
      BY <3>2 DEF Get, JsonOf, Tree
    <3>4. QED
      BY <2>3, <2>4, <3>3 DEF AreaValue, Folding, Text
  <2>5. ASSUME NEW v \in {Empty, Text(Tree(Blank))}, form' = Put(form, g, v) PROVE ThrowInv'
    BY <2>3, <2>5 DEF AreaValue, Folding, Text, Tree, Empty
  <2>6. ASSUME NEW v \in {Garbage, Text(Null)}, form' = Put(form, g, v), broken' = broken \cup {g} PROVE ThrowInv'
    BY <2>3, <2>6 DEF AreaValue, Text, Null, Garbage
  <2>7. QED
    BY <1>1, <2>4, <2>5, <2>6 DEF EditArea
<1>5. QED
  BY <1>3, <1>4

(* A change of depth: what it makes of what lies above fields.              *)
LEMMA OpenedInner ==
    ASSUME Short, depth \in Nat \ {0}, NEW d \in Nat \ {0}, d # depth, AreasStand(form, depth, broken), NEW q \in Inner
    PROVE  AreaValue(Opened(form, d)[q]) /\ (q \notin broken => Opened(form, d)[q] = Obj)
<1> DEFINE U == [p \in Opening(form, d) |-> Expanded(p, form[p])]
<1>1. Opened(form, d) = PutAll(form, U) /\ DOMAIN U = Opening(form, d) /\ DOMAIN U \subseteq Groups(depth)
      /\ DOMAIN U \subseteq Node /\ Antichain(DOMAIN U)
  BY NodeFacts, GroupsApart DEF Opened, Opening, Antichain
<1>2. q \in DOMAIN U => U[q] = Expanded(q, form[q])
  OBVIOUS
<1> HIDE DEF U
<1>3. PutAll(form, U)[q] = IF q \in DOMAIN U THEN Member(U[q], q, q)
                           ELSE IF \E p \in DOMAIN U : IsStrictPrefix(q, p) THEN Obj ELSE form[q]
  BY <1>1, InnerPut
<1>4. AreaValue(form[q]) /\ (q \notin broken => Standing(form[q], depth)) /\ ~ListAt(q)
  BY InnerFacts DEF AreasStand
<1>o. AreaValue(Obj)
  BY DEF AreaValue, Obj
<1>5. CASE q \in DOMAIN U
  <2>1. U[q] = IF form[q].t = "text" THEN form[q].of ELSE Tree(Blank)
    BY <1>2, <1>4, <1>5 DEF Expanded
  <2>2. IsString(form[q]) /\ Parses(form[q])
    BY <1>1, <1>5 DEF Opening
  <2>3. U[q].t \in {"tree", "null"} /\ (q \notin broken => U[q].t = "tree")
    BY <1>4, <2>1, <2>2 DEF AreaValue, Standing, Folding, Parses, Tree, Empty, Obj
  <2>4. CASE U[q].t = "tree"
    BY <1>1, <1>3, <1>5, <1>o, <2>4 DEF Member
  <2>5. CASE U[q].t = "null"
    <3>1. PutAll(form, U)[q] = U[q] /\ q \in broken
      BY <1>3, <1>5, <2>3, <2>5 DEF Member
    <3>2. QED
      BY <1>1, <2>5, <3>1 DEF AreaValue
  <2>6. QED
    BY <2>3, <2>4, <2>5
<1>6. CASE q \notin DOMAIN U
  <2>1. q \notin broken => form[q] = Obj
    <3>1. SUFFICES ASSUME q \notin broken, form[q] # Obj PROVE FALSE
      OBVIOUS
    <3>2. depth = 1 /\ Folding(form[q])
      BY <1>4, <3>1 DEF Standing
    <3>3. q \in Groups(depth) /\ q \notin Groups(d)
      BY <3>2, InnerFacts, DepthsDiffer
    <3>4. IsString(form[q]) /\ Parses(form[q])
      BY <3>2 DEF Folding, IsString, Parses, Empty
    <3>5. QED
      BY <1>1, <1>6, <3>3, <3>4 DEF Opening
  <2>2. QED
    BY <1>1, <1>3, <1>4, <1>6, <1>o, <2>1
<1>7. QED
  BY <1>5, <1>6

LEMMA CollapsedInner ==
    ASSUME Short, depth \in Nat \ {0}, NEW d \in Nat \ {0}, d # depth, AreasStand(form, depth, broken)
    PROVE  AreasStand(Collapsed(form, d, Closing(form, d)), d, broken)
<1> DEFINE O == Opened(form, d)
           U == [g \in Closing(form, d) |-> collapseFieldToJson(g, Restored(g, Get(O, g), Groups(depth)))]
<1>1. Collapsed(form, d, Closing(form, d)) = PutAll(O, U) /\ DOMAIN U = Closing(form, d)
      /\ DOMAIN U \subseteq Groups(d) /\ DOMAIN U \subseteq Node /\ Antichain(DOMAIN U)
  BY NodeFacts, GroupsApart DEF Collapsed, Closing, Antichain
<1>u. \A g \in Closing(form, d) : U[g] = collapseFieldToJson(g, Restored(g, Get(O, g), Groups(depth)))
  OBVIOUS
<1>c. \A g \in Closing(form, d) : g \in Groups(d) /\ ~IsString(O[g])
  BY DEF Closing
<1>2. ASSUME NEW q \in Inner PROVE AreaValue(O[q]) /\ (q \notin broken => O[q] = Obj)
  BY OpenedInner
<1>o. AreaValue(Obj) /\ Standing(Obj, d)
  BY DEF AreaValue, Standing, Obj
<1> HIDE DEF O, U
<1>3. ASSUME NEW q \in Inner
      PROVE  AreaValue(PutAll(O, U)[q]) /\ (q \notin broken => Standing(PutAll(O, U)[q], d))
  <2>1. PutAll(O, U)[q] = IF q \in DOMAIN U THEN Member(U[q], q, q)
                          ELSE IF \E p \in DOMAIN U : IsStrictPrefix(q, p) THEN Obj ELSE O[q]
    BY <1>1, InnerPut
  <2>2. CASE q \in DOMAIN U
    <3>1. d = 1 /\ ~IsString(O[q]) /\ ~ListAt(q)
      BY <1>1, <1>c, <2>2, InnerFacts
    <3>2. O[q] = Obj \/ O[q].t \in {"null", "undefined"}
      BY <1>2, <3>1 DEF AreaValue, IsString
    <3>3. U[q].t = "text" /\ U[q].of.t = "tree"
      <4>1. U[q] = collapseFieldToJson(q, Restored(q, Get(O, q), Groups(depth)))
        BY <1>1, <1>u, <2>2
      <4>2. CASE O[q] = Obj
        <5>1. PICK F : Get(O, q) = Tree(F)
          BY <4>2 DEF Get
        <5> DEFINE again == {r \in Groups(depth) : IsStrictPrefix(q, r) /\ Len(r) = Len(q) + 1 /\ F[r].t = "text"}
                   G == PutAll(F, [r \in again |-> F[r].of])
        <5>2. Restored(q, Get(O, q), Groups(depth)) = Tree(G)
          BY <5>1 DEF Restored, Tree
        <5>3. QED
          BY <4>1, <5>2 DEF collapseFieldToJson, IsString, IsNothing, Tree, Text, JsonOf
      <4>3. CASE O[q] # Obj /\ O[q].t \in {"null", "undefined"}
        <5>1. Restored(q, Get(O, q), Groups(depth)) = O[q]
          BY <4>3 DEF Get, Restored
        <5>2. QED
          BY <3>1, <4>1, <4>3, <5>1 DEF collapseFieldToJson, IsString, IsNothing, Tree, Text
      <4>4. QED
        BY <3>2, <4>2, <4>3
    <3>4. PutAll(O, U)[q] = U[q]
      BY <2>1, <2>2, <3>3 DEF Member
    <3>5. QED
      BY <3>1, <3>3, <3>4 DEF AreaValue, Standing, Folding
  <2>3. CASE q \notin DOMAIN U
    BY <1>2, <1>o, <2>1, <2>3
  <2>4. QED
    BY <2>2, <2>3
<1>4. QED
  BY <1>1, <1>3 DEF AreasStand

LEMMA ChangeDepthThrow ==
    ASSUME Short, ThrowInv, NEW d \in Depths, ChangeDepth(d)
    PROVE  ThrowInv' /\ (thrown' /\ ~thrown => broken # {})
<1>1. /\ mode = "form" /\ mode' = "form" /\ d # depth /\ depth \in Depths /\ depth \in Nat \ {0} /\ d \in Nat \ {0}
      /\ broken' = broken
  BY DepthPositive DEF ChangeDepth, ThrowInv
<1>2. CASE Refused(form, d) = {}
  <2>1. thrown' = thrown /\ depth' = d /\ form' = Collapsed(form, d, Closing(form, d))
    BY <1>2 DEF ChangeDepth
  <2>2. ~thrown => AreasStand(Collapsed(form, d, Closing(form, d)), d, broken)
    BY <1>1, CollapsedInner DEF ThrowInv
  <2>3. ~thrown' => AreasStand(form', depth', broken')
    BY <1>1, <2>1, <2>2
  <2>4. QED
    BY <1>1, <2>1, <2>3, FormThrow
<1>3. CASE Refused(form, d) # {}
  <2>1. thrown' = TRUE /\ depth' = depth
    BY <1>3 DEF ChangeDepth
  <2>2. ASSUME ~thrown, broken = {} PROVE FALSE
    <3>1. PICK g \in Closing(form, d) : ~Assignable(Opened(form, d), g)
      BY <1>3 DEF Refused
    <3>2. g \in Node
      BY <1>1, NodeFacts DEF Closing
    <3>3. PICK r \in Node : IsStrictPrefix(r, g) /\ Opened(form, d)[r] # Obj
      BY <3>1 DEF Assignable
    <3>4. r \in Inner
      BY <3>2, <3>3, AboveIsInner
    <3>5. QED
      BY <1>1, <2>2, <3>3, <3>4, OpenedInner DEF ThrowInv
  <2>3. QED
    BY <1>1, <2>1, <2>2, FormThrow
<1>4. QED
  BY <1>2, <1>3

LEMMA SwitchToJsonThrow == ASSUME Short, ThrowInv, SwitchToJson PROVE ThrowInv' /\ thrown' = thrown
<1>1. /\ json' = Tree(ApiObject(form)) /\ mode' = "json" /\ UNCHANGED <<form, depth, broken, thrown>>
      /\ depth \in Depths /\ depth \in Nat \ {0}
  BY DepthPositive DEF SwitchToJson, ThrowInv
<1> DEFINE V == [p \in Leaves(Shown) |-> ApiValue(FieldAt(p), form[p])]
           base == PutAll(Blank, V)
           U == [g \in {h \in Groups(depth) : form[h] # Garbage} |-> IF form[g].t = "text" THEN form[g].of ELSE Null]
           all == PutAll(base, U)
<1>2. ApiObject(form) = JsonMembers(all)
  BY DEF ApiObject, ParseAreas
<1>3. /\ DOMAIN V \subseteq Node /\ Antichain(DOMAIN V) /\ DOMAIN V = Leaves(Shown)
      /\ DOMAIN U \subseteq Node /\ Antichain(DOMAIN U)
      /\ \A g \in DOMAIN U : U[g] = IF form[g].t = "text" THEN form[g].of ELSE Null
  BY <1>1, LeavesApart, GroupsApart, NodeFacts DEF Shown, Antichain
<1>4. ASSUME NEW q \in Inner PROVE base[q] \in {Obj, Undefined}
  <2>1. base[q] = IF q \in DOMAIN V THEN Member(V[q], q, q)
                  ELSE IF \E p \in DOMAIN V : IsStrictPrefix(q, p) THEN Obj ELSE Blank[q]
    BY <1>3, InnerPut
  <2>2. q \notin DOMAIN V /\ q \in Node
    BY <1>3, InnerFacts DEF Leaves, Shown
  <2>3. QED
    BY <2>1, <2>2 DEF Blank
<1> HIDE DEF base, U
<1>5. ASSUME ~thrown, NEW q \in Inner
      PROVE  json'.of[q].t \notin {"list", "indexed"} /\ (json'.of[q].t = "obj" => json'.of[q] = Obj)
  <2>1. all[q] = IF q \in DOMAIN U THEN Member(U[q], q, q)
                 ELSE IF \E p \in DOMAIN U : IsStrictPrefix(q, p) THEN Obj ELSE base[q]
    BY <1>3, InnerPut
  <2>2. AreaValue(form[q])
    BY <1>5 DEF ThrowInv, AreasStand
  <2>3. q \in DOMAIN U => U[q].t \in {"tree", "null"}
    BY <1>3, <2>2 DEF AreaValue, Null
  <2>4. all[q] = Obj \/ all[q].t \in {"null", "undefined"}
    BY <1>4, <2>1, <2>3 DEF Member, Obj, Undefined
  <2>5. json'.of[q] = JsonPart(all[q])
    BY <1>1, <1>2, PutAllNode, InnerFacts DEF Tree, JsonMembers
  <2>6. QED
    BY <2>4, <2>5 DEF JsonPart, JsonLeaf, Obj
<1>6. QED
  BY <1>1, <1>5 DEF ThrowInv

LEMMA EditJsonThrow == ASSUME Short, ThrowInv, EditJson PROVE ThrowInv' /\ thrown' = thrown
<1>1. /\ mode = "json" /\ mode' = "json" /\ json # Garbage /\ UNCHANGED <<form, depth, broken, thrown>>
  BY DEF EditJson
<1>2. ASSUME NEW i \in Index, NEW v, json' = Tree(Put(json.of, Path(i), v)), ~thrown, NEW q \in Inner
      PROVE  json'.of[q].t \notin {"list", "indexed"} /\ (json'.of[q].t = "obj" => json'.of[q] = Obj)
  <2> DEFINE U == [r \in {Path(i)} |-> v]
  <2>1. DOMAIN U = {Path(i)} /\ DOMAIN U \subseteq Node /\ Antichain(DOMAIN U)
    BY NodeFacts DEF Antichain
  <2>2. PutAll(json.of, U)[q] = IF q \in DOMAIN U THEN Member(U[q], q, q)
                                ELSE IF \E p \in DOMAIN U : IsStrictPrefix(q, p) THEN Obj ELSE json.of[q]
    BY <2>1, InnerPut
  <2>3. q \notin DOMAIN U
    BY <2>1, InnerFacts
  <2>4. json'.of = PutAll(json.of, U)
    BY <1>2 DEF Put, Tree
  <2>5. json.of[q].t \notin {"list", "indexed"} /\ (json.of[q].t = "obj" => json.of[q] = Obj)
    BY <1>1, <1>2 DEF ThrowInv
  <2>6. QED
    BY <2>2, <2>3, <2>4, <2>5 DEF Obj
<1>3. json' = Garbage \/ \E i \in Index, doc \in Docs : json' = Tree(Put(json.of, Path(i), doc[i]))
  BY DEF EditJson
<1>4. QED
  BY <1>1, <1>2, <1>3 DEF ThrowInv

LEMMA SwitchToFormThrow ==
    ASSUME Short, ThrowInv, SwitchToForm
    PROVE  ThrowInv' /\ (thrown' /\ ~thrown => broken # {})
<1> DEFINE U == [p \in Leaves(Shown) \cup Groups(depth) |->
                   IF p \in Groups(depth) THEN AreaFromJson(json.of, p) ELSE FromJson(json.of, FieldAt(p))]
           able == {p \in DOMAIN U : Assignable(form, p)}
<1>1. /\ mode = "json" /\ json # Garbage /\ depth' = depth /\ depth \in Depths /\ depth \in Nat \ {0}
  BY DepthPositive DEF SwitchToForm, ThrowInv
<1>2. DOMAIN U = Leaves(Shown) \cup Groups(depth) /\ DOMAIN U \subseteq Node /\ Antichain(DOMAIN U)
      /\ \A g \in Groups(depth) : U[g] = AreaFromJson(json.of, g)
  BY <1>1, UpdateApart
<1>3. CASE able = DOMAIN U
  <2>1. form' = PutAll(form, U) /\ mode' = "form" /\ broken' = {} /\ thrown' = thrown
    BY <1>3 DEF SwitchToForm
  <2> HIDE DEF U
  <2>2. ASSUME ~thrown, NEW q \in Inner PROVE AreaValue(form'[q]) /\ Standing(form'[q], depth)
    <3>1. form'[q] = IF q \in DOMAIN U THEN Member(U[q], q, q)
                     ELSE IF \E p \in DOMAIN U : IsStrictPrefix(q, p) THEN Obj ELSE form[q]
      BY <1>2, <2>1, InnerPut
    <3>2. CASE depth = 1
      <4>1. q \in Groups(depth) /\ q \in DOMAIN U
        BY <1>2, <3>2, InnerFacts
      <4>2. json.of[q].t \notin {"list", "indexed"}
        BY <1>1, <2>2 DEF ThrowInv
      <4>3. U[q].t = "text" /\ U[q].of.t = "tree"
        <5>1. CASE json.of[q] = Obj
          BY <1>2, <4>1, <5>1 DEF AreaFromJson, Get, Tree, Text, Obj
        <5>2. CASE json.of[q] # Obj /\ json.of[q].t = "obj"
          <6>1. QED
            BY <1>1, <2>2, <5>2 DEF ThrowInv
        <5>3. CASE json.of[q].t # "obj"
          BY <1>2, <4>1, <4>2, <5>3 DEF AreaFromJson, Tree, Text
        <5>4. QED
          BY <5>1, <5>2, <5>3
      <4>4. QED
        BY <3>1, <3>2, <4>1, <4>3 DEF Member, AreaValue, Standing, Folding
    <3>3. CASE depth # 1
      <4>1. q \notin DOMAIN U
        BY <1>1, <1>2, <3>3, InnerFacts DEF Leaves, Shown
      <4>2. \E p \in DOMAIN U : IsStrictPrefix(q, p)
        <5>1. PICK i \in Index : IsStrictPrefix(q, Path(i))
          BY DEF Inner
        <5>2. CASE Hidden(i, depth)
          <6>1. Len(Path(i)) = 2 /\ Len(Path(i)) \in Nat /\ Path(i) \in Names
            BY <5>1, AboveIsInner, LeafNotInner, InnerFacts, PathFacts
          <6>2. depth = 2
            BY <1>1, <3>3, <5>2, <6>1 DEF Hidden
          <6>3. Area(i, depth) \in Groups(depth) /\ Len(Area(i, depth)) = 2 /\ IsPrefix(Area(i, depth), Path(i))
                /\ Area(i, depth) \in Names
            BY <1>1, <5>2, <6>2, NodeFacts
          <6>4. Area(i, depth) = Path(i)
            BY <6>1, <6>3, PrefixLen
          <6>5. QED
            BY <1>2, <5>1, <6>3, <6>4
        <5>3. CASE ~Hidden(i, depth)
          BY <1>1, <1>2, <5>1, <5>3, VisibleShown
        <5>4. QED
          BY <5>2, <5>3
      <4>3. QED
        BY <3>1, <4>1, <4>2 DEF AreaValue, Standing, Obj
    <3>4. QED
      BY <3>2, <3>3
  <2>3. QED
    BY <1>1, <2>1, <2>2 DEF ThrowInv, AreasStand
<1>4. CASE able # DOMAIN U
  <2>1. thrown' = TRUE /\ mode' = mode
    BY <1>4 DEF SwitchToForm
  <2>2. ASSUME ~thrown, broken = {} PROVE FALSE
    <3>1. PICK p \in DOMAIN U : ~Assignable(form, p)
      BY <1>4
    <3>2. Len(p) = 2 => depth # 1
      <4>1. CASE p \in Groups(depth)
        <5>1. PICK i \in Index : Hidden(i, depth) /\ p = Area(i, depth)
          BY <4>1 DEF Groups
        <5>2. Len(p) = depth
          BY <1>1, <5>1, NodeFacts
        <5>3. QED
          BY <5>2
      <4>2. CASE p \in Leaves(Shown)
        <5>1. PICK i \in Shown : p = Path(i)
          BY <4>2 DEF Leaves
        <5>2. SUFFICES ASSUME Len(Path(i)) = 2, depth = 1 PROVE FALSE
          BY <5>1
        <5>3. i \in Index /\ Hidden(i, 1)
          BY <5>2 DEF Shown, Hidden
        <5>4. Area(i, depth) \in Groups(depth) /\ IsPrefix(Area(i, depth), Path(i)) /\ Len(Area(i, depth)) = 1
          BY <1>1, <5>2, <5>3, NodeFacts
        <5>5. QED
          BY <5>1, <5>2, <5>4 DEF Shown, IsCollapsedChild, IsStrictPrefix
      <4>3. QED
        BY <1>2, <4>1, <4>2
    <3>3. AreasStand(form, depth, {})
      BY <2>2 DEF ThrowInv
    <3>4. QED
      BY <1>1, <1>2, <3>1, <3>2, <3>3, StandAssignable
  <2>3. QED
    BY <1>1, <2>1, <2>2 DEF ThrowInv
<1>5. QED
  BY <1>3, <1>4

LEMMA StepThrow ==
    ASSUME Short, ThrowInv, [Next]_vars
    PROVE  ThrowInv' /\ (thrown' /\ ~thrown => broken # {})
<1>1. CASE \E i \in Index : Type(i)
  BY <1>1, TypeThrow
<1>2. CASE \E g \in UNION {Groups(d) : d \in Depths} : EditArea(g)
  BY <1>2, EditAreaThrow
<1>3. CASE \E d \in Depths : ChangeDepth(d)
  BY <1>3, ChangeDepthThrow
<1>4. CASE SwitchToJson
  BY <1>4, SwitchToJsonThrow
<1>5. CASE EditJson
  BY <1>5, EditJsonThrow
<1>6. CASE SwitchToForm
  BY <1>6, SwitchToFormThrow
<1>7. CASE JsonSubmit \/ Submit
  BY <1>7 DEF JsonSubmit, Submit, ThrowInv
<1>8. CASE UNCHANGED vars
  BY <1>8 DEF vars, ThrowInv
<1>9. QED
  BY <1>1, <1>2, <1>3, <1>4, <1>5, <1>6, <1>7, <1>8 DEF Next

(* An event handler ends in a TypeError only after the user left text that  *)
(* is no object in an area, where no field lies below two objects: with one *)
(* more, an object without members is enough (setByPath, depthTransition.ts).*)
THEOREM ThrowsAreTheUsers == ASSUME Short PROVE Spec => ThrowsOnlyOnBroken
<1>1. Init => ThrowInv
  BY InitThrow
<1>2. ThrowInv /\ [Next]_vars => ThrowInv' /\ [thrown' /\ ~thrown => broken # {}]_vars
  BY StepThrow
<1>3. QED
  BY <1>1, <1>2, PTL DEF Spec, ThrowsOnlyOnBroken

-----------------------------------------------------------------------------
(* Types.  A form is a tree, and so is every object in a text of it, in a   *)
(* text of that text, and so on: a value is sound at a path when it is in a *)
(* set of values at paths that holds the parts of each of them.             *)
Parts(v, p, S) ==
    /\ v.t = "tree" =>
          /\ DOMAIN v.of = Node
          /\ \A r \in Node : IsStrictPrefix(p, r) =>
                /\ <<v.of[r], r>> \in S
                /\ \A q \in Node : IsStrictPrefix(r, q) /\ v.of[q] # Undefined => v.of[r] = Obj
    /\ v.t = "text" => <<v.of, p>> \in S
    /\ v.t \in {"list", "indexed"} => v = [t |-> v.t, of |-> v.of]
Closed(S) == \A v, p : <<v, p>> \in S => Parts(v, p, S)
Sound(v, p) == \E S : Closed(S) /\ <<v, p>> \in S

(* What a form holds below a path.                                          *)
Branch(F, p) ==
    /\ DOMAIN F = Node
    /\ \A r \in Node : IsStrictPrefix(p, r) =>
          /\ Sound(F[r], r)
          /\ \A q \in Node : IsStrictPrefix(r, q) /\ F[q] # Undefined => F[r] = Obj
Root == <<>>

LEMMA RootAbove == Root \in Names /\ \A q \in Node : IsStrictPrefix(Root, q)
<1>1. Root \in Names /\ Len(Root) = 0
  BY DEF Root, Names
<1>2. ASSUME NEW q \in Node PROVE IsPrefix(Root, q) /\ Root # q
  <2>1. PICK i \in Index : \E n \in 1..Len(Path(i)) : q = SubSeq(Path(i), 1, n)
    BY DEF Node
  <2>2. PICK n \in 1..Len(Path(i)) : q = SubSeq(Path(i), 1, n)
    BY <2>1
  <2>3. q \in Names /\ Len(q) = n /\ n # 0
    BY <2>2, Cut, PathFacts
  <2>4. QED
    BY <1>1, <2>3, PrefixDef
<1>3. QED
  BY <1>1, <1>2 DEF IsStrictPrefix

LEMMA LeafSound ==
    ASSUME NEW v, NEW p, v.t \notin {"tree", "text", "list", "indexed"} PROVE Sound(v, p)
<1> DEFINE S == {<<v, p>>}
<1>1. \A w, q : <<w, q>> \in S => w = v
  OBVIOUS
<1>2. Closed(S)
  BY <1>1 DEF Closed, Parts
<1>3. QED
  BY <1>2 DEF Sound

LEMMA ListSound == ASSUME NEW s, NEW p PROVE Sound(List(s), p) /\ Sound(Indexed(s), p)
<1>1. ASSUME NEW v \in {List(s), Indexed(s)} PROVE Sound(v, p)
  <2> DEFINE S == {<<v, p>>}
  <2>1. \A w, q : <<w, q>> \in S => w = v
    OBVIOUS
  <2>2. v.t \in {"list", "indexed"} /\ v = [t |-> v.t, of |-> v.of]
    BY DEF List, Indexed
  <2>3. Closed(S)
    BY <2>1, <2>2 DEF Closed, Parts
  <2>4. QED
    BY <2>3 DEF Sound
<1>2. QED
  BY <1>1

LEMMA PartsGrow ==
    ASSUME NEW v, NEW p, NEW S, NEW T, S \subseteq T, Parts(v, p, S) PROVE Parts(v, p, T)
BY DEF Parts

LEMMA TextSound == ASSUME NEW x, NEW p, Sound(x, p) PROVE Sound(Text(x), p)
<1>1. PICK S : Closed(S) /\ <<x, p>> \in S
  BY DEF Sound
<1> DEFINE T == S \cup {<<Text(x), p>>}
<1>2. Text(x).t = "text" /\ Text(x).of = x
  BY DEF Text
<1>3. Parts(Text(x), p, T)
  BY <1>1, <1>2 DEF Parts
<1>4. ASSUME NEW w, NEW q, <<w, q>> \in T PROVE Parts(w, q, T)
  <2>1. CASE <<w, q>> \in S
    BY <1>1, <2>1, PartsGrow DEF Closed
  <2>2. CASE <<w, q>> = <<Text(x), p>>
    BY <1>3, <2>2
  <2>3. QED
    BY <1>4, <2>1, <2>2
<1>5. Closed(T)
  BY <1>4 DEF Closed
<1>6. QED
  BY <1>5 DEF Sound

LEMMA InTextSound == ASSUME NEW v, NEW p, Sound(v, p), v.t = "text" PROVE Sound(v.of, p)
BY DEF Sound, Closed, Parts

LEMMA InListSound ==
    ASSUME NEW v, NEW p, Sound(v, p), v.t \in {"list", "indexed"} PROVE v = [t |-> v.t, of |-> v.of]
BY DEF Sound, Closed, Parts

LEMMA TreeSound == ASSUME NEW F, NEW p, Branch(F, p) PROVE Sound(Tree(F), p)
<1> DEFINE Below == {r \in Node : IsStrictPrefix(p, r)}
           set == [r \in Below |-> CHOOSE S : Closed(S) /\ <<F[r], r>> \in S]
           All == {set[r] : r \in Below}
           Big == UNION All
           T == Big \cup {<<Tree(F), p>>}
<1>1. ASSUME NEW r \in Below PROVE Closed(set[r]) /\ <<F[r], r>> \in set[r]
  BY DEF Branch, Sound
<1>2. Tree(F).t = "tree" /\ Tree(F).of = F
  BY DEF Tree
<1> HIDE DEF set
<1>3. \A e : e \in T <=> e = <<Tree(F), p>> \/ \E r \in Below : e \in set[r]
  <2>1. \A S : S \in All <=> \E r \in Below : S = set[r]
    OBVIOUS
  <2> HIDE DEF All
  <2>2. \A e : e \in Big <=> \E S \in All : e \in S
    OBVIOUS
  <2>3. \A e : e \in Big <=> \E r \in Below : e \in set[r]
    <3> HIDE DEF Below
    <3>1. ASSUME NEW e, NEW S \in All, e \in S PROVE \E r \in Below : e \in set[r]
      BY <2>1, <3>1
    <3>2. ASSUME NEW e, NEW r \in Below, e \in set[r] PROVE \E S \in All : e \in S
      BY <2>1, <3>2
    <3>3. QED
      BY <2>2, <3>1, <3>2
  <2> HIDE DEF Big
  <2>4. \A e : e \in T <=> e \in Big \/ e = <<Tree(F), p>>
    OBVIOUS
  <2> HIDE DEF T
  <2>5. QED
    BY <2>3, <2>4
<1> HIDE DEF T
<1>4. Parts(Tree(F), p, T)
  <2>1. \A r \in Node : IsStrictPrefix(p, r) => <<F[r], r>> \in T
    BY <1>1, <1>3
  <2>2. QED
    BY <1>2, <2>1 DEF Parts, Branch
<1>5. ASSUME NEW w, NEW q, <<w, q>> \in T PROVE Parts(w, q, T)
  <2>1. ASSUME NEW r \in Below, <<w, q>> \in set[r] PROVE Parts(w, q, T)
    <3>1. Closed(set[r]) /\ set[r] \subseteq T
      BY <1>1, <1>3
    <3>2. QED
      BY <2>1, <3>1, PartsGrow DEF Closed
  <2>2. CASE <<w, q>> = <<Tree(F), p>>
    BY <1>4, <2>2
  <2>3. QED
    BY <1>3, <1>5, <2>1, <2>2
<1>6. Closed(T) /\ <<Tree(F), p>> \in T
  BY <1>3, <1>5 DEF Closed
<1>7. QED
  BY <1>6 DEF Sound

LEMMA InTreeSound == ASSUME NEW v, NEW p, Sound(v, p), v.t = "tree" PROVE Branch(v.of, p)
<1>1. PICK S : Closed(S) /\ <<v, p>> \in S
  BY DEF Sound
<1>2. Parts(v, p, S)
  BY <1>1 DEF Closed
<1>3. ASSUME NEW r \in Node, IsStrictPrefix(p, r) PROVE Sound(v.of[r], r)
  BY <1>1, <1>2, <1>3 DEF Parts, Sound
<1>4. QED
  BY <1>2, <1>3 DEF Parts, Branch

LEMMA ConstantsSound ==
    ASSUME NEW p
    PROVE  /\ \A v \in {Undefined, Null, Empty, Garbage, NoFile, Obj, Nothing, Husk} : Sound(v, p)
           /\ \A d : Sound(Plain(d), p) /\ Sound(Date(d), p) /\ Sound(Iso(d), p) /\ Sound(Object(d), p)
                     /\ Sound(Stored(d), p) /\ Sound(Existing(d), p) /\ Sound(File(d), p) /\ Sound(Pending(d), p)
<1>1. ASSUME NEW v \in {Undefined, Null, Empty, Garbage, NoFile, Obj, Nothing, Husk} PROVE Sound(v, p)
  <2>1. v.t \notin {"tree", "text", "list", "indexed"}
    BY DEF Undefined, Null, Empty, Garbage, NoFile, Obj, Nothing, Husk
  <2>2. QED
    BY <2>1, LeafSound
<1>2. ASSUME NEW d, NEW v \in {Plain(d), Date(d), Iso(d), Object(d), Stored(d), Existing(d), File(d), Pending(d)}
      PROVE  Sound(v, p)
  <2>1. v.t \notin {"tree", "text", "list", "indexed"}
    BY DEF Plain, Date, Iso, Object, Stored, Existing, File, Pending
  <2>2. QED
    BY <2>1, LeafSound
<1>3. QED
  BY <1>1, <1>2

LEMMA BlankBranch == ASSUME NEW p PROVE Branch(Blank, p) /\ Sound(Tree(Blank), p)
<1>1. Branch(Blank, p)
  BY ConstantsSound DEF Branch, Blank
<1>2. QED
  BY <1>1, TreeSound

-----------------------------------------------------------------------------
(* Updates and conversions.                                                 *)
LEMMA PutBranch ==
    ASSUME NEW g \in Names, NEW F, Branch(F, g), NEW U, DOMAIN U \subseteq Node, Antichain(DOMAIN U),
           \A p \in DOMAIN U : IsStrictPrefix(g, p) /\ Sound(U[p], p)
    PROVE  Branch(PutAll(F, U), g)
<1> DEFINE R == PutAll(F, U)
<1>1. DOMAIN R = Node
  BY DEF PutAll
<1>2. Node \subseteq Names /\ DOMAIN U \subseteq Names
  BY NodeFacts
<1>3. ASSUME NEW p \in DOMAIN U, NEW q \in Node, IsPrefix(p, q) PROVE R[q] = Member(U[p], p, q)
  BY <1>2, <1>3, PutAllBelow
<1>4. ASSUME NEW p \in DOMAIN U, NEW q \in Node, IsStrictPrefix(q, p) PROVE R[q] = Obj
  BY <1>2, <1>4, PutAllAbove
<1>5. ASSUME NEW q \in Node, \A p \in DOMAIN U : ~IsPrefix(p, q) /\ ~IsStrictPrefix(q, p) PROVE R[q] = F[q]
  BY <1>5 DEF PutAll
<1> HIDE DEF R
<1>6. ASSUME NEW r \in Node, IsStrictPrefix(g, r) PROVE Sound(R[r], r)
  <2>1. ASSUME NEW p \in DOMAIN U, IsPrefix(p, r) PROVE Sound(R[r], r)
    <3>1. R[r] = Member(U[p], p, r) /\ Sound(U[p], p)
      BY <1>3, <2>1
    <3>2. CASE U[p].t = "tree" /\ r # p
      BY <2>1, <3>1, <3>2, InTreeSound DEF Member, Branch, IsStrictPrefix
    <3>3. CASE ~(U[p].t = "tree" /\ r # p)
      BY <3>1, <3>3, ConstantsSound DEF Member
    <3>4. QED
      BY <3>2, <3>3
  <2>2. ASSUME NEW p \in DOMAIN U, IsStrictPrefix(r, p) PROVE Sound(R[r], r)
    BY <1>4, <2>2, ConstantsSound
  <2>3. CASE \A p \in DOMAIN U : ~IsPrefix(p, r) /\ ~IsStrictPrefix(r, p)
    BY <1>5, <1>6, <2>3 DEF Branch
  <2>4. QED
    BY <2>1, <2>2, <2>3
<1>7. ASSUME NEW r \in Node, IsStrictPrefix(g, r), NEW q \in Node, IsStrictPrefix(r, q), R[q] # Undefined
      PROVE  R[r] = Obj
  <2>1. ASSUME NEW p \in DOMAIN U, IsPrefix(p, q) PROVE R[r] = Obj
    <3>1. R[q] = Member(U[p], p, q) /\ Sound(U[p], p)
      BY <1>3, <2>1
    <3>2. IsPrefix(p, r) \/ IsStrictPrefix(r, p)
      BY <1>2, <1>7, <2>1, PrefixesMeet, PrefixRefl DEF IsStrictPrefix
    <3>3. CASE IsPrefix(p, r)
      <4>1. p # q
        BY <1>2, <1>7, <3>3, PrefixLen DEF IsStrictPrefix
      <4>2. U[p].t = "tree" /\ U[p].of[q] # Undefined
        BY <1>7, <3>1, <4>1 DEF Member
      <4>3. r # p => U[p].of[r] = Obj
        BY <1>7, <3>1, <3>3, <4>2, InTreeSound DEF Branch, IsStrictPrefix
      <4>4. QED
        BY <1>3, <3>3, <4>2, <4>3 DEF Member
    <3>4. CASE IsStrictPrefix(r, p)
      BY <1>4, <3>4
    <3>5. QED
      BY <3>2, <3>3, <3>4
  <2>2. ASSUME NEW p \in DOMAIN U, IsStrictPrefix(q, p) PROVE R[r] = Obj
    <3>1. IsStrictPrefix(r, p)
      BY <1>2, <1>7, <2>2, PrefixTrans, PrefixLen DEF IsStrictPrefix
    <3>2. QED
      BY <1>4, <3>1
  <2>3. CASE \A p \in DOMAIN U : ~IsPrefix(p, q) /\ ~IsStrictPrefix(q, p)
    <3>1. F[q] # Undefined
      BY <1>5, <1>7, <2>3
    <3>2. F[r] = Obj
      BY <1>7, <3>1 DEF Branch
    <3>3. \A p \in DOMAIN U : ~IsPrefix(p, r)
      BY <1>2, <1>7, <2>3, PrefixTrans DEF IsStrictPrefix
    <3>4. QED
      BY <1>4, <1>5, <3>2, <3>3
  <2>4. QED
    BY <2>1, <2>2, <2>3
<1>8. QED
  BY <1>1, <1>6, <1>7 DEF Branch, R

(* The same for a whole form.                                               *)
LEMMA PutForm ==
    ASSUME NEW F, Branch(F, Root), NEW U, DOMAIN U \subseteq Node, Antichain(DOMAIN U),
           \A p \in DOMAIN U : Sound(U[p], p)
    PROVE  Branch(PutAll(F, U), Root)
BY RootAbove, PutBranch

LEMMA PutOne ==
    ASSUME NEW F, Branch(F, Root), NEW p \in Node, NEW v, Sound(v, p) PROVE Branch(Put(F, p, v), Root)
<1> DEFINE U == [q \in {p} |-> v]
<1>1. DOMAIN U \subseteq Node /\ Antichain(DOMAIN U) /\ \A q \in DOMAIN U : Sound(U[q], q)
  BY DEF Antichain
<1>2. QED
  BY <1>1, PutForm DEF Put

LEMMA GetSound == ASSUME NEW F, Branch(F, Root), NEW p \in Node PROVE Sound(Get(F, p), p)
<1>1. CASE F[p] # Obj
  BY <1>1, RootAbove DEF Get, Branch
<1>2. CASE F[p] = Obj
  <2> DEFINE G == [q \in Node |-> IF IsStrictPrefix(p, q) THEN F[q] ELSE Undefined]
  <2>1. Branch(G, p)
    <3>1. ASSUME NEW r \in Node, IsStrictPrefix(p, r) PROVE Sound(G[r], r)
      BY <3>1, RootAbove DEF Branch
    <3>2. ASSUME NEW r \in Node, IsStrictPrefix(p, r), NEW q \in Node, IsStrictPrefix(r, q), G[q] # Undefined
          PROVE  G[r] = Obj
      <4>1. F[q] # Undefined
        BY <3>2
      <4>2. QED
        BY <3>2, <4>1, RootAbove DEF Branch
    <3>3. QED
      BY <3>1, <3>2 DEF Branch
  <2>2. Get(F, p) = Tree(G)
    BY <1>2 DEF Get
  <2>3. QED
    BY <2>1, <2>2, TreeSound
<1>3. QED
  BY <1>1, <1>2

LEMMA JsonPartSound ==
    ASSUME NEW v, NEW p, Sound(v, p)
    PROVE  /\ Sound(JsonPart(v), p)
           /\ v = Obj => JsonPart(v) = Obj
           /\ v = Undefined => JsonPart(v) = Undefined
<1>1. CASE v.t \in {"list", "indexed"}
  <2>1. v = [t |-> v.t, of |-> v.of]
    BY <1>1, InListSound
  <2>2. JsonPart(v) = [t |-> v.t, of |-> [j \in DOMAIN v.of |-> JsonLeaf(v.of[j])]]
    BY <1>1, <2>1 DEF JsonPart
  <2>3. JsonPart(v) = List([j \in DOMAIN v.of |-> JsonLeaf(v.of[j])])
        \/ JsonPart(v) = Indexed([j \in DOMAIN v.of |-> JsonLeaf(v.of[j])])
    BY <1>1, <2>2 DEF List, Indexed
  <2>4. v # Obj /\ v # Undefined
    BY <1>1 DEF Obj, Undefined
  <2>5. QED
    BY <2>3, <2>4, ListSound
<1>2. CASE v.t \notin {"list", "indexed"}
  <2>1. JsonPart(v) = JsonLeaf(v)
    BY <1>2 DEF JsonPart
  <2>2. JsonLeaf(v) = v \/ JsonLeaf(v) = Iso(v.of) \/ JsonLeaf(v) = Husk
    BY DEF JsonLeaf
  <2>3. (v = Obj \/ v = Undefined) => JsonLeaf(v) = v
    BY DEF JsonLeaf, Obj, Undefined
  <2>4. QED
    BY <2>1, <2>2, <2>3, ConstantsSound
<1>3. QED
  BY <1>1, <1>2

LEMMA JsonMembersBranch == ASSUME NEW F, NEW p, Branch(F, p) PROVE Branch(JsonMembers(F), p)
<1>1. DOMAIN JsonMembers(F) = Node /\ \A q \in Node : JsonMembers(F)[q] = JsonPart(F[q])
  BY DEF JsonMembers, Branch
<1>2. ASSUME NEW r \in Node, IsStrictPrefix(p, r) PROVE Sound(JsonMembers(F)[r], r)
  BY <1>1, <1>2, JsonPartSound DEF Branch
<1>3. ASSUME NEW r \in Node, IsStrictPrefix(p, r), NEW q \in Node, IsStrictPrefix(r, q), JsonMembers(F)[q] # Undefined
      PROVE  JsonMembers(F)[r] = Obj
  <2>1. F[q] # Undefined
    <3>1. Sound(Undefined, q)
      BY ConstantsSound
    <3>2. QED
      BY <1>1, <1>3, <3>1, JsonPartSound
  <2>2. F[r] = Obj /\ Sound(F[r], r)
    BY <1>3, <2>1 DEF Branch
  <2>3. QED
    BY <1>1, <2>2, JsonPartSound
<1>4. QED
  BY <1>1, <1>2, <1>3 DEF Branch

LEMMA JsonSound == ASSUME NEW v, NEW p, Sound(v, p) PROVE Sound(JsonOf(v), p)
<1>1. CASE v.t = "tree"
  BY <1>1, InTreeSound, JsonMembersBranch, TreeSound DEF JsonOf
<1>2. CASE v.t # "tree"
  BY <1>2, JsonPartSound DEF JsonOf
<1>3. QED
  BY <1>1, <1>2

LEMMA ConversionsSound ==
    ASSUME NEW k \in Kinds, NEW n \in BOOLEAN, NEW v, NEW p, Sound(v, p)
    PROVE  Sound(toFormValue(k, v), p) /\ Sound(toApiValue(k, n, v), p) /\ Sound(fromJsonValue(k, v), p)
<1>1. k \in {"string", "number", "date", "object", "binary"}
  BY DEF Kinds
<1>2. v.t = "text" => Sound(v.of, p)
  BY InTextSound
<1>3. Sound(Text(v), p)
  BY TextSound
<1>4. Sound(toFormValue(k, v), p)
  BY <1>1, <1>3, ConstantsSound DEF toFormValue
<1>5. Sound(toApiValue(k, n, v), p)
  BY <1>1, <1>2, ConstantsSound DEF toApiValue
<1>6. Sound(fromJsonValue(k, v), p)
  BY <1>1, <1>3, ConstantsSound DEF fromJsonValue
<1>7. QED
  BY <1>4, <1>5, <1>6

(* The conversions of a field.                                              *)
LEMMA FieldConversionsSound ==
    ASSUME NEW i \in Index, NEW v, NEW p, Sound(v, p)
    PROVE  Sound(FormValue(i, v), p) /\ Sound(ApiValue(i, v), p)
<1>1. CASE IsList(i)
  BY <1>1, ListSound DEF FormValue, ApiValue, Each
<1>2. CASE ~IsList(i)
  BY <1>2, PathFacts, ConversionsSound DEF FormValue, ApiValue
<1>3. QED
  BY <1>1, <1>2

LEMMA FromJsonSound ==
    ASSUME NEW i \in Index, NEW G, Branch(G, Root) PROVE Sound(FromJson(G, i), Path(i))
<1>1. CASE IsList(i)
  BY <1>1, ListSound DEF FromJson, Each
<1>2. CASE ~IsList(i)
  <2>1. Sound(G[Path(i)], Path(i))
    BY RootAbove, NodeFacts DEF Branch
  <2>2. QED
    BY <1>2, <2>1, PathFacts, ConversionsSound DEF FromJson
<1>3. QED
  BY <1>1, <1>2

LEMMA WantedSound == ASSUME NEW i \in Index, NEW w, WantedField(i, w), NEW p PROVE Sound(w, p)
<1>1. CASE IsList(i)
  BY <1>1, ListSound DEF WantedField
<1>2. CASE ~IsList(i)
  <2>1. w.t \in Tags
    BY <1>2, PathFacts, WantedJson DEF WantedField
  <2>2. QED
    BY <2>1, LeafSound DEF Tags
<1>3. QED
  BY <1>1, <1>2

LEMMA InputSound == ASSUME NEW i \in Index, NEW e \in Inputs(i), NEW p PROVE Sound(e[1], p)
<1>1. CASE IsList(i)
  <2>1. e = <<List(<<>>), List(<<>>)>> \/ \E f \in Entries(Kind(i), Nullable(i)) : e = <<List(<<f[1]>>), List(<<f[2]>>)>>
    BY <1>1 DEF Inputs
  <2>2. CASE e = <<List(<<>>), List(<<>>)>>
    BY <2>2, ListSound
  <2>3. ASSUME NEW f, e = <<List(<<f[1]>>), List(<<f[2]>>)>> PROVE Sound(e[1], p)
    BY <2>3, ListSound
  <2>4. QED
    BY <2>1, <2>2, <2>3
<1>2. CASE ~IsList(i)
  <2>1. e \in Entries(Kind(i), Nullable(i)) /\ Kind(i) \in {"string", "number", "date", "object", "binary"}
    BY <1>2, PathFacts DEF Inputs, Kinds
  <2>2. e[1] = Empty \/ e[1] = Null \/ e[1] = NoFile
        \/ \E d \in Datum : e[1] = Plain(d) \/ e[1] = Date(d) \/ e[1] = Text(Object(d)) \/ e[1] = File(d)
    BY <2>1 DEF Entries
  <2>3. QED
    BY <2>2, ConstantsSound, TextSound
<1>3. QED
  BY <1>1, <1>2

LEMMA ResourceBranch == ASSUME NEW doc \in Docs PROVE Branch(Resource(doc), Root)
<1> DEFINE U == [p \in Leaves(Index) |-> doc[FieldAt(p)]]
<1>1. DOMAIN U \subseteq Node /\ Antichain(DOMAIN U)
  BY LeavesApart
<1>2. ASSUME NEW p \in DOMAIN U PROVE Sound(U[p], p)
  <2>1. PICK i \in Index : p = Path(i)
    BY DEF Leaves
  <2>2. U[p] = doc[i]
    BY <2>1, FieldAtPath
  <2>3. QED
    BY <2>2, DocWanted, WantedSound
<1> HIDE DEF U
<1>3. Branch(PutAll(Blank, U), Root)
  BY <1>1, <1>2, PutForm, BlankBranch
<1>4. QED
  BY <1>3 DEF Resource, U

LEMMA InitialBranch == ASSUME NEW doc \in Docs, NEW d \in Nat \ {0} PROVE Branch(Initial(doc, d), Root)
<1> DEFINE U == [p \in Leaves(Index) |-> FormValue(FieldAt(p), doc[FieldAt(p)])]
           plain == PutAll(Blank, U)
           areas == [g \in Groups(d) |-> Text(JsonOf(Get(plain, g)))]
<1>1. DOMAIN U \subseteq Node /\ Antichain(DOMAIN U) /\ DOMAIN areas \subseteq Node /\ Antichain(DOMAIN areas)
  BY LeavesApart, GroupsApart, NodeFacts
<1>2. ASSUME NEW p \in DOMAIN U PROVE Sound(U[p], p)
  <2>1. PICK i \in Index : p = Path(i)
    BY DEF Leaves
  <2>2. U[p] = FormValue(i, doc[i])
    BY <2>1, FieldAtPath
  <2>3. QED
    BY <2>2, DocWanted, WantedSound, FieldConversionsSound
<1>3. Initial(doc, d) = PutAll(plain, areas)
  BY DEF Initial
<1>4. \A g \in DOMAIN areas : areas[g] = Text(JsonOf(Get(plain, g)))
  OBVIOUS
<1> HIDE DEF U
<1>5. Branch(plain, Root)
  BY <1>1, <1>2, PutForm, BlankBranch
<1> HIDE DEF plain, areas
<1>6. \A g \in DOMAIN areas : Sound(areas[g], g)
  BY <1>1, <1>4, <1>5, GetSound, JsonSound, TextSound
<1>7. QED
  BY <1>1, <1>3, <1>5, <1>6, PutForm

LEMMA ApiBranch ==
    ASSUME depth \in Nat \ {0}, NEW F, Branch(F, Root) PROVE Branch(ApiObject(F), Root)
<1> DEFINE V == [p \in Leaves(Shown) |-> ApiValue(FieldAt(p), F[p])]
           base == PutAll(Blank, V)
           U == [g \in {h \in Groups(depth) : F[h] # Garbage} |-> IF F[g].t = "text" THEN F[g].of ELSE Null]
<1>1. ApiObject(F) = JsonMembers(PutAll(base, U))
  BY DEF ApiObject, ParseAreas
<1>2. /\ DOMAIN V \subseteq Node /\ Antichain(DOMAIN V)
      /\ DOMAIN U \subseteq Node /\ Antichain(DOMAIN U)
  BY LeavesApart, GroupsApart, NodeFacts DEF Shown, Antichain
<1>3. \A q \in Node : Sound(F[q], q)
  BY RootAbove DEF Branch
<1>4. ASSUME NEW p \in DOMAIN V PROVE Sound(V[p], p)
  <2>1. PICK i \in Index : p = Path(i)
    BY DEF Leaves, Shown
  <2>2. V[p] = ApiValue(i, F[p])
    BY <2>1, FieldAtPath
  <2>3. QED
    BY <1>2, <1>3, <2>2, FieldConversionsSound
<1>5. ASSUME NEW g \in DOMAIN U PROVE Sound(U[g], g)
  BY <1>2, <1>3, InTextSound, ConstantsSound
<1> HIDE DEF V, U
<1>6. Branch(base, Root)
  BY <1>2, <1>4, PutForm, BlankBranch
<1>7. Branch(PutAll(base, U), Root)
  BY <1>2, <1>5, <1>6, PutForm
<1>8. QED
  BY <1>1, <1>7, JsonMembersBranch

(* A change of depth.                                                       *)
LEMMA OpenedBranch ==
    ASSUME depth \in Nat \ {0}, NEW F, Branch(F, Root), NEW d PROVE Branch(Opened(F, d), Root)
<1> DEFINE U == [p \in Opening(F, d) |-> Expanded(p, F[p])]
<1>1. DOMAIN U \subseteq Node /\ Antichain(DOMAIN U)
  BY GroupsApart, NodeFacts DEF Opening, Antichain
<1>2. ASSUME NEW p \in DOMAIN U PROVE Sound(U[p], p)
  <2> DEFINE x == IF F[p].t = "text" THEN F[p].of ELSE Tree(Blank)
  <2>1. Sound(x, p)
    BY <1>1, RootAbove, InTextSound, BlankBranch DEF Branch
  <2>2. U[p] = IF ListAt(p) THEN FormValue(FieldAt(p), x) ELSE x
    BY DEF Expanded
  <2>3. ListAt(p) => FieldAt(p) \in Index
    BY FieldAtPath DEF ListAt
  <2> HIDE DEF x, U
  <2>4. QED
    BY <2>1, <2>2, <2>3, FieldConversionsSound
<1>3. QED
  BY <1>1, <1>2, PutForm DEF Opened

LEMMA RestoredSound ==
    ASSUME NEW d \in Nat \ {0}, NEW p \in Node, NEW v, Sound(v, p) PROVE Sound(Restored(p, v, Groups(d)), p)
<1>1. CASE v.t = "list"
  BY <1>1, ListSound, BlankBranch DEF Restored
<1>2. CASE v.t = "tree"
  <2> DEFINE again == {q \in Groups(d) : IsStrictPrefix(p, q) /\ Len(q) = Len(p) + 1 /\ v.of[q].t = "text"}
             U == [q \in again |-> v.of[q].of]
  <2>1. Restored(p, v, Groups(d)) = Tree(PutAll(v.of, U))
    BY <1>2 DEF Restored
  <2>2. Branch(v.of, p) /\ p \in Names
    BY <1>2, InTreeSound, NodeFacts
  <2>3. DOMAIN U \subseteq Node /\ Antichain(DOMAIN U)
    BY GroupsApart, NodeFacts DEF Antichain
  <2>4. ASSUME NEW q \in DOMAIN U PROVE IsStrictPrefix(p, q) /\ Sound(U[q], q)
    BY <2>2, <2>3, InTextSound DEF Branch
  <2> HIDE DEF U
  <2>5. Branch(PutAll(v.of, U), p)
    BY <2>2, <2>3, <2>4, PutBranch
  <2>6. QED
    BY <2>1, <2>5, TreeSound
<1>3. CASE v.t \notin {"list", "tree"}
  BY <1>3 DEF Restored
<1>4. QED
  BY <1>1, <1>2, <1>3

LEMMA CollapsedBranch ==
    ASSUME depth \in Nat \ {0}, NEW F, Branch(F, Root), NEW d \in Nat \ {0}, NEW P \in SUBSET Closing(F, d)
    PROVE  Branch(Collapsed(F, d, P), Root)
<1> DEFINE O == Opened(F, d)
           U == [g \in P |-> collapseFieldToJson(g, Restored(g, Get(O, g), Groups(depth)))]
<1>1. Branch(O, Root)
  BY OpenedBranch
<1>2. DOMAIN U \subseteq Node /\ Antichain(DOMAIN U)
  BY GroupsApart, NodeFacts DEF Closing, Antichain
<1>3. Collapsed(F, d, P) = PutAll(O, U)
  BY DEF Collapsed
<1> HIDE DEF O
<1>4. ASSUME NEW g \in DOMAIN U PROVE Sound(U[g], g)
  <2> DEFINE v == Restored(g, Get(O, g), Groups(depth))
  <2>1. Sound(v, g)
    BY <1>1, <1>2, GetSound, RestoredSound
  <2>2. U[g] = collapseFieldToJson(g, v)
    OBVIOUS
  <2> HIDE DEF v, U
  <2>3. Sound(List(<<>>), g) /\ Sound(Tree(Blank), g) /\ Sound(JsonOf(v), g)
    BY <2>1, ListSound, BlankBranch, JsonSound
  <2>4. QED
    BY <2>1, <2>2, <2>3, TextSound DEF collapseFieldToJson
<1> HIDE DEF U
<1>5. QED
  BY <1>1, <1>2, <1>3, <1>4, PutForm

-----------------------------------------------------------------------------
(* The steps.                                                               *)
FormInv ==
    /\ TypeOK
    /\ Branch(form, Root)
    /\ json \in {Nothing, Garbage} \/ (json.t = "tree" /\ Branch(json.of, Root))
    /\ mode = "json" => json # Nothing

LEMMA BranchTyped ==
    ASSUME NEW F, Branch(F, Root)
    PROVE  DOMAIN F = Node /\ \A p, q \in Node : IsStrictPrefix(p, q) /\ F[q] # Undefined => F[p] = Obj
BY RootAbove DEF Branch

LEMMA InitForm == ASSUME Init PROVE FormInv
<1>1. PICK doc \in Docs, d \in Depths : form = Initial(doc, d) /\ depth = d /\ want = [i \in Index |-> doc[i]] /\ folded = FoldedAt(d)
  BY DEF Init
<1>2. Branch(form, Root)
  BY <1>1, DepthPositive, InitialBranch
<1>3. json = Nothing /\ Nothing.t = "nothing" /\ sent = Nothing /\ mode = "form" /\ edits = 0
      /\ lost = {} /\ broken = {} /\ thrown = FALSE
  BY DEF Init, Nothing
<1>4. TypeOK
  <2>1. DOMAIN want = Index /\ folded \subseteq Index /\ depth \in Depths
    BY <1>1 DEF FoldedAt
  <2>2. edits \in 0..MaxEdits
    BY <1>3, EditsAssumption
  <2>3. QED
    BY <1>2, <1>3, <2>1, <2>2, BranchTyped DEF TypeOK
<1>5. QED
  BY <1>2, <1>3, <1>4 DEF FormInv

LEMMA TypeForm == ASSUME FormInv, NEW i \in Index, Type(i) PROVE FormInv'
<1>1. Branch(form', Root)
  <2>1. CASE form' = form
    BY <2>1 DEF FormInv
  <2>2. ASSUME NEW e \in Inputs(i), form' = Put(form, Path(i), e[1]) PROVE Branch(form', Root)
    BY <2>2, NodeFacts, InputSound, PutOne DEF FormInv
  <2>3. CASE form' = Put(form, Path(i), Garbage)
    BY <2>3, NodeFacts, ConstantsSound, PutOne DEF FormInv
  <2>4. QED
    BY <2>1, <2>2, <2>3 DEF Type
<1>2. edits' \in 0..MaxEdits /\ UNCHANGED <<depth, mode, json, sent, broken>>
  BY EditsAssumption DEF Type, FormInv, TypeOK
<1>3. DOMAIN want' = Index
  <2>1. want' = want \/ \E w : want' = [want EXCEPT ![i] = w]
    BY DEF Type
  <2>2. QED
    BY <2>1 DEF FormInv, TypeOK
<1>4. thrown' \in BOOLEAN /\ folded' \subseteq folded
  BY DEF Type, FormInv, TypeOK
<1>5. lost' \subseteq lost \cup {i}
  BY DEF Type
<1>6. folded' \subseteq Index /\ lost' \subseteq Index
  BY <1>4, <1>5 DEF FormInv, TypeOK
<1>7. QED
  BY <1>1, <1>2, <1>3, <1>4, <1>6, BranchTyped DEF FormInv, TypeOK

LEMMA EditAreaForm == ASSUME FormInv, NEW g, EditArea(g) PROVE FormInv'
<1>0. g \in Groups(depth) /\ g \in Node /\ Branch(form, Root) /\ TypeOK
  BY DepthPositive, NodeFacts DEF EditArea, FormInv, TypeOK
<1>1. Branch(form', Root)
  <2>1. ASSUME NEW doc \in Docs, form' = Put(form, g, Text(JsonOf(Get(Resource(doc), g)))) PROVE Branch(form', Root)
    BY <1>0, <2>1, ResourceBranch, GetSound, JsonSound, TextSound, PutOne
  <2>2. ASSUME NEW v \in {Empty, Text(Tree(Blank)), Garbage, Text(Null)}, form' = Put(form, g, v) PROVE Branch(form', Root)
    BY <1>0, <2>2, ConstantsSound, BlankBranch, TextSound, PutOne
  <2>3. QED
    BY <2>1, <2>2 DEF EditArea
<1>2. edits' \in 0..MaxEdits /\ DOMAIN want' = Index /\ folded' \subseteq Index /\ lost' \subseteq Index
      /\ broken' \subseteq Node /\ UNCHANGED <<depth, mode, json, sent, thrown>>
  BY <1>0, EditsAssumption DEF EditArea, TypeOK, Inside
<1>3. QED
  BY <1>1, <1>2, BranchTyped DEF FormInv, TypeOK

LEMMA ChangeDepthForm == ASSUME FormInv, NEW d \in Depths, ChangeDepth(d) PROVE FormInv'
<1>0. depth \in Nat \ {0} /\ d \in Nat \ {0} /\ Branch(form, Root) /\ TypeOK
  BY DepthPositive DEF FormInv, TypeOK
<1>1. \E P \in SUBSET Closing(form, d) : form' = Collapsed(form, d, P)
  BY DEF ChangeDepth
<1>2. Branch(form', Root)
  BY <1>0, <1>1, CollapsedBranch
<1>3. depth' \in Depths /\ thrown' \in BOOLEAN /\ folded' \subseteq Index /\ lost' \subseteq Index
      /\ UNCHANGED <<mode, json, sent, edits, want, broken>>
  BY <1>0 DEF ChangeDepth, TypeOK, FoldedAt
<1>4. QED
  BY <1>2, <1>3, BranchTyped DEF FormInv, TypeOK

LEMMA SwitchToJsonForm == ASSUME FormInv, SwitchToJson PROVE FormInv'
<1>1. json' = Tree(ApiObject(form)) /\ mode' = "json" /\ folded' \subseteq Index
      /\ UNCHANGED <<form, depth, sent, edits, want, lost, broken, thrown>>
  BY DEF SwitchToJson, FormInv, TypeOK
<1>2. Branch(ApiObject(form), Root)
  BY DepthPositive, ApiBranch DEF FormInv, TypeOK
<1>3. json'.t = "tree" /\ Branch(json'.of, Root) /\ json' # Nothing
  BY <1>1, <1>2 DEF Tree, Nothing
<1>4. QED
  BY <1>1, <1>3 DEF FormInv, TypeOK

LEMMA EditJsonForm == ASSUME FormInv, EditJson PROVE FormInv'
<1>1. json.t = "tree" /\ Branch(json.of, Root)
  BY DEF FormInv, EditJson
<1>2. json' = Garbage \/ (json'.t = "tree" /\ Branch(json'.of, Root))
  <2>1. ASSUME NEW i \in Index, NEW doc \in Docs, json' = Tree(Put(json.of, Path(i), doc[i]))
        PROVE  json'.t = "tree" /\ Branch(json'.of, Root)
    <3>1. Branch(Put(json.of, Path(i), doc[i]), Root)
      BY <1>1, NodeFacts, DocWanted, WantedSound, PutOne
    <3>2. QED
      BY <2>1, <3>1 DEF Tree
  <2>2. QED
    BY <2>1 DEF EditJson
<1>3. edits' \in 0..MaxEdits /\ DOMAIN want' = Index /\ folded' \subseteq Index /\ lost' \subseteq Index
      /\ UNCHANGED <<form, depth, mode, sent, broken, thrown>>
  BY EditsAssumption DEF EditJson, FormInv, TypeOK
<1>4. json'.t \in {"garbage", "tree"} /\ json' # Nothing
  BY <1>2 DEF Garbage, Nothing
<1>5. QED
  BY <1>2, <1>3, <1>4 DEF FormInv, TypeOK

LEMMA SwitchToFormForm == ASSUME FormInv, SwitchToForm PROVE FormInv'
<1>0. depth \in Nat \ {0} /\ Branch(form, Root) /\ Branch(json.of, Root) /\ TypeOK
  BY DepthPositive DEF FormInv, TypeOK, SwitchToForm
<1> DEFINE update == [p \in Leaves(Shown) \cup Groups(depth) |->
                        IF p \in Groups(depth) THEN AreaFromJson(json.of, p) ELSE FromJson(json.of, FieldAt(p))]
<1>1. Antichain(DOMAIN update) /\ DOMAIN update \subseteq Node
  BY <1>0, UpdateApart
<1>2. ASSUME NEW p \in DOMAIN update PROVE Sound(update[p], p)
  <2>1. CASE p \in Groups(depth)
    <3>1. Sound(Get(json.of, p), p) /\ Sound(Tree(Blank), p)
      BY <1>0, <1>1, GetSound, BlankBranch
    <3>2. update[p] = AreaFromJson(json.of, p)
      BY <2>1
    <3>3. QED
      BY <3>1, <3>2, TextSound DEF AreaFromJson
  <2>2. CASE p \notin Groups(depth)
    <3>1. PICK i \in Index : p = Path(i)
      BY <2>2 DEF Leaves, Shown
    <3>2. update[p] = FromJson(json.of, i)
      BY <2>2, <3>1, FieldAtPath
    <3>3. QED
      BY <1>0, <3>1, <3>2, FromJsonSound
  <2>3. QED
    BY <2>1, <2>2
<1>3. \/ form' = PutAll(form, update) /\ mode' = "form" /\ json' = Nothing /\ broken' = {} /\ UNCHANGED thrown
      \/ /\ \E P \in SUBSET DOMAIN update : form' = PutAll(form, [p \in P |-> update[p]])
         /\ thrown' = TRUE /\ UNCHANGED <<mode, json, broken>>
  BY DEF SwitchToForm
<1> HIDE DEF update
<1>4. Branch(form', Root)
  <2>1. CASE form' = PutAll(form, update)
    BY <1>0, <1>1, <1>2, <2>1, PutForm
  <2>2. ASSUME NEW P \in SUBSET DOMAIN update, form' = PutAll(form, [p \in P |-> update[p]]) PROVE Branch(form', Root)
    <3> DEFINE U == [p \in P |-> update[p]]
    <3>1. DOMAIN U \subseteq Node /\ Antichain(DOMAIN U) /\ \A p \in DOMAIN U : Sound(U[p], p)
      BY <1>1, <1>2 DEF Antichain
    <3>2. QED
      BY <1>0, <2>2, <3>1, PutForm
  <2>3. QED
    BY <1>3, <2>1, <2>2
<1>5. folded' \subseteq Index /\ UNCHANGED <<depth, sent, edits, want, lost>>
  BY <1>0 DEF SwitchToForm, TypeOK, FoldedAt
<1>6. Nothing.t = "nothing"
  BY DEF Nothing
<1>7. QED
  BY <1>3, <1>4, <1>5, <1>6, BranchTyped DEF FormInv, TypeOK

LEMMA SubmitForm == ASSUME FormInv, Submit \/ JsonSubmit PROVE FormInv'
<1>1. sent'.t = "tree" /\ mode' = "closed"
  BY DEF Submit, JsonSubmit, FormInv, Tree
<1>2. UNCHANGED <<form, depth, json, edits, want, folded, lost, broken, thrown>>
  BY DEF Submit, JsonSubmit
<1>3. QED
  BY <1>1, <1>2 DEF FormInv, TypeOK

LEMMA StepForm == ASSUME FormInv, [Next]_vars PROVE FormInv'
<1>1. CASE UNCHANGED vars
  BY <1>1 DEF vars, FormInv, TypeOK
<1>2. CASE Next
  BY <1>2, TypeForm, EditAreaForm, ChangeDepthForm, SwitchToJsonForm, EditJsonForm, SwitchToFormForm, SubmitForm DEF Next
<1>3. QED
  BY <1>1, <1>2

(* The form is a tree at every moment, with nothing below what is no object, *)
(* whatever the user types, folds, unfolds and switches, for any fields,     *)
(* resources and depths: also after a handler that ended in a TypeError.     *)
THEOREM FormIsTree == Spec => []TypeOK
<1>1. FormInv => TypeOK
  BY DEF FormInv
<1>2. QED
  BY <1>1, InitForm, StepForm, PTL DEF Spec
=============================================================================
