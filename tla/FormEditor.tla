----------------------------- MODULE FormEditor -----------------------------
(***************************************************************************)
(* The form a resource is edited with in the web interface:                *)
(* useResourceForm.ts and the helpers it calls.  A form shows fields down  *)
(* to a depth; what lies deeper is folded into text areas that hold JSON.  *)
(* The user types, changes the depth, and switches to one JSON text for    *)
(* the whole resource and back; every change of representation converts.   *)
(*                                                                         *)
(* A JavaScript value is a record with a tag "t".  A string that is the    *)
(* JSON of x is Text(x), a string that is no JSON is Garbage.  The members *)
(* of an object are kept by their full paths: a form, or an object in it,  *)
(* is a function from all paths, which says Obj where an object is and     *)
(* Undefined where nothing is.                                             *)
(***************************************************************************)
EXTENDS Naturals, Sequences, FiniteSets, SequencesExt

CONSTANTS
    Fields,      \* config.fields: records [path, kind, list, nullable]
    Docs,        \* the resources the form may be opened on: functions from DOMAIN Fields to API values
    Datum,       \* plain values a user may enter
    Depths,      \* config.maxFormDepth, and the depths the user sets, are any of these
    Schemas,     \* whether config.zodSchema is there: a subset of BOOLEAN
    MaxEdits     \* how often the user edits a value

VARIABLES
    form,        \* form.getValues()
    depth,       \* formDepth; prevCollapsedGroupPathsRef is Groups(depth)
    mode,        \* editMode
    json,        \* what jsonText parses to, Garbage, or Nothing yet
    sent,        \* the last value given to onSubmit, or Nothing
    edits,
    want,        \* what the user means each field to be
    folded,      \* fields that were part of a JSON text, or files that were shown as JSON
    lost,        \* fields left as text that is no JSON, and lists a change of depth made objects of
    broken,      \* areas the user left with text that is no JSON object
    thrown       \* an event handler ended in a TypeError

vars == <<form, depth, mode, json, sent, edits, want, folded, lost, broken, thrown>>

-----------------------------------------------------------------------------
(* Values. *)

Undefined == [t |-> "undefined"]
Null      == [t |-> "null"]
Empty     == [t |-> "empty"]        \* ''
Garbage   == [t |-> "garbage"]
NoFile    == [t |-> "noFile"]       \* { _mode: 'empty' }
Obj       == [t |-> "obj"]          \* an object, of which the members are at the paths below
Nothing   == [t |-> "nothing"]
Husk      == [t |-> "husk"]         \* what JSON.stringify leaves of a File
Plain(d)  == [t |-> "plain", of |-> d]
Date(d)   == [t |-> "date", of |-> d]
Iso(d)    == [t |-> "iso", of |-> d]
Object(d) == [t |-> "object", of |-> d]
Text(x)   == [t |-> "text", of |-> x]
Tree(F)   == [t |-> "tree", of |-> F]
List(s)   == [t |-> "list", of |-> s]
Indexed(s)  == [t |-> "indexed", of |-> s]   \* an object with the members "0", "1", ...
Stored(d)   == [t |-> "stored", of |-> d]    \* { file_id }
Existing(d) == [t |-> "existing", of |-> d]  \* { _mode: 'existing', file_id }
File(d)     == [t |-> "file", of |-> d]      \* { _mode: 'file', file }
Pending(d)  == [t |-> "pending", of |-> d]   \* { _pending_file }

IsString(v) == v.t \in {"empty", "text", "garbage", "iso"}
IsNothing(v) == v.t \in {"null", "undefined"}

(* JSON.stringify and back: dates become strings, files lose their content, *)
(* what is undefined goes.                                                  *)
JsonLeaf(v) == CASE v.t = "date" -> Iso(v.of)
                 [] v.t = "file" -> Husk
                 [] OTHER        -> v
JsonPart(v) == IF v.t \in {"list", "indexed"} THEN [v EXCEPT !.of = [j \in DOMAIN @ |-> JsonLeaf(@[j])]]
                                              ELSE JsonLeaf(v)
JsonMembers(F) == [q \in DOMAIN F |-> JsonPart(F[q])]
JsonOf(v) == IF v.t = "tree" THEN Tree(JsonMembers(v.of)) ELSE JsonPart(v)

-----------------------------------------------------------------------------
(* The handlers of the field types, one operator per conversion. *)

toFormValue(k, v) ==
    CASE k \in {"string", "number"} -> IF IsNothing(v) THEN Empty ELSE v
      [] k = "date"   -> IF v.t = "iso" THEN Date(v.of) ELSE IF IsNothing(v) THEN Null ELSE v
      [] k = "object" -> IF IsNothing(v) THEN Empty ELSE IF v.t = "object" THEN Text(v) ELSE v
      [] k = "binary" -> IF v.t \in {"stored", "existing"} THEN Existing(v.of) ELSE NoFile

toApiValue(k, nullable, v) ==
    CASE k = "string" -> IF v = Empty /\ nullable THEN Null ELSE v
      [] k = "number" -> IF v \in {Empty, Undefined} THEN IF nullable THEN Null ELSE Undefined ELSE v
      [] k = "date"   -> IF v.t \in {"date", "iso"} THEN Iso(v.of) ELSE Null
      [] k = "object" -> IF v.t = "text" THEN v.of ELSE IF v = Garbage THEN v ELSE Null
      [] k = "binary" -> CASE v.t = "existing" -> Stored(v.of)
                           [] v.t = "file"     -> Pending(v.of)
                           [] OTHER            -> Null

(* On submission; binaryFormValueToApi uploads a file that was picked. *)
submitValue(k, nullable, v) ==
    CASE k = "date"   -> IF v.t \in {"date", "iso"} THEN Iso(v.of) ELSE v
      [] k = "object" -> IF v.t = "text" THEN v.of ELSE IF v = Empty THEN Null ELSE v
      [] k = "binary" -> IF v.t \in {"existing", "file"} THEN Stored(v.of) ELSE Null
      [] OTHER        -> toApiValue(k, nullable, v)

fromJsonValue(k, v) ==
    CASE k \in {"string", "number"} -> IF IsNothing(v) THEN Empty ELSE v
      [] k = "date"   -> IF v.t = "iso" THEN Date(v.of) ELSE Null
      [] k = "object" -> IF v.t = "object" THEN Text(v) ELSE Empty
      [] k = "binary" -> IF v.t \in {"stored", "existing"} THEN Existing(v.of) ELSE NoFile

(* A list has one sub-field per item, of kind f.kind: the conversions go    *)
(* over the items.  What is no array counts as the empty list.              *)
Each(Conv(_), v) == List(IF v.t = "list" THEN [i \in DOMAIN v.of |-> Conv(v.of[i])] ELSE <<>>)

-----------------------------------------------------------------------------
(* Paths and groups. *)

Index == DOMAIN Fields
Path(i) == Fields[i].path
Kind(i) == Fields[i].kind
IsList(i) == Fields[i].list
Nullable(i) == Fields[i].nullable
MaxDepth == Max({1} \cup {Len(Path(i)) : i \in Index} \cup {Len(Path(i)) + 1 : i \in {j \in Index : IsList(j)}})

(* A field is a leaf: extractFields() of the generator gives an object's    *)
(* fields in its place.  Below three levels setFieldValue() may ignore an   *)
(* assignment where it throws here.                                         *)
Kinds == {"string", "number", "date", "object", "binary"}
ASSUME FieldsAssumption ==
    /\ \A i \in Index : /\ Path(i) \in Seq(STRING) /\ Len(Path(i)) \in 1..3
                        /\ Kind(i) \in Kinds /\ IsList(i) \in BOOLEAN /\ Nullable(i) \in BOOLEAN
    /\ \A i, j \in Index : IsPrefix(Path(i), Path(j)) => i = j
ASSUME DepthsAssumption == Depths \subseteq Nat \ {0} /\ \A d \in Depths : d <= MaxDepth
ASSUME EditsAssumption == MaxEdits \in Nat

(* What the API gives for one value of a field.  An empty text of a field   *)
(* that may be null becomes null in the form, as it says, and is left out.  *)
Tagged(tag, v) == v.t = tag /\ v = [t |-> tag, of |-> v.of]
IsApi(k, nullable, v) ==
    \/ nullable /\ v = Null
    \/ CASE k = "string" -> Tagged("plain", v) \/ (~nullable /\ v = Empty)
         [] k = "number" -> Tagged("plain", v)
         [] k = "date"   -> Tagged("iso", v)
         [] k = "object" -> Tagged("object", v)
         [] k = "binary" -> Tagged("stored", v)
ASSUME DocsAssumption ==
    \A doc \in Docs, i \in Index :
        IF IsList(i) THEN /\ Tagged("list", doc[i]) /\ doc[i].of \in Seq(Range(doc[i].of))
                          /\ \A j \in DOMAIN doc[i].of : IsApi(Kind(i), Nullable(i), doc[i].of[j])
                     ELSE IsApi(Kind(i), Nullable(i), doc[i])

(* computeVisibleFieldsAndGroups(): deeper fields fold into the ancestor at *)
(* depth d, a list at depth d folds into itself.                            *)
Hidden(i, d) == Len(Path(i)) > d \/ (Len(Path(i)) = d /\ IsList(i))
Area(i, d) == SubSeq(Path(i), 1, d)
Groups(d) == {Area(i, d) : i \in {j \in Index : Hidden(j, d)}}
IsCollapsedChild(i, d) == \E g \in Groups(d) : IsStrictPrefix(g, Path(i))
ListAt(p) == \E i \in Index : Path(i) = p /\ IsList(i)
FieldAt(p) == CHOOSE i \in Index : Path(i) = p
Inside(g) == {i \in Index : IsPrefix(g, Path(i))}
FoldedAt(d) == {i \in Index : Hidden(i, d)}

Node == UNION {{SubSeq(Path(i), 1, n) : n \in 1..Len(Path(i))} : i \in Index}
Leaves(I) == {Path(i) : i \in I}
Blank == [q \in Node |-> Undefined]

(* What the form shows of a value.                                          *)
FormValue(i, v) == IF IsList(i) THEN Each(LAMBDA w : toFormValue(Kind(i), w), v) ELSE toFormValue(Kind(i), v)

(* getByPath() *)
Get(F, p) ==
    IF F[p] = Obj THEN Tree([q \in Node |-> IF IsStrictPrefix(p, q) THEN F[q] ELSE Undefined]) ELSE F[p]

(* setByPath() for paths of which none is above another, with U[p] the      *)
(* value at p: what is no object on the way is replaced by one.             *)
Member(v, p, q) == IF v.t = "tree" THEN IF q = p THEN Obj ELSE v.of[q]
                                   ELSE IF q = p THEN v ELSE Undefined
PutAll(F, U) ==
    [q \in Node |-> IF \E p \in DOMAIN U : IsPrefix(p, q)
                    THEN LET p == CHOOSE p \in DOMAIN U : IsPrefix(p, q) IN Member(U[p], p, q)
                    ELSE IF \E p \in DOMAIN U : IsStrictPrefix(q, p) THEN Obj ELSE F[q]]
Put(F, p, v) == PutAll(F, [q \in {p} |-> v])

(* form.setFieldValue() throws where a parent is no object.                 *)
Assignable(F, p) == \A q \in Node : IsStrictPrefix(q, p) => F[q] = Obj

-----------------------------------------------------------------------------
(* Between the depths. *)

(* expandFieldFromJson() of a string; a list converts its items, an object  *)
(* is taken as it was parsed.                                               *)
Parses(v) == v.t = "text" \/ v = Empty
Expanded(p, v) ==
    LET x == IF v.t = "text" THEN v.of ELSE Tree(Blank)
    IN  IF ListAt(p) THEN FormValue(FieldAt(p), x) ELSE x

(* restoreCollapsedChildren(): text of a part folded before is parsed, so   *)
(* that it is not encoded twice; { ...list } is no list.                    *)
Restored(p, v, old) ==
    IF v.t = "list" THEN IF v.of = <<>> THEN Tree(Blank) ELSE Indexed(v.of)
    ELSE IF v.t # "tree" THEN v
    ELSE LET again == {q \in old : IsStrictPrefix(p, q) /\ Len(q) = Len(p) + 1 /\ v.of[q].t = "text"}
         IN  Tree(PutAll(v.of, [q \in again |-> v.of[q].of]))

collapseFieldToJson(p, v) ==
    IF IsString(v) THEN v
    ELSE IF IsNothing(v) THEN Text(IF ListAt(p) THEN List(<<>>) ELSE Tree(Blank))
    ELSE Text(JsonOf(v))

(* computeDepthTransitionUpdates(): first expand, then collapse.           *)
Opening(F, d) == {p \in Groups(depth) \ Groups(d) : IsString(F[p]) /\ Parses(F[p])}
Opened(F, d) == PutAll(F, [p \in Opening(F, d) |-> Expanded(p, F[p])])
Closing(F, d) == {g \in Groups(d) \ Groups(depth) : ~IsString(Opened(F, d)[g])}
Collapsed(F, d, P) ==
    PutAll(Opened(F, d),
           [g \in P |-> collapseFieldToJson(g, Restored(g, Get(Opened(F, d), g), Groups(depth)))])

(* The updates that setFieldValue() refuses.                                *)
Refused_FoldsFirst(F, d) == {g \in Closing(F, d) : ~Assignable(F, g)}

Refused(F, d) == {g \in Closing(F, d) : ~Assignable(Opened(F, d), g)}

-----------------------------------------------------------------------------
(* Between the resource, the form and the JSON text. *)

(* processInitialValues() *)
Initial(doc, d) ==
    LET plain == PutAll(Blank, [p \in Leaves(Index) |-> FormValue(FieldAt(p), doc[FieldAt(p)])])
    IN  PutAll(plain, [g \in Groups(d) |-> Text(JsonOf(Get(plain, g)))])

(* The fields that processing goes through, and the areas that are parsed.  *)
(* An area that is no string, or empty, counts as NoText; text that does    *)
(* not parse leaves what is there.                                          *)
Shown == {i \in Index : ~IsCollapsedChild(i, depth)}
ParseAreas(F, base, NoText(_)) ==
    PutAll(base, [g \in {h \in Groups(depth) : F[h] # Garbage} |-> IF F[g].t = "text" THEN F[g].of ELSE NoText(g)])

(* formValuesToApiObject(), as handleSwitchToJson() shows it. *)
ApiValue(i, v) == IF IsList(i) THEN Each(LAMBDA w : toApiValue(Kind(i), Nullable(i), w), v)
                              ELSE toApiValue(Kind(i), Nullable(i), v)
ApiObject(F) ==
    LET base == PutAll(Blank, [p \in Leaves(Shown) |-> ApiValue(FieldAt(p), F[p])])
    IN  JsonMembers(ParseAreas(F, base, LAMBDA g : Null))

(* processSubmitValues() on a copy made with JSON, and the uploads.  Files  *)
(* in the items of a list that is not at the top are looked for at          *)
(* values["a.b"], and not found.                                            *)
SubmitItem(i, w) == IF Kind(i) = "binary" /\ Len(Path(i)) > 1 THEN Null ELSE submitValue(Kind(i), Nullable(i), w)
SubmitField(i, v) == IF ~IsList(i) THEN submitValue(Kind(i), Nullable(i), v)
                     ELSE IF v.t = "list" THEN Each(LAMBDA w : SubmitItem(i, w), v) ELSE v
Outgoing(F) ==
    LET base == PutAll(F, [p \in Leaves(Shown) |-> SubmitField(FieldAt(p), F[p])])
    IN  ParseAreas(F, base, LAMBDA g : IF F[g] = Empty THEN Null ELSE Get(base, g))

(* applyJsonToForm(): the values set on the form, field by field and then   *)
(* area by area.                                                            *)
FromJson(G, i) ==
    IF IsList(i) THEN Each(LAMBDA w : fromJsonValue(Kind(i), w), G[Path(i)]) ELSE fromJsonValue(Kind(i), G[Path(i)])
AreaFromJson_Keeps(G, g) == Get(form, g)

AreaFromJson(G, g) == Text(IF G[g].t \in {"obj", "list", "indexed"} THEN Get(G, g) ELSE Tree(Blank))

(* validateJsonFields(): object fields and areas must hold a JSON object.   *)
JsonErrors(F) ==
    {Path(i) : i \in {j \in Index : Kind(j) = "object" /\ ~IsList(j) /\ F[Path(j)] = Garbage}}
      \cup {g \in Groups(depth) : \/ F[g] = Garbage
                                  \/ F[g].t = "text" /\ F[g].of.t \notin {"tree", "indexed"}}

(* config.zodSchema, as computeZodType() builds it.                        *)
Fits(k, nullable, v) ==
    CASE IsNothing(v) -> nullable
      [] k = "string" -> v.t \in {"plain", "empty"}
      [] k = "number" -> v.t = "plain"
      [] k = "date"   -> v.t \in {"iso", "date", "empty"}
      [] k = "object" -> v.t = "object"
      [] k = "binary" -> TRUE
Accepts(F, I) ==
    \A i \in I :
        LET v == F[Path(i)]
        IN  IF IsList(i) THEN v.t = "list" /\ \A j \in DOMAIN v.of : Fits(Kind(i), Nullable(i), v.of[j])
                         ELSE Fits(Kind(i), Nullable(i), v)
(* combinedValidate() checks the values as the form holds them: what it     *)
(* holds in another format is left to the check before onSubmit().          *)
Checked == {i \in Index : ~Hidden(i, depth) /\ Kind(i) \notin {"object", "binary"}}

-----------------------------------------------------------------------------
(* What the user can enter. *)

(* A value of one field: as the input component gives it to the form, and   *)
(* what the resource should then hold.                                      *)
Entries(k, nullable) ==
    CASE k = "string" -> {<<Plain(d), Plain(d)>> : d \in Datum} \cup {<<Empty, IF nullable THEN Null ELSE Empty>>}
      [] k = "number" -> {<<Plain(d), Plain(d)>> : d \in Datum} \cup {<<Empty, IF nullable THEN Null ELSE Undefined>>}
      [] k = "date"   -> {<<Date(d), Iso(d)>> : d \in Datum} \cup {<<Null, Null>>}
      [] k = "object" -> {<<Text(Object(d)), Object(d)>> : d \in Datum} \cup {<<Empty, Null>>}
      [] k = "binary" -> {<<File(d), Stored(d)>> : d \in Datum} \cup {<<NoFile, Null>>}
Inputs(i) ==
    IF ~IsList(i) THEN Entries(Kind(i), Nullable(i))
    ELSE {<<List(<<>>), List(<<>>)>>}
           \cup {<<List(<<e[1]>>), List(<<e[2]>>)>> : e \in Entries(Kind(i), Nullable(i))}

(* A resource, or a part of it, as the user writes it in JSON.              *)
Resource(doc) == PutAll(Blank, [p \in Leaves(Index) |-> doc[FieldAt(p)]])

(* A value the form and the resource write alike in JSON.                   *)
Alike(k, v) == JsonLeaf(toFormValue(k, v)) = v
Robust(i, w) == IF IsList(i) THEN w.t = "list" /\ \A j \in DOMAIN w.of : Alike(Kind(i), w.of[j])
                             ELSE Alike(Kind(i), w)

(* A file that was picked and not sent yet.                                 *)
HasFile(v) == v.t = "file" \/ (v.t = "list" /\ \E j \in DOMAIN v.of : v.of[j].t = "file")

-----------------------------------------------------------------------------
(* Actions: the event handlers. *)

Init ==
    /\ \E doc \in Docs, d \in Depths :
          /\ form = Initial(doc, d)
          /\ depth = d
          /\ want = [i \in Index |-> doc[i]]
          /\ folded = FoldedAt(d)
    /\ mode = "form" /\ json = Nothing /\ sent = Nothing
    /\ edits = 0 /\ lost = {} /\ broken = {} /\ thrown = FALSE

(* Typing into a visible field; text of an object field may be no JSON.     *)
Type(i) ==
    /\ mode = "form" /\ edits < MaxEdits /\ ~Hidden(i, depth)
    /\ edits' = edits + 1
    /\ IF ~Assignable(form, Path(i))
       THEN thrown' = TRUE /\ UNCHANGED <<form, want, folded, lost>>
       ELSE /\ \/ \E e \in Inputs(i) :
                    /\ form' = Put(form, Path(i), e[1])
                    /\ want' = [want EXCEPT ![i] = e[2]]
                    /\ lost' = lost \ {i}
               \/ /\ Kind(i) = "object" /\ ~IsList(i)
                  /\ form' = Put(form, Path(i), Garbage)
                  /\ lost' = lost \cup {i}
                  /\ UNCHANGED want
            /\ folded' = folded \ {i}
            /\ UNCHANGED thrown
    /\ UNCHANGED <<depth, mode, json, sent, broken>>

(* Typing into a text area: a resource, nothing, an object without members, *)
(* or what is no object.                                                    *)
EditArea(g) ==
    /\ mode = "form" /\ edits < MaxEdits /\ g \in Groups(depth) /\ Assignable(form, g)
    /\ edits' = edits + 1
    /\ \/ /\ \/ \E doc \in Docs :
                  /\ form' = Put(form, g, Text(JsonOf(Get(Resource(doc), g))))
                  /\ want' = [i \in Index |-> IF i \in Inside(g) THEN doc[i] ELSE want[i]]
             \/ /\ \E v \in {Empty, Text(Tree(Blank))} : form' = Put(form, g, v)
                /\ want' = [i \in Index |-> IF i \in Inside(g) THEN Undefined ELSE want[i]]
          /\ lost' = lost \ Inside(g)
          /\ broken' = {h \in broken : ~IsPrefix(g, h)}
       \/ /\ \E v \in {Garbage, Text(Null)} : form' = Put(form, g, v)
          /\ lost' = lost \cup Inside(g)
          /\ broken' = broken \cup {g}
          /\ UNCHANGED want
    /\ folded' = folded \cup Inside(g)
    /\ UNCHANGED <<depth, mode, json, sent, thrown>>

(* handleSetFormDepth(): a TypeError leaves some of the areas folded, and   *)
(* the depth as it was.                                                     *)
ChangeDepth(d) ==
    /\ mode = "form" /\ d # depth
    /\ IF Refused(form, d) = {}
       THEN form' = Collapsed(form, d, Closing(form, d)) /\ depth' = d /\ UNCHANGED thrown
       ELSE /\ \E P \in SUBSET (Closing(form, d) \ Refused(form, d)) : form' = Collapsed(form, d, P)
            /\ thrown' = TRUE
            /\ UNCHANGED depth
    /\ folded' = folded \cup FoldedAt(d)
    /\ lost' = lost \cup {i \in Index : Path(i) \in Closing(form, d)}
    /\ UNCHANGED <<mode, json, sent, edits, want, broken>>

(* handleSwitchToJson(): of a file that was picked only the name is shown.  *)
SwitchToJson ==
    /\ mode = "form"
    /\ json' = Tree(ApiObject(form))
    /\ mode' = "json"
    /\ folded' = folded \cup {i \in Index : HasFile(form[Path(i)])}
    /\ UNCHANGED <<form, depth, sent, edits, want, lost, broken, thrown>>

(* Editing the JSON text.                                                   *)
EditJson ==
    /\ mode = "json" /\ edits < MaxEdits /\ json # Garbage
    /\ edits' = edits + 1
    /\ \/ \E i \in Index, doc \in Docs :
            /\ json' = Tree(Put(json.of, Path(i), doc[i]))
            /\ want' = [want EXCEPT ![i] = doc[i]]
            /\ folded' = folded \ {i}
            /\ lost' = lost \ {i}
       \/ json' = Garbage /\ UNCHANGED <<want, folded, lost>>
    /\ UNCHANGED <<form, depth, mode, sent, broken, thrown>>

(* handleSwitchToForm(), refused while the text is no JSON.  The values of  *)
(* a list that folds into itself are set twice; the area stays.             *)
SwitchToForm ==
    /\ mode = "json" /\ json # Garbage
    /\ LET update == [p \in Leaves(Shown) \cup Groups(depth) |->
                        IF p \in Groups(depth) THEN AreaFromJson(json.of, p) ELSE FromJson(json.of, FieldAt(p))]
           able   == {p \in DOMAIN update : Assignable(form, p)}
       IN  IF able = DOMAIN update
           THEN /\ form' = PutAll(form, update)
                /\ mode' = "form" /\ json' = Nothing /\ broken' = {}
                /\ UNCHANGED thrown
           ELSE /\ \E P \in SUBSET able : form' = PutAll(form, [p \in P |-> update[p]])
                /\ thrown' = TRUE
                /\ UNCHANGED <<mode, json, broken>>
    /\ folded' = folded \cup FoldedAt(depth)
    /\ UNCHANGED <<depth, sent, edits, want, lost>>

(* handleJsonSubmit()                                                       *)
JsonSubmit ==
    /\ mode = "json" /\ json # Garbage
    /\ \E schema \in Schemas : schema => Accepts(json.of, Index)
    /\ sent' = json /\ mode' = "closed"
    /\ UNCHANGED <<form, depth, json, edits, want, folded, lost, broken, thrown>>

(* combinedValidate() and handleSubmit()                                    *)
Submit ==
    /\ mode = "form" /\ JsonErrors(form) = {}
    /\ \E schema \in Schemas : schema => Accepts(form, Checked) /\ Accepts(Outgoing(form), Index)
    /\ sent' = Tree(Outgoing(form)) /\ mode' = "closed"
    /\ UNCHANGED <<form, depth, json, edits, want, folded, lost, broken, thrown>>

Next ==
    \/ \E i \in Index : Type(i)
    \/ \E g \in UNION {Groups(d) : d \in Depths} : EditArea(g)
    \/ \E d \in Depths : ChangeDepth(d)
    \/ SwitchToJson \/ EditJson \/ SwitchToForm \/ JsonSubmit \/ Submit

Spec == Init /\ [][Next]_vars

-----------------------------------------------------------------------------
(* Properties. *)

(* Types of the variables: the form is a tree, with nothing below what is   *)
(* no object.                                                               *)
TypeOK ==
    /\ depth \in Depths /\ mode \in {"form", "json", "closed"} /\ edits \in 0..MaxEdits
    /\ DOMAIN form = Node /\ \A p, q \in Node : IsStrictPrefix(p, q) /\ form[q] # Undefined => form[p] = Obj
    /\ json.t \in {"nothing", "garbage", "tree"} /\ sent.t \in {"nothing", "tree"}
    /\ DOMAIN want = Index /\ folded \subseteq Index /\ lost \subseteq Index
    /\ broken \subseteq Node /\ thrown \in BOOLEAN

(* What is sent, or would be if the user submitted now, is what the user    *)
(* entered, in whatever order the depth and the mode were changed: except   *)
(* after a TypeError, for lost fields, for files in nested lists, and for   *)
(* those values that went through a text and that form and resource write   *)
(* differently.                                                             *)
Kept(i) == i \notin lost /\ (i \in folded => Robust(i, want[i])) /\ ~(Kind(i) = "binary" /\ IsList(i) /\ Len(Path(i)) > 1)
Now == IF sent # Nothing THEN sent ELSE IF mode = "json" THEN json ELSE Tree(Outgoing(form))
EntriesKept == ~thrown /\ Now # Garbage => \A i \in Index : Kept(i) => Now.of[Path(i)] = want[i]

(* An event handler ends in a TypeError only after the user left text that  *)
(* is no object in an area: the updates of a transition come in an order in *)
(* which every parent is an object when its member is assigned.             *)
ThrowsOnlyOnBroken == [][thrown' /\ ~thrown => broken # {}]_vars

(* transformers.ts:140, and the text of a folded group is "parsed back to   *)
(* objects": whatever is submitted is what the user entered.                *)
Missing(v) == IsNothing(v) \/ v = List(<<>>)
SentIsMeant ==
    sent # Nothing => \A i \in Index : \/ sent.of[Path(i)] = want[i]
                                      \/ (Missing(sent.of[Path(i)]) /\ Missing(want[i]))
=============================================================================
