------------------------ MODULE SchemaMigration_proofs ------------------------
(***************************************************************************)
(* Proofs about SchemaMigration: type correctness; every path that is      *)
(* found is a migration, whatever the threads race for; and with a single  *)
(* thread an error means that the target cannot be reached, and no path is *)
(* longer than it must be.                                                 *)
(***************************************************************************)
EXTENDS SchemaMigration, SequenceTheorems, TLAPS

(* The version a step leads to is a version once no inference is left open. *)
LEMMA ToVersion ==
    ASSUME steps \in Seq(Call), NEW i \in DOMAIN steps, Inferable(i)
    PROVE  To(i) \in Version
<1> USE SchemaAssumption DEF Step
<1>1. steps[i] \in Call /\ steps[i] \in Step
  OBVIOUS
<1>2. CASE steps[i].to # None \/ EndsChain(i)
  BY <1>1, <1>2 DEF To
<1>3. CASE steps[i].to = None /\ ~EndsChain(i)
  <2>1. i + 1 \in DOMAIN steps /\ ~steps[i + 1].re
    BY <1>3 DEF EndsChain, Inferable
  <2>2. \E v \in Version : steps[i + 1].from = {v}
    BY <2>1
  <2>3. QED
    BY <1>3, <2>2 DEF To
<1>4. QED
  BY <1>2, <1>3

(* The resolved structures hold declared steps whose targets are known. *)
GraphInv ==
    /\ graph # None =>
          /\ graph \subseteq DOMAIN steps
          /\ \A i \in DOMAIN steps : Inferable(i)
    /\ graph = None => \A t \in Thread : at[t] \in {"idle", "resolve", "refused"}
    /\ regex \subseteq DOMAIN steps

(* Edges that are to be followed are edges at the end of the path.          *)
SearchInv ==
    \A t \in Thread :
        /\ todo[t] \subseteq DOMAIN steps
        /\ \A i \in todo[t] : Applies(i, Current(t))
        /\ at[t] # "expand" => todo[t] = {}
        /\ at[t] \in {"idle", "resolve", "publish", "lookup", "refused"}
              => path[t] = <<>> /\ queue[t] = <<>>

TypeInv == TypeOK /\ GraphInv /\ SearchInv

LEMMA CurrentVersion ==
    ASSUME TypeOK, NEW t \in Thread
    PROVE  Current(t) \in Version
<1>1. CASE path[t] = <<>>
  BY <1>1 DEF TypeOK, Current
<1>2. CASE path[t] # <<>>
  <2>1. path[t] \in Seq(Hop) /\ Len(path[t]) \in 1..Len(path[t])
    BY <1>2 DEF TypeOK
  <2>2. path[t][Len(path[t])] \in Hop
    BY <2>1
  <2>3. QED
    BY <1>2, <2>2 DEF Current, Hop
<1>3. QED
  BY <1>1, <1>2

(* TypeOK, in parts the provers can take one at a time.                     *)
SharedOK ==
    /\ steps \in Seq(Call) /\ Len(steps) <= MaxSteps
    /\ graph \in {None} \cup SUBSET (1..MaxSteps)
    /\ regex \in SUBSET (1..MaxSteps)
    /\ cache \in [Version -> {None} \cup Seq(Hop)]

LocalOK ==
    /\ at \in [Thread -> {"idle", "resolve", "publish", "lookup", "edges",
                          "expand", "pop", "found", "error", "refused"}]
    /\ version \in [Thread -> Version]
    /\ todo \in [Thread -> SUBSET (1..MaxSteps)]
    /\ visited \in [Thread -> SUBSET Version]

PathOK == path \in [Thread -> Seq(Hop)] /\ queue \in [Thread -> Seq(Seq(Hop))]

LEMMA TypeParts == TypeOK <=> SharedOK /\ LocalOK /\ PathOK
  BY DEF TypeOK, SharedOK, LocalOK, PathOK

LEMMA TypeInit == Init => TypeInv
<1> SUFFICES ASSUME Init PROVE TypeInv
  OBVIOUS
<1>1. steps \in Seq(Call) /\ Len(steps) <= MaxSteps
  BY SchemaAssumption DEF Init
<1>2. cache \in [Version -> {None} \cup Seq(Hop)]
  BY DEF Init
<1>3. path \in [Thread -> Seq(Hop)] /\ queue \in [Thread -> Seq(Seq(Hop))]
  BY DEF Init
<1>4. version \in [Thread -> Version] /\ visited \in [Thread -> SUBSET Version]
  BY SchemaAssumption DEF Init
<1>5. SharedOK
  <2>1. graph = None /\ regex = {}
    BY DEF Init
  <2>2. graph \in {None} \cup SUBSET (1..MaxSteps)
    BY <2>1
  <2>3. regex \in SUBSET (1..MaxSteps)
    BY <2>1
  <2>4. QED
    BY <1>1, <1>2, <2>2, <2>3 DEF SharedOK
<1>6. LocalOK
  <2>1. at \in [Thread -> {"idle", "resolve", "publish", "lookup", "edges",
                           "expand", "pop", "found", "error", "refused"}]
    BY DEF Init
  <2>2. todo \in [Thread -> SUBSET (1..MaxSteps)]
    BY DEF Init
  <2>3. QED
    BY <1>4, <2>1, <2>2 DEF LocalOK
<1>7. GraphInv /\ SearchInv
  BY DEF Init, GraphInv, SearchInv
<1>8. QED
  BY <1>3, <1>5, <1>6, <1>7, TypeParts DEF TypeInv, PathOK

(* Steps that do not declare leave the edges alone.                         *)
LEMMA SameEdges ==
    ASSUME UNCHANGED steps
    PROVE  /\ \A i : To(i)' = To(i) /\ (Inferable(i)' <=> Inferable(i))
           /\ \A i, v : Applies(i, v)' <=> Applies(i, v)
<1>1. \A i : EndsChain(i)' <=> EndsChain(i)
  BY DEF EndsChain
<1>2. \A i : To(i)' = To(i)
  BY <1>1 DEF To
<1>3. QED
  BY <1>1, <1>2 DEF Inferable, Applies

LEMMA SharedSteps == ASSUME TypeInv, [Next]_vars PROVE SharedOK'
<1> USE SchemaAssumption, TypeParts DEF TypeInv, SharedOK
<1>1. ASSUME NEW s \in Call, Declare(s) PROVE SharedOK'
  <2>1. steps' \in Seq(Call) /\ Len(steps') = Len(steps) + 1
    BY <1>1 DEF Declare
  <2>2. cache' \in [Version -> {None} \cup Seq(Hop)]
    BY <1>1 DEF Declare
  <2>3. Len(steps') <= MaxSteps
    BY <1>1, <2>1 DEF Declare
  <2>4. graph' = None /\ regex' = {}
    BY <1>1 DEF Declare
  <2>5. QED
    BY <2>1, <2>2, <2>3, <2>4
<1>2. ASSUME NEW t \in Thread, Resolve(t) \/ Publish(t) PROVE SharedOK'
  BY <1>2 DEF Resolve, Publish
<1>3. ASSUME NEW t \in Thread, Pop(t) PROVE SharedOK'
  <2>1. Head(queue[t]) \in Seq(Hop)
    BY <1>3 DEF Pop, PathOK
  <2>2. path'[t] \in Seq(Hop)
    BY <1>3, <2>1 DEF Pop, PathOK
  <2>3. cache' \in [Version -> {None} \cup Seq(Hop)]
    BY <1>3, <2>2 DEF Pop
  <2>4. QED
    BY <1>3, <2>3 DEF Pop
<1>4. CASE UNCHANGED <<steps, shared>>
  BY <1>4 DEF shared
<1>5. QED
  BY <1>1, <1>2, <1>3, <1>4, Zenon
     DEF Next, Find, vars, Migrate, Lookup, ReadEdges, Expand, Expanded, Exhausted, Return

LEMMA LocalSteps == ASSUME TypeInv, [Next]_vars PROVE LocalOK'
<1> USE SchemaAssumption, TypeParts DEF TypeInv, LocalOK, Goto
<1>1. ASSUME NEW t \in Thread, NEW v \in Stored, Migrate(t, v) PROVE LocalOK'
  BY <1>1 DEF Migrate
<1>2. ASSUME NEW t \in Thread, Resolve(t) \/ Publish(t) \/ Lookup(t) PROVE LocalOK'
  BY <1>2 DEF Resolve, Publish, Lookup
<1>3. ASSUME NEW t \in Thread, ReadEdges(t) PROVE LocalOK'
  <2>1. EdgesFor(Current(t)) \subseteq 1..MaxSteps
    BY <1>3 DEF ReadEdges, GraphInv, EdgesFor, SharedOK
  <2>2. QED
    BY <1>3, <2>1 DEF ReadEdges
<1>4. ASSUME NEW t \in Thread, NEW i \in todo[t], Expand(t, i) PROVE LocalOK'
  <2>1. i \in DOMAIN steps
    BY DEF SearchInv
  <2>2. To(i) \in Version
    BY <1>4, <2>1, ToVersion DEF GraphInv, Expand, SharedOK
  <2>3. QED
    BY <1>4, <2>2 DEF Expand
<1>5. ASSUME NEW t \in Thread, Expanded(t) \/ Exhausted(t) \/ Pop(t) \/ Return(t) PROVE LocalOK'
  BY <1>5 DEF Expanded, Exhausted, Pop, Return
<1>6. CASE UNCHANGED <<at, version, todo, visited>>
  BY <1>6
<1>7. QED
  BY <1>1, <1>2, <1>3, <1>4, <1>5, <1>6, Zenon DEF Next, Find, vars, Declare

LEMMA PathSteps == ASSUME TypeInv, [Next]_vars PROVE PathOK'
<1> USE SchemaAssumption, TypeParts DEF TypeInv, PathOK
<1>1. ASSUME NEW t \in Thread, Lookup(t) PROVE PathOK'
  BY <1>1 DEF Lookup, SharedOK, LocalOK
<1>2. ASSUME NEW t \in Thread, NEW i \in todo[t], Expand(t, i) PROVE PathOK'
  <2>1. i \in DOMAIN steps /\ i \in 1..MaxSteps
    BY DEF SearchInv, SharedOK
  <2>2. To(i) \in Version
    BY <1>2, <2>1, ToVersion DEF GraphInv, Expand, SharedOK
  <2> DEFINE hop == [src |-> Current(t), dst |-> To(i), fn |-> i]
  <2>3. hop \in Hop
    BY <2>1, <2>2, CurrentVersion DEF Hop
  <2> HIDE DEF hop
  <2>4. Append(path[t], hop) \in Seq(Hop)
    BY <2>3
  <2>5. Append(queue[t], Append(path[t], hop)) \in Seq(Seq(Hop))
    BY <2>4
  <2>6. \/ queue' = [queue EXCEPT ![t] = Append(queue[t], Append(path[t], hop))]
        \/ queue' = queue
    BY <1>2 DEF Expand, hop
  <2>7. path' = path
    BY <1>2 DEF Expand
  <2>8. QED
    BY <2>5, <2>6, <2>7
<1>3. ASSUME NEW t \in Thread, Pop(t) PROVE PathOK'
  <2>1. Head(queue[t]) \in Seq(Hop) /\ Tail(queue[t]) \in Seq(Seq(Hop))
    BY <1>3 DEF Pop
  <2>2. QED
    BY <1>3, <2>1 DEF Pop
<1>4. ASSUME NEW t \in Thread, Return(t) PROVE PathOK'
  BY <1>4 DEF Return
<1>5. CASE UNCHANGED <<path, queue>>
  BY <1>5
<1>6. QED
  BY <1>1, <1>2, <1>3, <1>4, <1>5, Zenon
     DEF Next, Find, vars, Declare, Migrate, Resolve, Publish, ReadEdges, Expanded, Exhausted

LEMMA GraphSteps == ASSUME TypeInv, [Next]_vars PROVE GraphInv'
<1> USE TypeParts DEF TypeInv, GraphInv, LocalOK, Goto
<1>1. ASSUME NEW s \in Call, Declare(s) PROVE GraphInv'
  BY <1>1 DEF Declare
<1>2. ASSUME NEW t \in Thread, Resolve(t) PROVE GraphInv'
  BY <1>2, SameEdges, SchemaAssumption DEF Resolve, SharedOK
<1>3. ASSUME NEW t \in Thread, Publish(t) PROVE GraphInv'
  BY <1>3, SameEdges DEF Publish
<1>4. ASSUME NEW t \in Thread, NEW v \in Stored, Migrate(t, v) PROVE GraphInv'
  BY <1>4, SameEdges DEF Migrate, shared
<1>5. ASSUME NEW t \in Thread, Lookup(t) \/ ReadEdges(t) \/ Expanded(t) \/ Pop(t) \/ Exhausted(t)
                                 \/ Return(t)
      PROVE  GraphInv'
  BY <1>5, SameEdges DEF Lookup, ReadEdges, Expanded, Pop, Exhausted, Return, shared
<1>6. ASSUME NEW t \in Thread, NEW i \in todo[t], Expand(t, i) PROVE GraphInv'
  BY <1>6, SameEdges DEF Expand, shared
<1>7. CASE UNCHANGED vars
  BY <1>7, SameEdges DEF vars, shared
<1>8. QED
  BY <1>1, <1>2, <1>3, <1>4, <1>5, <1>6, <1>7, Zenon DEF Next, Find

LEMMA SearchSteps == ASSUME TypeInv, [Next]_vars PROVE SearchInv'
<1> USE TypeParts DEF TypeInv, SearchInv, LocalOK, PathOK, Goto, Current
<1>1. ASSUME NEW s \in Call, Declare(s) PROVE SearchInv'
  BY <1>1 DEF Declare
<1>2. ASSUME NEW t \in Thread, NEW v \in Stored, Migrate(t, v) PROVE SearchInv'
  BY <1>2, SameEdges DEF Migrate
<1>3. ASSUME NEW t \in Thread, Resolve(t) \/ Publish(t) \/ Lookup(t) PROVE SearchInv'
  BY <1>3, SameEdges DEF Resolve, Publish, Lookup
<1>4. ASSUME NEW t \in Thread, ReadEdges(t) PROVE SearchInv'
  BY <1>4, SameEdges DEF ReadEdges, EdgesFor, GraphInv
<1>5. ASSUME NEW t \in Thread, NEW i \in todo[t], Expand(t, i) PROVE SearchInv'
  BY <1>5, SameEdges DEF Expand
<1>6. ASSUME NEW t \in Thread, Expanded(t) \/ Pop(t) \/ Exhausted(t) \/ Return(t)
      PROVE  SearchInv'
  BY <1>6, SameEdges DEF Expanded, Pop, Exhausted, Return
<1>7. CASE UNCHANGED vars
  BY <1>7, SameEdges DEF vars
<1>8. QED
  BY <1>1, <1>2, <1>3, <1>4, <1>5, <1>6, <1>7, Zenon DEF Next, Find

LEMMA TypeSteps == ASSUME TypeInv, [Next]_vars PROVE TypeInv'
  BY SharedSteps, LocalSteps, PathSteps, GraphSteps, SearchSteps, TypeParts
     DEF TypeInv, TypeOK, SharedOK, LocalOK, PathOK

(* Type correctness of the search.                                          *)
THEOREM TypeCorrect == Spec => []TypeOK
<1>1. TypeInv => TypeOK
  BY DEF TypeInv
<1>2. QED
  BY <1>1, TypeInit, TypeSteps, PTL DEF Spec

-----------------------------------------------------------------------------
Genuines == {h \in Hop : Genuine(h)}

(* p applies hops of G one after the other, from version v on.              *)
Walk(G, p, v) ==
    \A k \in 1..Len(p) : p[k] \in G /\ p[k].src = IF k = 1 THEN v ELSE p[k - 1].dst

Reaches(p, v) == p # <<>> /\ p[Len(p)].dst = v

(* Why a path that is found is a migration: every path kept anywhere is a   *)
(* walk from the version it belongs to.  Steps are only declared when no    *)
(* thread holds a path, and empty the cache.                                *)
WalkInv ==
    /\ \A t \in Thread : Walk(Genuines, path[t], version[t])
    /\ \A t \in Thread : \A k \in 1..Len(queue[t]) :
          queue[t][k] # <<>> /\ Walk(Genuines, queue[t][k], version[t])
    /\ \A v \in Version : cache[v] # None => Reaches(cache[v], Target) /\ Walk(Genuines, cache[v], v)
    /\ \A t \in Thread : at[t] = "found" => Reaches(path[t], Target)

LEMMA WalkOn ==
    ASSUME NEW G, NEW p \in Seq(Hop), NEW v, Walk(G, p, v), NEW h \in Hop, h \in G,
           h.src = IF p = <<>> THEN v ELSE p[Len(p)].dst
    PROVE  Append(p, h) # <<>> /\ Walk(G, Append(p, h), v)
<1> DEFINE q == Append(p, h)
<1>1. q \in Seq(Hop) /\ Len(q) = Len(p) + 1 /\ q[Len(p) + 1] = h
  OBVIOUS
<1>2. \A k \in 1..Len(p) : q[k] = p[k]
  OBVIOUS
<1>3. p = <<>> <=> Len(p) = 0
  OBVIOUS
<1> HIDE DEF q
<1>4. ASSUME NEW k \in 1..Len(q)
      PROVE  q[k] \in G /\ q[k].src = IF k = 1 THEN v ELSE q[k - 1].dst
  <2>1. CASE k \in 1..Len(p)
    <3>1. k # 1 => k - 1 \in 1..Len(p)
      BY <2>1
    <3>2. QED
      BY <1>2, <2>1, <3>1 DEF Walk
  <2>2. CASE k = Len(p) + 1
    <3>1. k # 1 => k - 1 = Len(p) /\ Len(p) \in 1..Len(p)
      BY <2>2
    <3>2. QED
      BY <1>1, <1>2, <1>3, <2>2, <3>1
  <2>3. QED
    BY <1>1, <1>4, <2>1, <2>2
<1>5. q # <<>>
  BY <1>1
<1>6. QED
  BY <1>4, <1>5 DEF Walk, q

LEMMA SameWalks == ASSUME UNCHANGED steps PROVE Genuines' = Genuines
  BY SameEdges DEF Genuines, Genuine

LEMMA WalkSteps == ASSUME TypeInv, WalkInv, [Next]_vars PROVE WalkInv'
<1> USE TypeParts DEF TypeInv, SharedOK, LocalOK, PathOK, Goto
<1>0. \A v : Walk(Genuines, <<>>, v) /\ Walk(Genuines', <<>>, v)
  BY DEF Walk
<1>1. ASSUME NEW s \in Call, Declare(s) PROVE WalkInv'
  <2>1. \A t \in Thread : path'[t] = <<>> /\ queue'[t] = <<>> /\ at'[t] = "idle"
    BY <1>1 DEF Declare, SearchInv
  <2>2. \A v \in Version : cache'[v] = None
    BY <1>1 DEF Declare
  <2>3. QED
    BY <1>0, <2>1, <2>2 DEF WalkInv
<1>2. ASSUME UNCHANGED <<steps, cache>>,
             \A t \in Thread :
                \/ path'[t] = path[t] /\ queue'[t] = queue[t] /\ version'[t] = version[t]
                \/ path'[t] = <<>> /\ queue'[t] = <<>>,
             \A t \in Thread : at'[t] = "found" => at[t] = "found" /\ path'[t] = path[t]
      PROVE  WalkInv'
  <2>1. Genuines' = Genuines
    BY <1>2, SameWalks
  <2>2. ASSUME NEW t \in Thread
        PROVE  /\ Walk(Genuines, path'[t], version'[t])
               /\ \A k \in 1..Len(queue'[t]) :
                     queue'[t][k] # <<>> /\ Walk(Genuines, queue'[t][k], version'[t])
               /\ at'[t] = "found" => Reaches(path'[t], Target)
    <3>1. CASE path'[t] = path[t] /\ queue'[t] = queue[t] /\ version'[t] = version[t]
      BY <1>2, <3>1 DEF WalkInv
    <3>2. CASE path'[t] = <<>> /\ queue'[t] = <<>>
      <4>1. at'[t] # "found"
        BY <1>2, <3>2 DEF WalkInv, Reaches
      <4>2. QED
        BY <1>0, <3>2, <4>1
    <3>3. QED
      BY <1>2, <3>1, <3>2
  <2>3. \A v \in Version : cache'[v] # None
          => Reaches(cache'[v], Target) /\ Walk(Genuines, cache'[v], v)
    BY <1>2 DEF WalkInv
  <2>4. QED
    BY <2>1, <2>2, <2>3 DEF WalkInv
<1>3. ASSUME NEW t \in Thread, NEW v \in Stored, Migrate(t, v) PROVE WalkInv'
  BY <1>2, <1>3 DEF Migrate, SearchInv, shared
<1>4. ASSUME NEW t \in Thread, Resolve(t) \/ Publish(t) \/ ReadEdges(t) \/ Expanded(t)
                                  \/ Exhausted(t) \/ Return(t)
      PROVE  WalkInv'
  BY <1>2, <1>4 DEF Resolve, Publish, ReadEdges, Expanded, Exhausted, Return, shared
<1>5. ASSUME NEW t \in Thread, Lookup(t) PROVE WalkInv'
  <2>1. Genuines' = Genuines
    BY <1>5, SameWalks DEF Lookup
  <2>2. UNCHANGED <<steps, cache, queue, version>>
    BY <1>5 DEF Lookup, shared
  <2>3. \/ path' = path /\ at' = [at EXCEPT ![t] = "edges"]
        \/ /\ cache[version[t]] # None
           /\ path' = [path EXCEPT ![t] = cache[version[t]]]
           /\ at' = [at EXCEPT ![t] = "found"]
    BY <1>5 DEF Lookup
  <2>4. \A u \in Thread : /\ Walk(Genuines, path'[u], version[u])
                          /\ at'[u] = "found" => Reaches(path'[u], Target)
    BY ZenonT(40), <2>3 DEF WalkInv
  <2>5. QED
    BY <2>1, <2>2, <2>4 DEF WalkInv
<1>6. ASSUME NEW t \in Thread, NEW i \in todo[t], Expand(t, i) PROVE WalkInv'
  <2> DEFINE h == [src |-> Current(t), dst |-> To(i), fn |-> i]
             q == Append(path[t], h)
  <2>1. i \in DOMAIN steps /\ i \in 1..MaxSteps /\ Applies(i, Current(t))
    BY DEF SearchInv
  <2>2. To(i) \in Version
    BY <1>6, <2>1, ToVersion DEF GraphInv, Expand
  <2>3. h \in Hop /\ h \in Genuines
    BY <2>1, <2>2, CurrentVersion DEF Hop, Genuines, Genuine
  <2>4. h.src = IF path[t] = <<>> THEN version[t] ELSE path[t][Len(path[t])].dst
    BY DEF Current
  <2> HIDE DEF h
  <2>5. q # <<>> /\ Walk(Genuines, q, version[t])
    BY <2>3, <2>4, WalkOn DEF WalkInv
  <2>6. Genuines' = Genuines
    BY <1>6, SameWalks DEF Expand
  <2>7. UNCHANGED <<steps, cache, path, version, at>>
    BY <1>6 DEF Expand, shared
  <2>8. queue' = queue \/ queue' = [queue EXCEPT ![t] = Append(queue[t], q)]
    BY <1>6 DEF Expand, h
  <2> HIDE DEF q
  <2>9. q \in Seq(Hop)
    BY <2>3 DEF q
  <2>10. ASSUME NEW u \in Thread, NEW k \in 1..Len(queue'[u])
         PROVE  queue'[u][k] # <<>> /\ Walk(Genuines, queue'[u][k], version[u])
    <3>1. CASE queue' = queue \/ u # t
      BY <2>8, <3>1 DEF WalkInv
    <3>2. CASE u = t /\ queue' = [queue EXCEPT ![t] = Append(queue[t], q)]
      <4>1. queue[t] \in Seq(Seq(Hop)) /\ queue'[t] = Append(queue[t], q)
        BY <3>2
      <4>2. k \in 1..(Len(queue[t]) + 1)
        BY <2>9, <3>2, <4>1
      <4>3. (k \in 1..Len(queue[t]) /\ queue'[t][k] = queue[t][k]) \/ queue'[t][k] = q
        BY <2>9, <4>1, <4>2
      <4>4. QED
        BY <2>5, <3>2, <4>3 DEF WalkInv
    <3>3. QED
      BY <2>8, <3>1, <3>2
  <2>11. QED
    BY <2>6, <2>7, <2>10 DEF WalkInv
<1>7. ASSUME NEW t \in Thread, Pop(t) PROVE WalkInv'
  <2> DEFINE p == Head(queue[t])
  <2>1. queue[t] \in Seq(Seq(Hop)) /\ queue[t] # <<>> /\ 1 \in 1..Len(queue[t]) /\ p = queue[t][1]
    BY <1>7 DEF Pop
  <2>2. p \in Seq(Hop) /\ p # <<>> /\ Walk(Genuines, p, version[t])
    BY <2>1 DEF WalkInv
  <2>3. Genuines' = Genuines
    BY <1>7, SameWalks DEF Pop
  <2>4. UNCHANGED <<steps, version>> /\ path' = [path EXCEPT ![t] = p]
          /\ queue' = [queue EXCEPT ![t] = Tail(queue[t])]
    BY <1>7 DEF Pop
  <2>5. \/ cache' = cache /\ at' = [at EXCEPT ![t] = "edges"]
        \/ /\ Reaches(p, Target)
           /\ cache' = [cache EXCEPT ![version[t]] = p]
           /\ at' = [at EXCEPT ![t] = "found"]
    <3>1. path'[t] = p /\ Current(t)' = p[Len(p)].dst
      BY <2>2, <2>4 DEF Current
    <3>2. QED
      BY <1>7, <2>2, <3>1 DEF Pop, Reaches
  <2>6. ASSUME NEW u \in Thread, NEW k \in 1..Len(queue'[u])
        PROVE  queue'[u][k] # <<>> /\ Walk(Genuines, queue'[u][k], version[u])
    <3>1. CASE u # t
      BY <2>4, <3>1 DEF WalkInv
    <3>2. CASE u = t
      <4>1. k + 1 \in 1..Len(queue[t]) /\ queue'[t][k] = queue[t][k + 1]
        BY <2>1, <2>4, <2>6, <3>2
      <4>2. QED
        BY <3>2, <4>1 DEF WalkInv
    <3>3. QED
      BY <3>1, <3>2
  <2> HIDE DEF p
  <2>7. \A u \in Thread : Walk(Genuines, path'[u], version[u])
    BY <2>2, <2>4 DEF WalkInv
  <2>8. \A v \in Version : cache'[v] # None
          => Reaches(cache'[v], Target) /\ Walk(Genuines, cache'[v], v)
    BY <2>2, <2>5 DEF WalkInv
  <2>9. \A u \in Thread : at'[u] = "found" => Reaches(path'[u], Target)
    BY <2>4, <2>5 DEF WalkInv
  <2>10. QED
    BY <2>3, <2>4, <2>6, <2>7, <2>8, <2>9 DEF WalkInv
<1>8. CASE UNCHANGED vars
  BY <1>2, <1>8 DEF vars, shared
<1>9. QED
  BY <1>1, <1>3, <1>4, <1>5, <1>6, <1>7, <1>8, Zenon DEF Next, Find

(* Every path that is found, by whatever thread and whatever was cached,    *)
(* applies declared steps that lead from the stored version to the target.  *)
THEOREM PathsMigrate == Spec => []PathMigrates
<1>1. Init => WalkInv
  BY DEF Init, WalkInv, Walk
<1>2. TypeInv /\ WalkInv => PathMigrates
  <2> SUFFICES ASSUME TypeInv, WalkInv, NEW t \in Thread, at[t] = "found"
               PROVE  LET p == path[t] IN
                      /\ p # <<>>
                      /\ p[1].src = version[t] /\ p[Len(p)].dst = Target
                      /\ \A k \in DOMAIN p : Genuine(p[k]) /\ (k > 1 => p[k].src = p[k - 1].dst)
    BY DEF PathMigrates
  <2>1. path[t] \in Seq(Hop) /\ path[t] # <<>>
    BY TypeParts DEF WalkInv, Reaches, TypeInv, PathOK
  <2>2. DOMAIN path[t] = 1..Len(path[t]) /\ 1 \in 1..Len(path[t])
    BY <2>1
  <2>3. QED
    BY <2>1, <2>2 DEF WalkInv, Walk, Reaches, Genuines
<1>3. QED
  BY <1>1, <1>2, TypeInit, TypeSteps, WalkSteps, PTL DEF Spec

-----------------------------------------------------------------------------
(* A single thread, so that nobody sees one of the two structures without   *)
(* the other.                                                               *)
OneThread == \A t, u \in Thread : t = u

EdgeInv ==
    graph # None =>
        /\ graph = {i \in DOMAIN steps : ~steps[i].re}
        /\ (\A t \in Thread : at[t] # "publish") => regex = {i \in DOMAIN steps : steps[i].re}

(* where the steps lead from version v                                      *)
Out(v) == {To(i) : i \in {j \in DOMAIN steps : Applies(j, v)}}

EndsOf(q) == {q[k][Len(q[k])].dst : k \in 1..Len(q)}

(* The steps from v lead nowhere new, or v has not been dealt with.         *)
Covered(t, v) ==
    \/ Out(v) \subseteq visited[t]
    \/ v \in EndsOf(queue[t])
    \/ v = Current(t) /\ at[t] = "edges"
    \/ /\ v = Current(t) /\ at[t] = "expand"
       /\ Out(v) \subseteq visited[t] \cup {To(i) : i \in todo[t]}

(* Why the versions visited are all that can be reached when the queue is   *)
(* empty: a version is visited only together with a path that ends in it,   *)
(* and the path stays queued until all edges at its end are followed.       *)
Cover(t) ==
    /\ at[t] \in {"resolve", "publish", "lookup"}
          => visited[t] = {version[t]} /\ version[t] # Target
    /\ at[t] \in {"edges", "expand", "pop", "error"}
          => /\ version[t] \in visited[t]
             /\ Target \in visited[t] => Target \in EndsOf(queue[t])
             /\ \A v \in visited[t] : Covered(t, v)
    /\ at[t] = "error" => queue[t] = <<>>

CoverInv == \A t \in Thread : Cover(t)

LEMMA EndsOfAppend ==
    ASSUME NEW q \in Seq(Seq(Hop)), NEW p \in Seq(Hop)
    PROVE  EndsOf(Append(q, p)) = EndsOf(q) \cup {p[Len(p)].dst}
<1>1. Len(Append(q, p)) = Len(q) + 1 /\ Append(q, p)[Len(q) + 1] = p
  OBVIOUS
<1>2. \A k \in 1..Len(q) : Append(q, p)[k] = q[k]
  OBVIOUS
<1>3. 1..(Len(q) + 1) = 1..Len(q) \cup {Len(q) + 1}
  OBVIOUS
<1> DEFINE a == Append(q, p)
<1> HIDE DEF a
<1>4. QED
  BY <1>1, <1>2, <1>3 DEF EndsOf, a

LEMMA EndsOfTail ==
    ASSUME NEW q \in Seq(Seq(Hop)), q # <<>>
    PROVE  EndsOf(q) = EndsOf(Tail(q)) \cup {Head(q)[Len(Head(q))].dst}
<1> DEFINE r == Tail(q)
<1>1. Len(r) = Len(q) - 1 /\ Len(q) \in Nat \ {0} /\ Head(q) = q[1]
  OBVIOUS
<1>2. \A k \in 1..Len(r) : k + 1 \in 1..Len(q) /\ r[k] = q[k + 1]
  OBVIOUS
<1> HIDE DEF r
<1>3. \A k \in 1..Len(q) : k = 1 \/ (k - 1 \in 1..Len(r) /\ q[k] = r[k - 1])
  BY <1>1, <1>2
<1>4. 1 \in 1..Len(q)
  BY <1>1
<1>5. EndsOf(q) \subseteq EndsOf(r) \cup {q[1][Len(q[1])].dst}
  BY <1>3 DEF EndsOf
<1>6. EndsOf(r) \subseteq EndsOf(q)
  BY <1>2 DEF EndsOf
<1>7. q[1][Len(q[1])].dst \in EndsOf(q)
  BY <1>4 DEF EndsOf
<1>8. QED
  BY <1>1, <1>5, <1>6, <1>7 DEF r

LEMMA SameOut == ASSUME UNCHANGED steps PROVE \A v : Out(v)' = Out(v)
  BY SameEdges DEF Out

LEMMA EdgeSteps == ASSUME TypeInv, EdgeInv, OneThread, [Next]_vars PROVE EdgeInv'
<1> USE TypeParts DEF TypeInv, SharedOK, LocalOK, Goto
<1>1. ASSUME NEW s \in Call, Declare(s) PROVE EdgeInv'
  BY <1>1 DEF Declare, EdgeInv
<1>2. ASSUME UNCHANGED <<steps, graph, regex>>,
             \A t \in Thread : at[t] # "publish" \/ at'[t] = "publish"
      PROVE  EdgeInv'
  BY <1>2 DEF EdgeInv
<1>3. ASSUME NEW t \in Thread, Resolve(t) PROVE EdgeInv'
  <2>1. CASE graph # None
    BY <1>2, <1>3, <2>1 DEF Resolve
  <2>2. CASE graph = None
    BY <1>3, <2>2 DEF Resolve, EdgeInv
  <2>3. QED
    BY <2>1, <2>2
<1>4. ASSUME NEW t \in Thread, Publish(t) PROVE EdgeInv'
  BY <1>4 DEF Publish, EdgeInv
<1>5. ASSUME NEW t \in Thread, NEW v \in Stored, Migrate(t, v) PROVE EdgeInv'
  BY <1>2, <1>5 DEF Migrate, shared
<1>6. ASSUME NEW t \in Thread, Lookup(t) \/ ReadEdges(t) \/ Expanded(t) \/ Pop(t)
                                  \/ Exhausted(t) \/ Return(t)
      PROVE  EdgeInv'
  BY <1>2, <1>6 DEF Lookup, ReadEdges, Expanded, Pop, Exhausted, Return, shared
<1>7. ASSUME NEW t \in Thread, NEW i \in todo[t], Expand(t, i) PROVE EdgeInv'
  BY <1>2, <1>7 DEF Expand, shared
<1>8. CASE UNCHANGED vars
  BY <1>2, <1>8 DEF vars, shared
<1>9. QED
  BY <1>1, <1>3, <1>4, <1>5, <1>6, <1>7, <1>8, Zenon DEF Next, Find

LEMMA CoverSteps ==
    ASSUME TypeInv, WalkInv, EdgeInv, CoverInv, OneThread, [Next]_vars
    PROVE  CoverInv'
<1> USE DEF Goto
<1>0. /\ at \in [Thread -> {"idle", "resolve", "publish", "lookup", "edges",
                          "expand", "pop", "found", "error", "refused"}]
      /\ version \in [Thread -> Version] /\ todo \in [Thread -> SUBSET (1..MaxSteps)]
      /\ visited \in [Thread -> SUBSET Version]
      /\ path \in [Thread -> Seq(Hop)] /\ queue \in [Thread -> Seq(Seq(Hop))]
  BY TypeParts DEF TypeInv, LocalOK, PathOK
<1>a. ASSUME NEW t \in Thread, Cover(t)' PROVE CoverInv'
  BY <1>a DEF CoverInv, OneThread
<1>b. \A t \in Thread : Cover(t)
  BY DEF CoverInv
<1>c. GraphInv /\ SearchInv /\ TypeOK
  BY DEF TypeInv
<1>1. ASSUME NEW s \in Call, Declare(s) PROVE CoverInv'
  BY <1>1 DEF Declare, CoverInv, Cover
<1>2. ASSUME NEW t \in Thread, NEW v \in Stored, Migrate(t, v) PROVE CoverInv'
  BY <1>0, <1>2, <1>a DEF Migrate, Cover
<1>3. ASSUME NEW t \in Thread, Resolve(t) \/ Publish(t) PROVE CoverInv'
  BY <1>0, <1>3, <1>a, <1>b DEF Resolve, Publish, Cover
<1>4. ASSUME NEW t \in Thread, Lookup(t) PROVE CoverInv'
  <2>1. UNCHANGED <<visited, version, queue>> /\ visited[t] = {version[t]} /\ version[t] # Target
    BY <1>4, <1>b DEF Lookup, Cover
  <2>2. at'[t] = "found" \/ (at'[t] = "edges" /\ Current(t)' = version[t])
    BY <1>0, <1>4, <1>c DEF Lookup, SearchInv, Current
  <2>3. at'[t] = "edges" => Covered(t, version[t])'
    BY <2>1, <2>2 DEF Covered
  <2>4. QED
    BY <1>a, <2>1, <2>2, <2>3 DEF Cover
<1>5. ASSUME NEW t \in Thread, ReadEdges(t) PROVE CoverInv'
  <2>1. UNCHANGED <<steps, visited, version, queue, path>>
          /\ at[t] = "edges" /\ at'[t] = "expand" /\ todo'[t] = EdgesFor(Current(t))
    BY <1>0, <1>5 DEF ReadEdges
  <2>2. graph \cup regex = DOMAIN steps
    <3>1. graph # None
      BY <1>5, <1>c DEF ReadEdges, GraphInv
    <3>2. \A u \in Thread : at[u] # "publish"
      BY <2>1 DEF OneThread
    <3>3. QED
      BY <3>1, <3>2 DEF EdgeInv
  <2>3. todo'[t] = {i \in DOMAIN steps : Applies(i, Current(t))}
    BY <2>1, <2>2 DEF EdgesFor
  <2>4. Current(t)' = Current(t)
    BY <2>1 DEF Current
  <2>5. Out(Current(t)) = {To(i) : i \in todo'[t]}
    BY <2>3 DEF Out
  <2>6. \A v : Out(v)' = Out(v)
    BY <2>1, SameOut
  <2>7. \A i : To(i)' = To(i)
    BY <2>1, SameEdges
  <2>8. ASSUME NEW v \in visited[t] PROVE Covered(t, v)'
    <3>1. Covered(t, v)
      BY <1>b, <2>1 DEF Cover
    <3>2. QED
      BY <2>1, <2>4, <2>5, <2>6, <2>7, <3>1 DEF Covered
  <2>9. QED
    BY <1>a, <1>b, <2>1, <2>8 DEF Cover
<1>6. ASSUME NEW t \in Thread, NEW i \in todo[t], Expand(t, i) PROVE CoverInv'
  <2>1. UNCHANGED <<steps, version, path, at>> /\ at[t] = "expand"
          /\ todo'[t] = todo[t] \ {i}
    BY <1>0, <1>6 DEF Expand
  <2>2. \/ To(i) \in visited[t] /\ visited' = visited /\ queue' = queue
        \/ /\ visited'[t] = visited[t] \cup {To(i)}
           /\ EndsOf(queue'[t]) = EndsOf(queue[t]) \cup {To(i)}
    <3> DEFINE h == [src |-> Current(t), dst |-> To(i), fn |-> i]
               q == Append(path[t], h)
    <3>1. i \in DOMAIN steps /\ i \in 1..MaxSteps
      BY <1>0, <1>c DEF SearchInv
    <3>2. h \in Hop /\ h.dst = To(i)
      <4>1. graph # None
        BY <1>6, <1>c DEF Expand, GraphInv
      <4>2. To(i) \in Version /\ Current(t) \in Version
        BY <1>c, <3>1, <4>1, ToVersion, CurrentVersion DEF GraphInv, TypeOK
      <4>3. QED
        BY <3>1, <4>2 DEF Hop
    <3> HIDE DEF h
    <3>3. q \in Seq(Hop) /\ q[Len(q)] = h
      BY <1>0, <3>2
    <3>4. \/ To(i) \in visited[t] /\ visited' = visited /\ queue' = queue
          \/ /\ visited'[t] = visited[t] \cup {To(i)}
             /\ queue'[t] = Append(queue[t], q)
      BY <1>0, <1>6 DEF Expand, h
    <3> HIDE DEF q
    <3>5. QED
      BY <1>0, <3>2, <3>3, <3>4, EndsOfAppend
  <2>3. visited'[t] = visited[t] \cup {To(i)} /\ EndsOf(queue[t]) \subseteq EndsOf(queue'[t])
    BY <2>2
  <2>4. Current(t)' = Current(t)
    BY <2>1 DEF Current
  <2>5. \A v : Out(v)' = Out(v)
    BY <2>1, SameOut
  <2>6. {To(j)' : j \in todo'[t]} \cup {To(i)} = {To(j) : j \in todo[t]}
    BY <2>1, SameEdges
  <2>7. ASSUME NEW v \in visited[t] PROVE Covered(t, v)'
    <3>1. Covered(t, v)
      BY <1>b, <2>1 DEF Cover
    <3>2. QED
      BY <2>1, <2>3, <2>4, <2>5, <2>6, <3>1 DEF Covered
  <2>8. ASSUME NEW v \in visited'[t] PROVE Covered(t, v)'
    <3>1. CASE v \in visited[t]
      BY <2>7, <3>1
    <3>2. CASE v \notin visited[t]
      BY <2>2, <2>3, <2>8, <3>2 DEF Covered
    <3>3. QED
      BY <3>1, <3>2
  <2>9. Target \in visited'[t] => Target \in EndsOf(queue'[t])
    BY <1>b, <2>1, <2>2, <2>3 DEF Cover
  <2>10. QED
    BY <1>a, <1>b, <2>1, <2>3, <2>8, <2>9 DEF Cover
<1>7. ASSUME NEW t \in Thread, Expanded(t) PROVE CoverInv'
  <2>1. UNCHANGED <<steps, visited, version, queue, path, todo>>
          /\ at[t] = "expand" /\ at'[t] = "pop" /\ todo[t] = {}
    BY <1>0, <1>7 DEF Expanded, shared
  <2>2. \A v : Out(v)' = Out(v)
    BY <2>1, SameOut
  <2>3. ASSUME NEW v \in visited[t] PROVE Covered(t, v)'
    <3>1. Covered(t, v)
      BY <1>b, <2>1 DEF Cover
    <3>2. QED
      BY <2>1, <2>2, <3>1 DEF Covered
  <2>4. QED
    BY <1>a, <1>b, <2>1, <2>3 DEF Cover
<1>8. ASSUME NEW t \in Thread, Pop(t) PROVE CoverInv'
  <2> DEFINE p == Head(queue[t])
             c == p[Len(p)].dst
  <2>1. UNCHANGED <<steps, visited, version>> /\ at[t] = "pop" /\ queue[t] # <<>>
          /\ queue'[t] = Tail(queue[t]) /\ path'[t] = p
    BY <1>0, <1>8 DEF Pop
  <2>2. queue[t] \in Seq(Seq(Hop)) /\ 1 \in 1..Len(queue[t]) /\ p = queue[t][1]
    BY <1>0, <2>1
  <2>3. Current(t)' = c
    BY <2>1, <2>2 DEF WalkInv, Current
  <2>4. at'[t] = "found" \/ (at'[t] = "edges" /\ c # Target)
    BY <1>0, <1>8, <2>3 DEF Pop
  <2>5. EndsOf(queue[t]) = EndsOf(queue'[t]) \cup {c}
    BY <2>1, <2>2, EndsOfTail
  <2> HIDE DEF c, p
  <2>6. \A v : Out(v)' = Out(v)
    BY <2>1, SameOut
  <2>7. ASSUME NEW v \in visited[t], at'[t] = "edges" PROVE Covered(t, v)'
    <3>1. Covered(t, v)
      BY <1>b, <2>1 DEF Cover
    <3>2. QED
      BY <2>1, <2>3, <2>5, <2>6, <2>7, <3>1 DEF Covered
  <2>8. QED
    BY <1>a, <1>b, <2>1, <2>4, <2>5, <2>7 DEF Cover
<1>9. ASSUME NEW t \in Thread, Exhausted(t) PROVE CoverInv'
  <2>1. UNCHANGED <<steps, visited, version, queue, path, todo>>
          /\ at[t] = "pop" /\ at'[t] = "error" /\ queue[t] = <<>>
    BY <1>0, <1>9 DEF Exhausted, shared
  <2>2. \A v : Out(v)' = Out(v)
    BY <2>1, SameOut
  <2>3. ASSUME NEW v \in visited[t] PROVE Covered(t, v)'
    <3>1. Covered(t, v)
      BY <1>b, <2>1 DEF Cover
    <3>2. QED
      BY <2>1, <2>2, <3>1 DEF Covered
  <2>4. QED
    BY <1>a, <1>b, <2>1, <2>3 DEF Cover
<1>10. ASSUME NEW t \in Thread, Return(t) PROVE CoverInv'
  BY <1>0, <1>10, <1>a DEF Return, Cover
<1>11. CASE UNCHANGED vars
  <2>1. UNCHANGED <<steps, visited, version, queue, path, todo, at>>
    BY <1>11 DEF vars
  <2>2. \A v : Out(v)' = Out(v)
    BY <2>1, SameOut
  <2>3. \A i : To(i)' = To(i)
    BY <2>1, SameEdges
  <2>4. ASSUME NEW t \in Thread, NEW v \in visited[t], Covered(t, v) PROVE Covered(t, v)'
    <3>1. Current(t)' = Current(t)
      BY <2>1 DEF Current
    <3>2. QED
      BY <2>1, <2>2, <2>3, <2>4, <3>1 DEF Covered
  <2>5. QED
    BY <1>b, <2>1, <2>4 DEF CoverInv, Cover
<1>12. QED
  BY <1>1, <1>2, <1>3, <1>4, <1>5, <1>6, <1>7, <1>8, <1>9, <1>10, <1>11, Zenon DEF Next, Find

(* While one thread at a time migrates, an error tells the truth: the       *)
(* versions visited hold the stored version, no step leaves them, and the   *)
(* target is not among them.                                                *)
THEOREM ErrorsAreRight ==
    ASSUME OneThread
    PROVE  Spec => []ErrorMeansUnreachable
<1>1. Init => EdgeInv /\ CoverInv
  BY DEF Init, EdgeInv, CoverInv, Cover
<1>2. Init => WalkInv
  BY DEF Init, WalkInv, Walk
<1>3. TypeInv /\ CoverInv => ErrorMeansUnreachable
  <2> SUFFICES ASSUME TypeInv, CoverInv, NEW t \in Thread, at[t] = "error"
               PROVE  \E S \in SUBSET (Version \ {Target}) :
                        /\ version[t] \in S
                        /\ \A v \in S, i \in DOMAIN steps : Applies(i, v) => To(i) \in S
    BY DEF ErrorMeansUnreachable
  <2>1. visited[t] \in SUBSET Version /\ todo[t] = {} /\ EndsOf(queue[t]) = {}
    BY TypeParts DEF TypeInv, LocalOK, SearchInv, CoverInv, Cover, EndsOf
  <2>2. version[t] \in visited[t] /\ Target \notin visited[t]
    BY <2>1 DEF CoverInv, Cover
  <2>3. \A v \in visited[t] : Out(v) \subseteq visited[t]
    BY <2>1 DEF CoverInv, Cover, Covered
  <2>4. \A v \in visited[t], i \in DOMAIN steps : Applies(i, v) => To(i) \in visited[t]
    BY <2>3 DEF Out
  <2>5. QED
    BY <2>1, <2>2, <2>4
<1>4. QED
  BY <1>1, <1>2, <1>3, TypeInit, TypeSteps, WalkSteps, EdgeSteps, CoverSteps, PTL DEF Spec

-----------------------------------------------------------------------------
(* No way from version v to the target is shorter than p.                   *)
Shortest(v, p) ==
    \E d \in [Version -> 0..Len(p)] :
        /\ d[v] = 0 /\ d[Target] = Len(p)
        /\ \A x \in Version : \A y \in Out(x) : d[y] <= d[x] + 1

Searching(t) == at[t] \in {"edges", "expand", "pop"}

End(p) == p[Len(p)].dst

(* A queued path is as long as its end is far from the start, but for a     *)
(* step from the start to itself, and at most a step longer than the path   *)
(* that is extended.                                                        *)
Placed(t, d, p) ==
    /\ Len(p) = Len(path[t]) \/ Len(p) = Len(path[t]) + 1
    /\ End(p) \in visited[t]
    /\ End(p) = version[t] \/ d[End(p)] = Len(p)

Near(t, d, x, y) == y \in visited[t] /\ d[y] <= d[x] + 1

(* No step from v is a shortcut, or v has not been dealt with.              *)
Settled(t, d, v) ==
    \/ \A y \in Out(v) : Near(t, d, v, y)
    \/ \E k \in 1..Len(queue[t]) : End(queue[t][k]) = v /\ d[v] = Len(queue[t][k])
    \/ v = Current(t) /\ d[v] = Len(path[t]) /\ at[t] = "edges"
    \/ /\ v = Current(t) /\ d[v] = Len(path[t]) /\ at[t] = "expand"
       /\ \A y \in Out(v) : Near(t, d, v, y) \/ \E i \in todo[t] : y = To(i)

(* d is the distance of the versions visited from the start; paths are      *)
(* extended in the order of their lengths.                                  *)
Levels(t, d) ==
    /\ version[t] # Target
    /\ \A v \in visited[t] : d[v] <= Len(path[t]) + 1 /\ (d[v] = 0 <=> v = version[t])
    /\ \A k \in 1..Len(queue[t]) : Placed(t, d, queue[t][k])
    /\ \A k, l \in 1..Len(queue[t]) : k <= l => Len(queue[t][k]) <= Len(queue[t][l])
    /\ \A v \in visited[t] : Settled(t, d, v)

(* Why a path that is found is the shortest: of a search in progress, the   *)
(* versions visited have distances; what was found before, for a thread or  *)
(* for the cache, is the shortest as the steps are the same.                *)
LevelInv ==
    \A t \in Thread : Searching(t) => \E d \in [Version -> Nat] : Levels(t, d)

ShortInv ==
    /\ \A v \in Version : cache[v] # None => Shortest(v, cache[v])
    /\ \A t \in Thread : at[t] = "found" => Shortest(version[t], path[t])


LEMMA SameShortest ==
    ASSUME UNCHANGED steps, NEW v, NEW p, Shortest(v, p)
    PROVE  Shortest(v, p)'
  BY SameOut DEF Shortest

(* Steps that leave a search as it is but for the place of the thread.      *)
LEMMA SameSettled ==
    ASSUME NEW t \in Thread, NEW d, NEW v, Settled(t, d, v),
           UNCHANGED <<steps, path, version, visited, queue>>,
           \/ at[t] = "edges" /\ at'[t] = "expand" /\ Out(Current(t)) = {To(i) : i \in todo'[t]}
           \/ at[t] = "expand" /\ at'[t] = "pop" /\ todo[t] = {}
           \/ at'[t] = at[t] /\ todo' = todo
    PROVE  Settled(t, d, v)'
<1>1. /\ Current(t)' = Current(t) /\ \A y : Near(t, d, v, y)' <=> Near(t, d, v, y)
  BY DEF Current, Near
<1>2. Out(v)' = Out(v) /\ \A i : To(i)' = To(i)
  BY SameOut, SameEdges
<1>3. CASE \A y \in Out(v) : Near(t, d, v, y)
  BY <1>1, <1>2, <1>3 DEF Settled
<1>4. CASE \E k \in 1..Len(queue[t]) : End(queue[t][k]) = v /\ d[v] = Len(queue[t][k])
  BY <1>4 DEF Settled, End
<1>5. CASE v = Current(t) /\ d[v] = Len(path[t]) /\ at[t] = "edges"
  BY <1>1, <1>2, <1>5 DEF Settled
<1>6. CASE /\ v = Current(t) /\ d[v] = Len(path[t]) /\ at[t] = "expand"
           /\ \A y \in Out(v) : Near(t, d, v, y) \/ \E i \in todo[t] : y = To(i)
  BY <1>1, <1>2, <1>6 DEF Settled
<1>7. QED
  BY <1>3, <1>4, <1>5, <1>6 DEF Settled

LEMMA SameLevels ==
    ASSUME NEW t \in Thread, NEW d, Levels(t, d),
           UNCHANGED <<steps, path, version, visited, queue>>,
           \/ at[t] = "edges" /\ at'[t] = "expand" /\ Out(Current(t)) = {To(i) : i \in todo'[t]}
           \/ at[t] = "expand" /\ at'[t] = "pop" /\ todo[t] = {}
           \/ at'[t] = at[t] /\ todo' = todo
    PROVE  Levels(t, d)'
<1>1. \A v \in visited'[t] : Settled(t, d, v)'
  BY SameSettled DEF Levels
<1>2. \A p : Placed(t, d, p)' <=> Placed(t, d, p)
  BY DEF Placed
<1>3. QED
  BY <1>1, <1>2 DEF Levels

LEMMA AppendOne ==
    ASSUME NEW s \in Seq(Seq(Hop)), NEW p \in Seq(Hop), NEW r, r = Append(s, p)
    PROVE  /\ Len(s) \in Nat /\ Len(r) = Len(s) + 1 /\ r[Len(s) + 1] = p
           /\ \A k \in 1..Len(s) : k \in 1..Len(r) /\ r[k] = s[k]
           /\ \A k \in 1..Len(r) : k \in 1..Len(s) \/ k = Len(s) + 1
  OBVIOUS

(* An edge is followed: its target gets a distance unless it has one.       *)
LEMMA ExpandLevels ==
    ASSUME TypeInv, CoverInv, NEW t \in Thread, NEW i \in todo[t], Expand(t, i),
           NEW d \in [Version -> Nat], Levels(t, d)
    PROVE  \E e \in [Version -> Nat] : Levels(t, e)'
<1> DEFINE h == [src |-> Current(t), dst |-> To(i), fn |-> i]
           q == Append(path[t], h)
           m == Len(path[t])
<1>1. /\ path \in [Thread -> Seq(Hop)] /\ queue \in [Thread -> Seq(Seq(Hop))]
      /\ visited \in [Thread -> SUBSET Version] /\ todo \in [Thread -> SUBSET (1..MaxSteps)]
  BY TypeParts DEF TypeInv, LocalOK, PathOK
<1>2. UNCHANGED <<steps, version, path, at>> /\ at[t] = "expand" /\ todo'[t] = todo[t] \ {i}
  BY <1>1 DEF Expand
<1>3. i \in DOMAIN steps /\ i \in 1..MaxSteps
  BY <1>1 DEF TypeInv, SearchInv
<1>4. To(i) \in Version /\ Current(t) \in Version /\ version[t] \in visited[t] /\ version[t] \in Version
  <2>1. graph # None
    BY <1>2 DEF TypeInv, GraphInv
  <2>2. QED
    BY <1>1, <1>2, <1>3, <2>1, ToVersion, CurrentVersion DEF TypeInv, GraphInv, TypeOK, CoverInv, Cover
<1>5. h \in Hop /\ h.dst = To(i)
  BY <1>3, <1>4 DEF Hop
<1> HIDE DEF h
<1>6. q \in Seq(Hop) /\ Len(q) = m + 1 /\ End(q) = To(i) /\ m \in Nat
  BY <1>1, <1>5 DEF End
<1>7. /\ visited'[t] = visited[t] \cup {To(i)}
      /\ \/ queue'[t] = queue[t] /\ To(i) \in visited[t]
         \/ /\ queue'[t] = Append(queue[t], q)
            /\ path[t] = <<>> \/ To(i) \notin visited[t]
  BY <1>1 DEF Expand, h
<1> HIDE DEF q
<1>8. PICK e \in [Version -> Nat] :
        /\ \A v \in visited[t] : e[v] = d[v]
        /\ To(i) \notin visited[t] => e[To(i)] = m + 1
  <2>1. CASE To(i) \in visited[t]
    BY <2>1
  <2>2. CASE To(i) \notin visited[t]
    <3> DEFINE f == [d EXCEPT ![To(i)] = m + 1]
    <3>1. f \in [Version -> Nat] /\ (\A v \in visited[t] : f[v] = d[v]) /\ f[To(i)] = m + 1
      BY <1>1, <1>4, <1>6, <2>2
    <3>2. QED
      BY <3>1
  <2>3. QED
    BY <2>1, <2>2
<1>9. \A v \in visited'[t] : e[v] <= m + 1 /\ (e[v] = 0 <=> v = version[t])
  <2>1. \A v \in visited[t] : e[v] <= m + 1 /\ (e[v] = 0 <=> v = version[t])
    BY <1>8 DEF Levels
  <2>2. To(i) \notin visited[t] => e[To(i)] <= m + 1 /\ e[To(i)] # 0 /\ To(i) # version[t]
    BY <1>4, <1>6, <1>8
  <2>3. QED
    BY <1>7, <2>1, <2>2
<1>10. ASSUME NEW r, Placed(t, d, r) PROVE Placed(t, e, r)'
  <2>1. End(r) \in visited[t] /\ e[End(r)] = d[End(r)]
    BY <1>8, <1>10 DEF Placed
  <2>2. End(r)' = End(r)
    BY DEF End
  <2>3. QED
    BY <1>2, <1>7, <1>10, <2>1, <2>2 DEF Placed
<1>11. ASSUME NEW r, queue'[t] = Append(queue[t], q), r = q PROVE Placed(t, e, r)'
  <2>1. End(r)' = To(i) /\ Len(r) = m + 1
    BY <1>6, <1>11 DEF End
  <2>2. To(i) = version[t] \/ e[To(i)] = m + 1
    <3>1. CASE To(i) \notin visited[t]
      BY <1>8, <3>1
    <3>2. CASE To(i) \in visited[t] /\ path[t] = <<>>
      <4>1. m = 0 /\ d[To(i)] <= m + 1 /\ (d[To(i)] = 0 <=> To(i) = version[t]) /\ d[To(i)] \in Nat
        BY <1>4, <3>2 DEF Levels
      <4>2. QED
        BY <1>8, <3>2, <4>1
    <3>3. QED
      BY <1>7, <1>11, <3>1, <3>2
  <2>3. To(i) \in visited'[t]
    BY <1>7
  <2>4. QED
    BY <1>2, <2>1, <2>2, <2>3 DEF Placed
<1>12. \A k \in 1..Len(queue[t])' : Placed(t, e, queue[t][k])'
  <2> SUFFICES ASSUME NEW k \in 1..Len(queue'[t]) PROVE Placed(t, e, queue[t][k])'
    OBVIOUS
  <2>1. PICK r : r = queue'[t][k]
    OBVIOUS
  <2>2. (k \in 1..Len(queue[t]) /\ r = queue[t][k]) \/ (queue'[t] = Append(queue[t], q) /\ r = q)
    <3>1. CASE queue'[t] = queue[t]
      BY <2>1, <3>1
    <3>2. CASE queue'[t] = Append(queue[t], q)
      <4>1. PICK s, w : s = queue[t] /\ w = queue'[t]
        OBVIOUS
      <4>2. s \in Seq(Seq(Hop)) /\ w = Append(s, q)
        BY <1>1, <3>2, <4>1
      <4>3. w[Len(s) + 1] = q /\ \A l \in 1..Len(w) : (l \in 1..Len(s) /\ w[l] = s[l]) \/ l = Len(s) + 1
        BY <1>6, <4>2, AppendOne
      <4>4. QED
        BY <2>1, <3>2, <4>1, <4>3
    <3>3. QED
      BY <1>7, <3>1, <3>2
  <2>3. Placed(t, e, r)'
    BY <1>10, <1>11, <2>2 DEF Levels
  <2>4. QED
    BY <2>1, <2>3 DEF Placed, End
<1>13. \A k, l \in 1..Len(queue'[t]) : k <= l => Len(queue'[t][k]) <= Len(queue'[t][l])
  <2>1. \A k, l \in 1..Len(queue[t]) : k <= l => Len(queue[t][k]) <= Len(queue[t][l])
    BY DEF Levels
  <2>2. CASE queue'[t] = queue[t]
    BY <2>1, <2>2
  <2>3. CASE queue'[t] = Append(queue[t], q)
    <3> DEFINE n == Len(queue[t])
    <3>1. /\ n \in Nat /\ Len(queue'[t]) = n + 1 /\ queue'[t][n + 1] = q
          /\ \A k \in 1..n : queue'[t][k] = queue[t][k]
      BY <1>1, <1>6, <2>3
    <3>2. \A k \in 1..n : Len(queue[t][k]) <= m + 1
      <4>1. \A k \in 1..n : Placed(t, d, queue[t][k])
        BY DEF Levels
      <4>2. \A k \in 1..n : Len(queue[t][k]) = m \/ Len(queue[t][k]) = m + 1
        BY <4>1 DEF Placed
      <4>3. ASSUME NEW k \in 1..n PROVE Len(queue[t][k]) <= m + 1
        <5>1. PICK l : l = Len(queue[t][k])
          OBVIOUS
        <5>2. l = m \/ l = m + 1
          BY <4>2, <5>1
        <5>3. l <= m + 1
          BY <1>6, <5>2
        <5>4. QED
          BY <5>1, <5>3
      <4>4. QED
        BY <4>3
    <3> HIDE DEF n
    <3>3. \A k \in 1..(n + 1) : k \in 1..n \/ k = n + 1
      BY <3>1
    <3>4. \A k \in 1..(n + 1) : (k \in 1..n /\ queue'[t][k] = queue[t][k]) \/ k = n + 1
      BY <3>1, <3>3
    <3>5. ASSUME NEW k \in 1..(n + 1), NEW l \in 1..(n + 1), k <= l
          PROVE  Len(queue'[t][k]) <= Len(queue'[t][l])
      <4>1. CASE k \in 1..n /\ l \in 1..n
        BY <2>1, <3>4, <3>1, <3>5, <4>1 DEF n
      <4>2. CASE k \in 1..n /\ l = n + 1
        BY <1>6, <3>1, <3>2, <4>2
      <4>3. CASE k = n + 1
        <5>1. l = n + 1
          BY <3>1, <3>5, <4>3
        <5>2. QED
          BY <1>6, <3>1, <4>3, <5>1
      <4>4. QED
        BY <3>3, <4>1, <4>2, <4>3
    <3>6. QED
      BY <3>1, <3>5
  <2>4. QED
    BY <1>7, <2>2, <2>3
<1>14. ASSUME NEW v, NEW y, Near(t, d, v, y), v \in visited[t] PROVE Near(t, e, v, y)'
  BY <1>7, <1>8, <1>14 DEF Near
<1>15. ASSUME NEW v \in visited[t] PROVE Settled(t, e, v)'
  <2>0. Settled(t, d, v) /\ e[v] = d[v] /\ Out(v)' = Out(v) /\ Current(t)' = Current(t) /\ \A j : To(j)' = To(j)
    BY <1>2, <1>8, SameOut, SameEdges DEF Levels, Current
  <2>1. CASE \A y \in Out(v) : Near(t, d, v, y)
    BY <1>14, <2>0, <2>1 DEF Settled
  <2>2. CASE \E k \in 1..Len(queue[t]) : End(queue[t][k]) = v /\ d[v] = Len(queue[t][k])
    <3>1. PICK k \in 1..Len(queue[t]) : End(queue[t][k]) = v /\ d[v] = Len(queue[t][k])
      BY <2>2
    <3>2. k \in 1..Len(queue'[t]) /\ queue'[t][k] = queue[t][k]
      <4>1. PICK s, w : s = queue[t] /\ w = queue'[t]
        OBVIOUS
      <4>2. CASE w = Append(s, q)
        BY <1>1, <1>6, <4>1, <4>2, AppendOne
      <4>3. QED
        BY <1>7, <4>1, <4>2
    <3>3. QED
      BY <2>0, <3>1, <3>2 DEF Settled, End
  <2>3. CASE /\ v = Current(t) /\ d[v] = m
             /\ \A y \in Out(v) : Near(t, d, v, y) \/ \E j \in todo[t] : y = To(j)
    <3>1. Near(t, e, v, To(i))'
      <4>1. e[To(i)] <= m + 1 /\ e[v] = m /\ To(i) \in visited'[t]
        BY <1>7, <1>9, <2>0, <2>3
      <4>2. PICK z : z = To(i)
        OBVIOUS
      <4>3. z \in visited'[t] /\ e[z] <= e[v] + 1
        BY <2>3, <2>0, <4>1, <4>2
      <4>4. Near(t, e, v, z)'
        BY <4>3 DEF Near
      <4>5. QED
        BY <2>0, <4>2, <4>4 DEF Near
    <3>2. \A y \in Out(v) : Near(t, e, v, y)' \/ \E j \in todo'[t] : y = To(j)
      <4> SUFFICES ASSUME NEW y \in Out(v), ~Near(t, e, v, y)', NEW j \in todo[t], y = To(j)
                   PROVE  j \in todo'[t]
        BY <1>14, <2>3
      <4>1. PICK z : z = To(i)
        OBVIOUS
      <4>2. Near(t, e, v, z)'
        BY <1>2, <2>0, <3>1, <4>1 DEF Near
      <4>3. QED
        BY <1>2, <4>1, <4>2
    <3>3. QED
      BY <1>2, <2>0, <2>3, <3>2 DEF Settled
  <2>4. QED
    BY <1>2, <2>0, <2>1, <2>2, <2>3 DEF Settled
<1>16. ASSUME NEW v \in visited'[t], v \notin visited[t] PROVE Settled(t, e, v)'
  <2>1. v = To(i) /\ queue'[t] = Append(queue[t], q) /\ e[v] = m + 1
    BY <1>7, <1>8, <1>16
  <2>2. PICK k \in 1..Len(queue'[t]) : queue'[t][k] = q
    <3>1. PICK s, w : s = queue[t] /\ w = queue'[t]
      OBVIOUS
    <3>2. Len(s) \in Nat /\ Len(w) = Len(s) + 1 /\ w[Len(s) + 1] = q
      BY <1>1, <1>6, <2>1, <3>1, AppendOne
    <3>3. Len(s) + 1 \in 1..Len(w)
      BY <3>2
    <3>4. QED
      BY <3>1, <3>2, <3>3
  <2>3. End(q) = v /\ e[v] = Len(q)
    BY <1>6, <2>1
  <2>4. PICK r : r = q /\ r = queue'[t][k]
    BY <2>2
  <2>5. End(r) = v /\ e[v] = Len(r) /\ End(r)' = End(r)
    BY <2>3, <2>4 DEF End
  <2>6. QED
    BY <2>2, <2>4, <2>5 DEF Settled, End
<1>17. Levels(t, e)'
  BY <1>2, <1>9, <1>12, <1>13, <1>15, <1>16 DEF Levels
<1>18. QED
  BY <1>8, <1>17

(* The next path is taken: it is no longer than the others, and it is the   *)
(* shortest when it ends in the target.                                     *)
LEMMA PopLevels ==
    ASSUME TypeInv, WalkInv, CoverInv, NEW t \in Thread, Pop(t),
           NEW d \in [Version -> Nat], Levels(t, d)
    PROVE  \/ at'[t] = "edges" /\ Levels(t, d)'
           \/ at'[t] = "found" /\ Shortest(version[t], path'[t])
<1>1. /\ path \in [Thread -> Seq(Hop)] /\ queue \in [Thread -> Seq(Seq(Hop))]
      /\ visited \in [Thread -> SUBSET Version] /\ at \in [Thread -> {"idle", "resolve", "publish",
            "lookup", "edges", "expand", "pop", "found", "error", "refused"}]
  BY TypeParts DEF TypeInv, LocalOK, PathOK
<1>2. PICK p, s, r : p = Head(queue[t]) /\ s = queue[t] /\ r = Tail(queue[t])
  OBVIOUS
<1>3. /\ UNCHANGED <<steps, version, visited, todo>> /\ at[t] = "pop" /\ s # <<>>
      /\ queue'[t] = r /\ path'[t] = p
  BY <1>1, <1>2 DEF Pop
<1>4. /\ s \in Seq(Seq(Hop)) /\ r \in Seq(Seq(Hop)) /\ Len(r) \in Nat /\ Len(s) = Len(r) + 1 /\ p = s[1]
      /\ p \in Seq(Hop) /\ \A k \in 1..Len(r) : r[k] = s[k + 1]
  BY <1>1, <1>2, <1>3
<1>5. p # <<>> /\ Len(p) \in Nat \ {0}
  <2>1. 1 \in 1..Len(s)
    BY <1>4
  <2>2. p # <<>>
    BY <1>2, <1>4, <2>1 DEF WalkInv
  <2>3. QED
    BY <1>4, <2>2
<1>6. Current(t)' = End(p)
  BY <1>3, <1>5 DEF Current, End
<1>7. /\ \A k \in 1..Len(s) : Placed(t, d, s[k])
      /\ \A k, l \in 1..Len(s) : k <= l => Len(s[k]) <= Len(s[l])
  BY <1>2 DEF Levels
<1>8. Placed(t, d, p) /\ \A k \in 1..Len(s) : Len(p) <= Len(s[k])
  <2>1. 1 \in 1..Len(s) /\ \A k \in 1..Len(s) : 1 <= k
    BY <1>4
  <2>2. QED
    BY <1>4, <1>7, <2>1
<1>9. \A v : Out(v)' = Out(v) /\ \A y : Near(t, d, v, y)' <=> Near(t, d, v, y)
  BY <1>3, SameOut DEF Near
<1>10. CASE at'[t] = "edges"
  <2> DEFINE m == Len(path[t])
  <2>0. m \in Nat
    BY <1>1
  <2>1. \A v \in visited[t] : d[v] <= Len(p) + 1 /\ (d[v] = 0 <=> v = version[t])
    <3>1. m <= Len(p)
      BY <1>5, <1>8, <2>0 DEF Placed
    <3>2. \A v \in visited[t] : d[v] \in Nat /\ d[v] <= m + 1 /\ (d[v] = 0 <=> v = version[t])
      BY <1>1 DEF Levels
    <3> HIDE DEF m
    <3>3. QED
      BY <1>5, <2>0, <3>1, <3>2
  <2>2. ASSUME NEW k \in 1..Len(r) PROVE Placed(t, d, r[k])'
    <3>1. k + 1 \in 1..Len(s) /\ r[k] = s[k + 1]
      BY <1>4
    <3>2. PICK w : w = s[k + 1]
      OBVIOUS
    <3>3. Placed(t, d, w) /\ Len(p) <= Len(w) /\ Placed(t, d, p) /\ End(w)' = End(w)
      BY <1>7, <1>8, <3>1, <3>2 DEF End
    <3>4. Len(w) = Len(p) \/ Len(w) = Len(p) + 1
      <4>1. PICK l, n : l = Len(w) /\ n = Len(p)
        OBVIOUS
      <4>2. (l = m \/ l = m + 1) /\ (n = m \/ n = m + 1) /\ n <= l
        BY <3>3, <4>1 DEF Placed
      <4>3. l = n \/ l = n + 1
        BY <2>0, <4>2
      <4>4. QED
        BY <4>1, <4>3
    <3>5. Placed(t, d, w)'
      BY <1>3, <3>3, <3>4 DEF Placed
    <3>6. QED
      BY <3>1, <3>2, <3>5
  <2>3. \A k, l \in 1..Len(r) : k <= l => Len(r[k]) <= Len(r[l])
    <3>1. ASSUME NEW k \in 1..Len(r), NEW l \in 1..Len(r), k <= l PROVE Len(r[k]) <= Len(r[l])
      <4>1. k + 1 \in 1..Len(s) /\ l + 1 \in 1..Len(s) /\ k + 1 <= l + 1
        BY <1>4, <3>1
      <4>2. QED
        BY <1>4, <1>7, <4>1
    <3>2. QED
      BY <3>1
  <2>4. ASSUME NEW v \in visited[t] PROVE Settled(t, d, v)'
    <3>1. CASE \A y \in Out(v) : Near(t, d, v, y)
      BY <1>9, <3>1 DEF Settled
    <3>2. CASE \E k \in 1..Len(s) : End(s[k]) = v /\ d[v] = Len(s[k])
      <4>1. PICK k \in 1..Len(s) : End(s[k]) = v /\ d[v] = Len(s[k])
        BY <3>2
      <4>2. CASE k = 1
        BY <1>3, <1>4, <1>6, <1>10, <4>1, <4>2 DEF Settled
      <4>3. CASE k # 1
        <5>1. PICK l \in 1..Len(r) : r[l] = s[k]
          <6>1. k - 1 \in 1..Len(r) /\ (k - 1) + 1 = k
            BY <1>4, <4>3
          <6>2. QED
            BY <1>4, <6>1
        <5>2. End(r[l]) = v /\ d[v] = Len(r[l])
          BY <4>1, <5>1
        <5>3. QED
          BY <1>3, <5>2 DEF Settled, End
      <4>4. QED
        BY <4>2, <4>3
    <3>3. QED
      BY <1>2, <1>3, <3>1, <3>2 DEF Levels, Settled
  <2>5. version'[t] # Target
    BY <1>3 DEF Levels
  <2>6. \A k \in 1..Len(queue'[t]) : Placed(t, d, queue[t][k])'
    <3> SUFFICES ASSUME NEW k \in 1..Len(queue'[t]) PROVE Placed(t, d, queue[t][k])'
      OBVIOUS
    <3>1. PICK w : w = r[k]
      OBVIOUS
    <3>2. Placed(t, d, w)'
      BY <1>3, <2>2, <3>1
    <3>3. QED
      BY <1>3, <3>1, <3>2
  <2>7. Levels(t, d)'
    BY <1>3, <2>1, <2>3, <2>4, <2>5, <2>6 DEF Levels
  <2>8. QED
    BY <1>10, <2>7
<1>11. CASE at'[t] = "found"
  <2> DEFINE n == Len(p)
             f == [v \in Version |-> IF v \in visited[t] /\ d[v] < n THEN d[v] ELSE n]
  <2>1. End(p) = Target
    BY <1>1, <1>6, <1>11 DEF Pop, Goto
  <2>2. Target \in visited[t] /\ d[Target] = n /\ version[t] \in visited[t] /\ d[version[t]] = 0
    BY <1>3, <1>8, <2>1 DEF Placed, Levels, CoverInv, Cover
  <2>3. n \in Nat /\ n # 0
    BY <1>5
  <2> HIDE DEF n
  <2>4. f \in [Version -> 0..n]
    <3>1. ASSUME NEW v \in Version PROVE (IF v \in visited[t] /\ d[v] < n THEN d[v] ELSE n) \in 0..n
      <4>1. d[v] \in Nat
        OBVIOUS
      <4>2. QED
        BY <2>3, <4>1
    <3>2. QED
      BY <3>1
  <2>5. f[version[t]] = 0 /\ f[Target] = n
    BY <1>1, <2>2, <2>3
  <2>6. ASSUME NEW x \in Version, NEW y \in Out(x), y \in Version PROVE f[y] <= f[x] + 1
    <3>1. f[x] \in Nat /\ f[y] \in Nat /\ f[y] <= n
      BY <2>3, <2>4, <2>6
    <3>2. CASE ~(x \in visited[t] /\ d[x] < n)
      <4>1. f[x] = n
        BY <3>2
      <4>2. QED
        BY <2>3, <3>1, <4>1
    <3>3. CASE x \in visited[t] /\ d[x] < n
      <4>1. Near(t, d, x, y)
        <5>1. ~\E k \in 1..Len(s) : End(s[k]) = x /\ d[x] = Len(s[k])
          <6>1. ASSUME NEW k \in 1..Len(s), d[x] = Len(s[k]) PROVE FALSE
            <7>1. n <= d[x] /\ d[x] \in Nat
              BY <1>8, <6>1 DEF n
            <7>2. QED
              BY <2>3, <3>3, <7>1
          <6>2. QED
            BY <6>1
        <5>2. QED
          BY <1>2, <1>3, <3>3, <5>1 DEF Levels, Settled
      <4>2. y \in visited[t] /\ d[y] <= d[x] + 1 /\ d[y] \in Nat /\ d[x] \in Nat /\ f[x] = d[x]
        BY <2>6, <3>3, <4>1 DEF Near
      <4>3. f[y] <= d[y]
        BY <2>3, <2>6, <4>2
      <4>4. QED
        BY <3>1, <4>2, <4>3
    <3>4. QED
      BY <3>2, <3>3
  <2>7. \A x \in Version : \A y \in Out(x) : y \in Version
    <3>1. graph # None
      BY <1>3 DEF TypeInv, GraphInv
    <3>2. QED
      BY <3>1, ToVersion DEF TypeInv, GraphInv, TypeOK, Out
  <2>8. Shortest(version[t], p)
    <3> HIDE DEF f
    <3>1. \A x \in Version : \A y \in Out(x) : f[y] <= f[x] + 1
      BY <2>6, <2>7
    <3>2. QED
      BY <2>4, <2>5, <3>1 DEF Shortest, n
  <2>9. QED
    BY <1>3, <1>11, <2>8
<1>12. QED
  BY <1>1, <1>10, <1>11 DEF Pop, Goto

LEMMA LevelSteps ==
    ASSUME TypeInv, WalkInv, EdgeInv, CoverInv, LevelInv, OneThread, [Next]_vars
    PROVE  LevelInv'
<1> USE DEF Goto
<1>0. /\ at \in [Thread -> {"idle", "resolve", "publish", "lookup", "edges",
                          "expand", "pop", "found", "error", "refused"}]
      /\ version \in [Thread -> Version] /\ todo \in [Thread -> SUBSET (1..MaxSteps)]
      /\ path \in [Thread -> Seq(Hop)] /\ queue \in [Thread -> Seq(Seq(Hop))]
  BY TypeParts DEF TypeInv, LocalOK, PathOK
<1>a. ASSUME NEW t \in Thread, ~Searching(t)' \/ \E d \in [Version -> Nat] : Levels(t, d)'
      PROVE  LevelInv'
  BY <1>a DEF LevelInv, OneThread
<1>1. ASSUME NEW s \in Call, Declare(s) PROVE LevelInv'
  BY <1>1 DEF Declare, LevelInv, Searching
<1>2. ASSUME NEW t \in Thread, NEW v \in Stored, Migrate(t, v) PROVE LevelInv'
  BY <1>0, <1>2, <1>a DEF Migrate, Searching
<1>3. ASSUME NEW t \in Thread, Resolve(t) \/ Publish(t) PROVE LevelInv'
  BY <1>0, <1>3, <1>a DEF Resolve, Publish, Searching
<1>4. ASSUME NEW t \in Thread, Lookup(t) PROVE LevelInv'
  <2>1. CASE at'[t] = "found"
    BY <1>a, <2>1 DEF Searching
  <2>2. CASE at'[t] # "found"
    <3>1. /\ UNCHANGED <<visited, version, queue, path>> /\ at'[t] = "edges"
          /\ visited[t] = {version[t]} /\ version[t] # Target /\ path[t] = <<>> /\ queue[t] = <<>>
      BY <1>0, <1>4, <2>2 DEF Lookup, CoverInv, Cover, TypeInv, SearchInv
    <3>2. PICK d \in [Version -> Nat] : \A v \in Version : d[v] = 0
      <4>1. [v \in Version |-> 0] \in [Version -> Nat] /\ \A v \in Version : [x \in Version |-> 0][v] = 0
        OBVIOUS
      <4>2. QED
        BY <4>1
    <3>3. Current(t)' = version[t] /\ Len(path'[t]) = 0 /\ version[t] \in Version /\ 1..Len(queue'[t]) = {}
      BY <1>0, <3>1 DEF Current
    <3>4. Settled(t, d, version[t])'
      BY <3>1, <3>2, <3>3 DEF Settled
    <3>5. \A v \in visited'[t] : Settled(t, d, v)'
      BY <3>1, <3>4
    <3>6. Levels(t, d)'
      BY <3>1, <3>2, <3>3, <3>5 DEF Levels
    <3>7. QED
      BY <1>a, <3>6
  <2>3. QED
    BY <2>1, <2>2
<1>5. ASSUME NEW t \in Thread, ReadEdges(t) PROVE LevelInv'
  <2>1. UNCHANGED <<steps, visited, version, queue, path>>
          /\ at[t] = "edges" /\ at'[t] = "expand" /\ todo'[t] = EdgesFor(Current(t))
    BY <1>0, <1>5 DEF ReadEdges
  <2>2. graph \cup regex = DOMAIN steps
    <3>1. graph # None
      BY <2>1 DEF TypeInv, GraphInv
    <3>2. \A u \in Thread : at[u] # "publish"
      BY <2>1 DEF OneThread
    <3>3. QED
      BY <3>1, <3>2 DEF EdgeInv
  <2>3. Out(Current(t)) = {To(i) : i \in todo'[t]}
    BY <2>1, <2>2 DEF EdgesFor, Out
  <2>4. PICK d \in [Version -> Nat] : Levels(t, d)
    BY <2>1 DEF LevelInv, Searching
  <2>5. QED
    BY <1>a, <2>1, <2>3, <2>4, SameLevels
<1>6. ASSUME NEW t \in Thread, NEW i \in todo[t], Expand(t, i) PROVE LevelInv'
  <2>1. PICK d \in [Version -> Nat] : Levels(t, d)
    BY <1>6 DEF Expand, LevelInv, Searching
  <2>2. QED
    BY <1>6, <1>a, <2>1, ExpandLevels
<1>7. ASSUME NEW t \in Thread, Expanded(t) PROVE LevelInv'
  <2>1. UNCHANGED <<steps, visited, version, queue, path, todo>>
          /\ at[t] = "expand" /\ at'[t] = "pop" /\ todo[t] = {}
    BY <1>0, <1>7 DEF Expanded, shared
  <2>2. PICK d \in [Version -> Nat] : Levels(t, d)
    BY <2>1 DEF LevelInv, Searching
  <2>3. QED
    BY <1>a, <2>1, <2>2, SameLevels
<1>8. ASSUME NEW t \in Thread, Pop(t) PROVE LevelInv'
  <2>1. PICK d \in [Version -> Nat] : Levels(t, d)
    BY <1>8 DEF Pop, LevelInv, Searching
  <2>2. (at'[t] = "edges" /\ Levels(t, d)') \/ at'[t] = "found"
    BY <1>8, <2>1, PopLevels
  <2>3. QED
    BY <1>a, <2>2 DEF Searching
<1>9. ASSUME NEW t \in Thread, Exhausted(t) \/ Return(t) PROVE LevelInv'
  BY <1>0, <1>9, <1>a DEF Exhausted, Return, Searching
<1>10. CASE UNCHANGED vars
  <2>1. UNCHANGED <<steps, visited, version, queue, path, todo, at>>
    BY <1>10 DEF vars
  <2>2. ASSUME NEW t \in Thread, Searching(t) PROVE \E d \in [Version -> Nat] : Levels(t, d)'
    <3>1. PICK d \in [Version -> Nat] : Levels(t, d)
      BY <2>2 DEF LevelInv
    <3>2. QED
      BY <2>1, <3>1, SameLevels
  <2>3. QED
    BY <2>1, <2>2 DEF LevelInv, Searching
<1>11. QED
  BY <1>1, <1>2, <1>3, <1>4, <1>5, <1>6, <1>7, <1>8, <1>9, <1>10, Zenon DEF Next, Find

LEMMA ShortSteps ==
    ASSUME TypeInv, WalkInv, CoverInv, LevelInv, ShortInv, OneThread, [Next]_vars
    PROVE  ShortInv'
<1> USE DEF Goto
<1>0. /\ at \in [Thread -> {"idle", "resolve", "publish", "lookup", "edges",
                          "expand", "pop", "found", "error", "refused"}]
      /\ version \in [Thread -> Version] /\ cache \in [Version -> {None} \cup Seq(Hop)]
      /\ path \in [Thread -> Seq(Hop)]
  BY TypeParts DEF TypeInv, LocalOK, PathOK, SharedOK
<1>1. ASSUME NEW s \in Call, Declare(s) PROVE ShortInv'
  BY <1>1 DEF Declare, ShortInv
<1>2. ASSUME UNCHANGED <<steps, cache>>, NEW t \in Thread,
             at'[t] = "found" => Shortest(version[t], path[t])' PROVE ShortInv'
  <2>1. \A v \in Version : cache'[v] # None => Shortest(v, cache[v])'
    <3> SUFFICES ASSUME NEW v \in Version, cache[v] # None PROVE Shortest(v, cache[v])'
      BY <1>2
    <3>1. PICK p : p = cache[v]
      OBVIOUS
    <3>2. Shortest(v, p)'
      BY <1>2, <3>1, SameShortest DEF ShortInv
    <3>3. QED
      BY <1>2, <3>1, <3>2 DEF Shortest
  <2>2. QED
    BY <1>2, <2>1 DEF ShortInv, OneThread
<1>3. ASSUME NEW t \in Thread, NEW v \in Stored, Migrate(t, v) PROVE ShortInv'
  BY <1>0, <1>2, <1>3 DEF Migrate, shared
<1>4. ASSUME NEW t \in Thread, Resolve(t) \/ Publish(t) \/ ReadEdges(t) \/ Expanded(t)
                                  \/ Exhausted(t) \/ Return(t) PROVE ShortInv'
  BY <1>0, <1>2, <1>4 DEF Resolve, Publish, ReadEdges, Expanded, Exhausted, Return, shared
<1>5. ASSUME NEW t \in Thread, NEW i \in todo[t], Expand(t, i) PROVE ShortInv'
  BY <1>0, <1>2, <1>5 DEF Expand, shared
<1>6. ASSUME NEW t \in Thread, Lookup(t) PROVE ShortInv'
  <2>1. at'[t] = "found" => Shortest(version[t], path[t])'
    <3> SUFFICES ASSUME at'[t] = "found" PROVE Shortest(version[t], path[t])'
      OBVIOUS
    <3>1. PICK v, p : v = version[t] /\ p = cache[v]
      OBVIOUS
    <3>2. p # None /\ path'[t] = p /\ v \in Version /\ UNCHANGED <<steps, version>>
      BY <1>0, <1>6, <3>1 DEF Lookup
    <3>3. Shortest(v, p)'
      BY <3>1, <3>2, SameShortest DEF ShortInv
    <3>4. QED
      BY <3>1, <3>2, <3>3 DEF Shortest
  <2>2. QED
    BY <1>2, <1>6, <2>1 DEF Lookup, shared
<1>7. ASSUME NEW t \in Thread, Pop(t) PROVE ShortInv'
  <2>1. PICK d \in [Version -> Nat] : Levels(t, d)
    BY <1>7 DEF Pop, LevelInv, Searching
  <2>2. PICK v, p : v = version[t] /\ p = path'[t]
    OBVIOUS
  <2>3. v \in Version /\ UNCHANGED <<steps, version>>
    BY <1>0, <1>7, <2>2 DEF Pop
  <2>4. at'[t] = "edges" \/ (at'[t] = "found" /\ Shortest(v, p))
    <3>1. at'[t] = "edges" \/ (at'[t] = "found" /\ Shortest(version[t], path'[t]))
      BY <1>7, <2>1, PopLevels
    <3>2. QED
      BY <2>2, <3>1 DEF Shortest
  <2>5. CASE at'[t] = "edges"
    <3>1. cache' = cache
      BY <1>0, <1>7, <2>5 DEF Pop
    <3>2. QED
      BY <1>2, <2>3, <2>5, <3>1
  <2>6. CASE at'[t] = "found" /\ Shortest(v, p)
    <3>1. cache' = [cache EXCEPT ![v] = p]
      BY <1>0, <1>7, <2>2, <2>6 DEF Pop
    <3>2. Shortest(v, p)'
      BY <2>3, <2>6, SameShortest
    <3>3. Shortest(version[t], path[t])'
      BY <2>2, <2>3, <3>2 DEF Shortest
    <3>4. ASSUME NEW x \in Version, cache'[x] # None PROVE Shortest(x, cache[x])'
      <4>1. PICK q : q = cache'[x]
        OBVIOUS
      <4>2. Shortest(x, q)'
        <5>1. CASE x = v
          BY <1>0, <3>1, <3>2, <4>1, <5>1
        <5>2. CASE x # v
          BY <1>0, <2>3, <3>1, <3>4, <4>1, <5>2, SameShortest DEF ShortInv
        <5>3. QED
          BY <5>1, <5>2
      <4>3. QED
        BY <4>1, <4>2 DEF Shortest
    <3>5. QED
      BY <3>3, <3>4 DEF ShortInv, OneThread
  <2>7. QED
    BY <2>4, <2>5, <2>6
<1>8. CASE UNCHANGED vars
  <2>1. UNCHANGED <<steps, cache, at, version, path>>
    BY <1>8 DEF vars, shared
  <2>2. CASE Thread = {}
    <3>1. ASSUME NEW v \in Version, cache'[v] # None PROVE Shortest(v, cache[v])'
      <4>1. PICK p : p = cache[v]
        OBVIOUS
      <4>2. Shortest(v, p)'
        BY <2>1, <3>1, <4>1, SameShortest DEF ShortInv
      <4>3. QED
        BY <2>1, <4>1, <4>2 DEF Shortest
    <3>2. QED
      BY <2>2, <3>1 DEF ShortInv
  <2>3. ASSUME NEW t \in Thread PROVE ShortInv'
    <3>1. PICK v, p : v = version[t] /\ p = path[t]
      OBVIOUS
    <3>2. at[t] = "found" => Shortest(v, p)'
      BY <2>1, <3>1, SameShortest DEF ShortInv
    <3>3. at'[t] = "found" => Shortest(version[t], path[t])'
      BY <2>1, <3>1, <3>2 DEF Shortest
    <3>4. QED
      BY <1>2, <2>1, <3>3
  <2>4. QED
    BY <2>2, <2>3
<1>9. QED
  BY <1>1, <1>3, <1>4, <1>5, <1>6, <1>7, <1>8, Zenon DEF Next, Find

(* While one thread at a time migrates, the steps that are applied to a     *)
(* stored revision are as few as the declared steps allow: distances that   *)
(* no step shortcuts put the target as far away as the path is long,        *)
(* whether the path was searched for or found in the cache.                 *)
THEOREM PathsAreShortest ==
    ASSUME OneThread
    PROVE  Spec => []PathIsShortest
<1>1. Init => EdgeInv /\ CoverInv
  BY DEF Init, EdgeInv, CoverInv, Cover
<1>2. Init => WalkInv
  BY DEF Init, WalkInv, Walk
<1>3. Init => LevelInv /\ ShortInv
  BY DEF Init, LevelInv, ShortInv, Searching
<1>4. TypeInv /\ ShortInv => PathIsShortest
  <2> SUFFICES ASSUME TypeInv, ShortInv, NEW t \in Thread, at[t] = "found"
               PROVE  \E d \in [Version -> 0..Len(path[t])] :
                        /\ d[version[t]] = 0 /\ d[Target] = Len(path[t])
                        /\ \A v \in Version, i \in DOMAIN steps : Applies(i, v) => d[To(i)] <= d[v] + 1
    BY DEF PathIsShortest
  <2>1. PICK d \in [Version -> 0..Len(path[t])] :
          /\ d[version[t]] = 0 /\ d[Target] = Len(path[t])
          /\ \A x \in Version : \A y \in Out(x) : d[y] <= d[x] + 1
    BY DEF ShortInv, Shortest
  <2>2. \A v \in Version, i \in DOMAIN steps : Applies(i, v) => To(i) \in Out(v)
    BY DEF Out
  <2>3. QED
    BY <2>1, <2>2
<1>5. QED
  BY <1>1, <1>2, <1>3, <1>4, TypeInit, TypeSteps, WalkSteps, EdgeSteps, CoverSteps, LevelSteps,
     ShortSteps, PTL DEF Spec

=============================================================================
