---------------------------- MODULE SchemaMigration ----------------------------
(***************************************************************************)
(* Schema (autocrud/schema.py): a resource type declares migration steps   *)
(* in chains; when a revision of another version is migrated, the chains   *)
(* are resolved into a graph of versions, once, and a breadth-first search *)
(* picks the steps to apply.  The graph and the paths found are cached in  *)
(* the Schema, which all threads of the server share.                      *)
(*                                                                         *)
(* A regular expression is the set of the versions it matches.  An action  *)
(* of a thread is one access to what is shared, or one turn of a loop.     *)
(***************************************************************************)
EXTENDS Naturals, Sequences

CONSTANTS
    Version,   \* schema versions
    Target,    \* Schema.version
    Call,      \* calls of step() and plus() that a Schema may be built from
    Stored,    \* versions of stored revisions
    Thread,    \* threads that migrate
    MaxSteps,  \* bound: declared steps
    None       \* no to= given; nothing cached

\* a call of step() or, when it starts a new chain, plus()
Step == [from : SUBSET Version, re : BOOLEAN, to : Version \cup {None}, plus : BOOLEAN]

ASSUME SchemaAssumption ==
    /\ Target \in Version
    /\ Stored \subseteq Version
    /\ Call \subseteq Step
    /\ \A s \in Call : ~s.re => \E v \in Version : s.from = {v}
    /\ MaxSteps \in Nat
    /\ None \notin Version
    /\ \A g \in SUBSET (1..MaxSteps) : g # None

\* a step applied: (src, dst, fn) of _find_path
Hop == [src : Version, dst : Version, fn : 1..MaxSteps]

VARIABLES
    steps,    \* the declared steps, in order
    graph,    \* _graph: the resolved literal steps, or None
    regex,    \* _regex_edges: the resolved regex steps
    cache,    \* cache[v]: _path_cache[(v, Target)]
    at,       \* at[t]: what thread t is doing
    version,  \* version[t]: what it migrates from
    path,     \* path[t]: the path that is extended; in the end, the result
    todo,     \* todo[t]: edges at the end of path[t] not looked at yet
    queue,    \* queue[t]: paths to be extended
    visited   \* visited[t]

shared == <<graph, regex, cache>>
vars == <<steps, shared, at, version, path, todo, queue, visited>>

TypeOK ==
    /\ steps \in Seq(Call) /\ Len(steps) <= MaxSteps
    /\ graph \in {None} \cup SUBSET (1..MaxSteps)
    /\ regex \in SUBSET (1..MaxSteps)
    /\ cache \in [Version -> {None} \cup Seq(Hop)]
    /\ at \in [Thread -> {"idle", "resolve", "publish", "lookup", "edges",
                          "expand", "pop", "found", "error", "refused"}]
    /\ version \in [Thread -> Version]
    /\ path \in [Thread -> Seq(Hop)]
    /\ todo \in [Thread -> SUBSET (1..MaxSteps)]
    /\ queue \in [Thread -> Seq(Seq(Hop))]
    /\ visited \in [Thread -> SUBSET Version]

-----------------------------------------------------------------------------
(* The graph *)

\* no step follows in the chain of step i
EndsChain(i) == i = Len(steps) \/ steps[i + 1].plus

To_Given(i) == IF EndsChain(i) THEN Target ELSE steps[i].to

\* the version step i leads to: given, that of the next step, or the target
To(i) ==
    IF steps[i].to # None THEN steps[i].to
    ELSE IF EndsChain(i) THEN Target
    ELSE CHOOSE v \in Version : steps[i + 1].from = {v}

\* the version cannot be inferred from a regex
Inferable(i) == steps[i].to # None \/ EndsChain(i) \/ ~steps[i + 1].re

\* there is an edge for step i at version v
Applies(i, v) == v \in steps[i].from /\ (steps[i].re => v # To(i))

EdgesFor_RegexIsFallback(v) ==
    LET literal == {i \in graph : Applies(i, v)}
    IN  IF literal # {} THEN literal ELSE {i \in regex : Applies(i, v)}

\* _edges_for: what the two shared structures hold when they are read
EdgesFor(v) == {i \in graph \cup regex : Applies(i, v)}

\* literal edges first, then regex edges, each in the order they were declared
Before(i, j) ==
    \/ ~steps[i].re /\ steps[j].re
    \/ steps[i].re = steps[j].re /\ i < j

-----------------------------------------------------------------------------
(* Building the Schema *)

Declare_KeepsPaths(s) ==
    /\ \A t \in Thread : at[t] = "idle"
    /\ Len(steps) < MaxSteps
    /\ steps' = Append(steps, s)
    /\ graph' = None
    /\ regex' = {}
    /\ UNCHANGED <<cache, at, version, path, todo, queue, visited>>

\* step() and plus(): chains are only extended while nobody migrates
Declare(s) ==
    /\ \A t \in Thread : at[t] = "idle"
    /\ Len(steps) < MaxSteps
    /\ steps' = Append(steps, s)
    /\ graph' = None
    /\ regex' = {}
    /\ cache' = [v \in Version |-> None]
    /\ UNCHANGED <<at, version, path, todo, queue, visited>>

-----------------------------------------------------------------------------
(* Finding a path *)

Goto(t, place) == at' = [at EXCEPT ![t] = place]

\* migrate(): a revision of the target version is left alone
Migrate(t, v) ==
    /\ at[t] = "idle"
    /\ v # Target
    /\ version' = [version EXCEPT ![t] = v]
    /\ visited' = [visited EXCEPT ![t] = {v}]
    /\ Goto(t, "resolve")
    /\ UNCHANGED <<steps, shared, path, todo, queue>>

\* _resolve, up to the assignment of _graph
Resolve(t) ==
    /\ at[t] = "resolve"
    /\ IF graph # None
         THEN Goto(t, "lookup") /\ UNCHANGED graph
         ELSE IF \E i \in DOMAIN steps : ~Inferable(i)
                THEN Goto(t, "refused") /\ UNCHANGED graph
                ELSE /\ graph' = {i \in DOMAIN steps : ~steps[i].re}
                     /\ Goto(t, "publish")
    /\ UNCHANGED <<steps, regex, cache, version, path, todo, queue, visited>>

\* ... and the assignment of _regex_edges
Publish(t) ==
    /\ at[t] = "publish"
    /\ regex' = {i \in DOMAIN steps : steps[i].re}
    /\ Goto(t, "lookup")
    /\ UNCHANGED <<steps, graph, cache, version, path, todo, queue, visited>>

Lookup(t) ==
    /\ at[t] = "lookup"
    /\ IF cache[version[t]] # None
         THEN path' = [path EXCEPT ![t] = cache[version[t]]] /\ Goto(t, "found")
         ELSE Goto(t, "edges") /\ UNCHANGED path
    /\ UNCHANGED <<steps, shared, version, todo, queue, visited>>

\* the end of the path that is extended
Current(t) == IF path[t] = <<>> THEN version[t] ELSE path[t][Len(path[t])].dst

ReadEdges(t) ==
    /\ at[t] = "edges"
    /\ todo' = [todo EXCEPT ![t] = EdgesFor(Current(t))]
    /\ Goto(t, "expand")
    /\ UNCHANGED <<steps, shared, version, path, queue, visited>>

\* The edges of the start are all queued, others only to versions not visited.
Expand(t, i) ==
    /\ at[t] = "expand"
    /\ i \in todo[t]
    /\ \A j \in todo[t] : ~Before(j, i)
    /\ todo' = [todo EXCEPT ![t] = @ \ {i}]
    /\ IF path[t] = <<>> \/ To(i) \notin visited[t]
         THEN /\ queue' = [queue EXCEPT ![t] = Append(@,
                    Append(path[t], [src |-> Current(t), dst |-> To(i), fn |-> i]))]
              /\ visited' = [visited EXCEPT ![t] = @ \cup {To(i)}]
         ELSE UNCHANGED <<queue, visited>>
    /\ UNCHANGED <<steps, shared, at, version, path>>

Expanded(t) ==
    /\ at[t] = "expand"
    /\ todo[t] = {}
    /\ Goto(t, "pop")
    /\ UNCHANGED <<steps, shared, version, path, todo, queue, visited>>

Pop_Last(t) ==
    /\ at[t] = "pop"
    /\ queue[t] # <<>>
    /\ path' = [path EXCEPT ![t] = queue[t][Len(queue[t])]]
    /\ queue' = [queue EXCEPT ![t] = SubSeq(@, 1, Len(@) - 1)]
    /\ IF Current(t)' = Target
         THEN cache' = [cache EXCEPT ![version[t]] = path'[t]] /\ Goto(t, "found")
         ELSE Goto(t, "edges") /\ UNCHANGED cache
    /\ UNCHANGED <<steps, graph, regex, version, todo, visited>>

Pop_Peeks(t) ==
    /\ at[t] = "pop"
    /\ queue[t] # <<>>
    /\ path' = [path EXCEPT ![t] = Head(queue[t])]
    /\ IF Current(t)' = Target
         THEN cache' = [cache EXCEPT ![version[t]] = path'[t]] /\ Goto(t, "found")
         ELSE Goto(t, "edges") /\ UNCHANGED cache
    /\ UNCHANGED <<steps, graph, regex, version, todo, queue, visited>>

Pop(t) ==
    /\ at[t] = "pop"
    /\ queue[t] # <<>>
    /\ path' = [path EXCEPT ![t] = Head(queue[t])]
    /\ queue' = [queue EXCEPT ![t] = Tail(@)]
    /\ IF Current(t)' = Target
         THEN cache' = [cache EXCEPT ![version[t]] = path'[t]] /\ Goto(t, "found")
         ELSE Goto(t, "edges") /\ UNCHANGED cache
    /\ UNCHANGED <<steps, graph, regex, version, todo, visited>>

\* ValueError: no migration path
Exhausted(t) ==
    /\ at[t] = "pop"
    /\ queue[t] = <<>>
    /\ Goto(t, "error")
    /\ UNCHANGED <<steps, shared, version, path, todo, queue, visited>>

\* The steps found are applied, or the exception goes to the caller.
Return(t) ==
    /\ at[t] \in {"found", "error", "refused"}
    /\ Goto(t, "idle")
    /\ version' = [version EXCEPT ![t] = Target]
    /\ path' = [path EXCEPT ![t] = <<>>]
    /\ queue' = [queue EXCEPT ![t] = <<>>]
    /\ visited' = [visited EXCEPT ![t] = {}]
    /\ UNCHANGED <<steps, shared, todo>>

-----------------------------------------------------------------------------
Init ==
    /\ steps = <<>>
    /\ graph = None
    /\ regex = {}
    /\ cache = [v \in Version |-> None]
    /\ at = [t \in Thread |-> "idle"]
    /\ version = [t \in Thread |-> Target]
    /\ path = [t \in Thread |-> <<>>]
    /\ todo = [t \in Thread |-> {}]
    /\ queue = [t \in Thread |-> <<>>]
    /\ visited = [t \in Thread |-> {}]

Find(t) ==
    \/ Resolve(t) \/ Publish(t) \/ Lookup(t) \/ ReadEdges(t)
    \/ \E i \in todo[t] : Expand(t, i)
    \/ Expanded(t) \/ Pop(t) \/ Exhausted(t)

Next ==
    \/ \E s \in Call : Declare(s)
    \/ \E t \in Thread : Find(t) \/ Return(t) \/ \E v \in Stored : Migrate(t, v)

Spec == Init /\ [][Next]_vars

\* A thread that looks for a path goes on.
FairSpec == Spec /\ \A t \in Thread : WF_vars(Find(t))

-----------------------------------------------------------------------------
(* Properties *)

\* A hop uses a step that was declared for the version it starts from.
Genuine(h) == h.fn \in DOMAIN steps /\ Applies(h.fn, h.src) /\ h.dst = To(h.fn)

\* The steps applied lead from the stored version to the target, each from
\* where the one before it ended, whatever was cached and declared before.
PathMigrates ==
    \A t \in Thread : at[t] = "found" =>
        LET p == path[t] IN
        /\ p # <<>>
        /\ p[1].src = version[t] /\ p[Len(p)].dst = Target
        /\ \A k \in DOMAIN p : Genuine(p[k]) /\ (k > 1 => p[k].src = p[k - 1].dst)

\* "ValueError if no path exists": then a set of versions that the steps do
\* not leave holds the stored version and not the target.
ErrorMeansUnreachable ==
    \A t \in Thread : at[t] = "error" =>
        \E S \in SUBSET (Version \ {Target}) :
            /\ version[t] \in S
            /\ \A v \in S, i \in DOMAIN steps : Applies(i, v) => To(i) \in S

\* No other way from the stored version to the target is shorter: there are
\* distances that no step shortcuts and that put the target as far away as
\* the path is long.
PathIsShortest ==
    \A t \in Thread : at[t] = "found" =>
        \E d \in [Version -> 0..Len(path[t])] :
            /\ d[version[t]] = 0 /\ d[Target] = Len(path[t])
            /\ \A v \in Version, i \in DOMAIN steps : Applies(i, v) => d[To(i)] <= d[v] + 1

\* A search ends, even where versions lead back to each other.
SearchEnds == \A t \in Thread : (at[t] = "resolve") ~> (at[t] \in {"found", "error", "refused"})

=============================================================================
