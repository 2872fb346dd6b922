---------------------------- MODULE PipelineGraph ----------------------------
(***************************************************************************)
(* The stage graph of iora::codecs::MediaPipeline                          *)
(* (src/pipeline/media_pipeline.cpp): addStage, connectStages with the     *)
(* automatic insertion of converters, removeStage, and the topology check  *)
(* and the choice of entry and exit in start().  Besides the graph itself  *)
(* (outEdges and inEdges of each entry of _stages) the pipeline keeps a    *)
(* second copy of it in the handlers, each of which holds its downstream   *)
(* handler: removal and insertion must keep the two in step.               *)
(*                                                                         *)
(* The class is documented as not thread-safe, so each call is one step.   *)
(* Frames, which need the lifecycle's interleavings, are MediaPipeline's.  *)
(***************************************************************************)
EXTENDS Naturals, FiniteSets, Sequences

CONSTANTS
  Users,          \* names the application gives its stages
  UseInserted,    \* the application also names stages the pipeline inserted
  StageFormats,   \* the formats it declares: records [input, output]
  Unset,          \* a field of a StageFormat that has no value
  Gone,           \* a destroyed stage that some handler still forwards to
  MaxEdges,       \* bound: edges leaving one stage
  MaxStages       \* bound: stages registered, converters included

VARIABLES
  state,          \* _state, Draining being part of Running here
  stages,         \* the keys of _stages
  format,         \* StageEntry::inputFormat and outputFormat of each
  outEdges,       \* StageEntry::outEdges
  inEdges,        \* StageEntry::inEdges
  next,           \* the stages the stage's handler forwards incoming frames to
  entry, exit     \* _entryStage, _exitStage: sets of at most one name

vars == <<state, stages, format, outEdges, inEdges, next, entry, exit>>

\* The fields of a StageFormat, in the order in which converters are chained.
Kinds == <<"fmt", "resampler", "chmix">>
NoFormat == [k \in {"fmt", "resampler", "chmix"} |-> Unset]

\* No stage of the application has the name of a converter.
ASSUME NamesAssumption ==
  \A s, d \in Users : \A k \in {"fmt", "resampler", "chmix"} : <<s, d, k>> \notin Users

ASSUME BoundsAssumption == MaxEdges \in Nat /\ MaxStages \in Nat

Elements(s) == {s[i] : i \in DOMAIN s}
Count(s, x) == Cardinality({i \in DOMAIN s : s[i] = x})

\* The elements of s that are in S, in their order.
Only(s, S) ==
  LET Kept[i \in 0 .. Len(s)] ==
        IF i = 0 THEN <<>>
        ELSE IF s[i] \in S THEN Append(Kept[i - 1], s[i]) ELSE Kept[i - 1]
  IN  Kept[Len(s)]

Without(s, n) == Only(s, Elements(s) \ {n})

\* The stages a client can name in a call.
Named == IF UseInserted THEN stages ELSE stages \cap Users

isGraphMutable == state \in {"Created", "Stopped", "Reset"}

Init ==
  /\ state = "Created"
  /\ stages = {}
  /\ format = <<>> /\ outEdges = <<>> /\ inEdges = <<>> /\ next = <<>>
  /\ entry = {} /\ exit = {}

-----------------------------------------------------------------------------
\* addStage(): a fresh handler under a new name.
addStage(n, f) ==
  /\ isGraphMutable /\ n \notin stages /\ Cardinality(stages) < MaxStages
  /\ stages' = stages \cup {n}
  /\ format'   = [m \in stages' |-> IF m = n THEN f ELSE format[m]]
  /\ outEdges' = [m \in stages' |-> IF m = n THEN <<>> ELSE outEdges[m]]
  /\ inEdges'  = [m \in stages' |-> IF m = n THEN <<>> ELSE inEdges[m]]
  /\ next'     = [m \in stages' |-> IF m = n THEN <<>> ELSE next[m]]
  /\ UNCHANGED <<state, entry, exit>>

\* What a search meets that begins with the names in first and goes on from those in
\* via, the edges being those of a function outs.
Reached(outs, first, via) ==
  LET N == Cardinality(DOMAIN outs)
      Within[k \in 0 .. N] ==
        IF k = 0 THEN first
        ELSE LET near == Within[k - 1]
             IN  near \cup UNION {Elements(outs[m]) : m \in near \cap via}
  IN  Within[N]

\* The names that can be reached from n, n among them: the search of
\* wouldCreateCycle(), which passes through registered stages only.
Downstream(n) == Reached(outEdges, {n}, stages)

wouldCreateCycleShallow(s, d) == d \in stages /\ s \in Elements(outEdges[d])
wouldCreateCycle(s, d) == s \in Downstream(d)

\* The kinds of conversion that a connection from s to d needs.
needs(s, d) ==
  LET from == format[s].output
      to   == format[d].input
      Differs(k) == from[k] # Unset /\ to[k] # Unset /\ from[k] # to[k]
  IN  Only(Kinds, {k \in Elements(Kinds) : Differs(k)})

\* The route from s to d, by way of the converters.  A converter is named after
\* the stages and the kind, as in "A_to_B_fmt".
route(s, d) ==
  LET kinds == needs(s, d)
  IN  <<s>> \o [i \in DOMAIN kinds |-> <<s, d, kinds[i]>>] \o <<d>>

\* What the handler of n forwards to once it has been wired for the edges outs,
\* when those registered are known: a lone edge that does not resolve leaves the
\* handler as it was, a fan-out takes the edges that resolve.
wireStageConnections(outs, known, old) ==
  IF Len(outs) = 1 /\ outs[1] \notin known THEN old ELSE Only(outs, known)

\* connectStages(): a direct edge, or a chain of converters with an edge between
\* each and the next.  A converter name that exists already is not replaced (nor
\* is its list of incoming edges), but the edges of the chain are added all the
\* same.
connectStages(s, d) ==
  LET path == route(s, d)
      last == Len(path)
      at(n) == CHOOSE i \in DOMAIN path : path[i] = n
      OnPath == Elements(path)
      outs(n) == IF n \in stages THEN outEdges[n] ELSE <<>>
      through(n) == Append(outs(n), path[at(n) + 1])
      before(n) == path[at(n) - 1]
      kind(n) == n[3]
      single(n, f) == [NoFormat EXCEPT ![kind(n)] = f[kind(n)]]
  IN
  /\ isGraphMutable
  /\ s # d /\ s \in stages /\ d \in stages
  /\ d \notin Elements(outEdges[s])
  /\ ~wouldCreateCycle(s, d)
  /\ \A n \in OnPath \ {d} : Len(outs(n)) < MaxEdges
  /\ Cardinality(stages \cup OnPath) <= MaxStages
  /\ stages' = stages \cup OnPath
  /\ format' = [n \in stages' |->
       IF n \in stages THEN format[n]
       ELSE [input |-> single(n, format[s].output), output |-> single(n, format[d].input)]]
  /\ outEdges' = [n \in stages' |->
       IF n \in OnPath \ {d} THEN through(n) ELSE outEdges[n]]
  /\ inEdges' = [n \in stages' |->
       IF n = d THEN Append(inEdges[d], path[last - 1])
       ELSE IF n \in stages THEN inEdges[n] ELSE <<before(n)>>]
  /\ next' = [n \in stages' |->
       IF n \in OnPath \ {d}
       THEN wireStageConnections(through(n), stages \cup {path[i] : i \in 1 .. at(n) + 1},
                                 IF n \in stages THEN next[n] ELSE <<>>)
       ELSE next[n]]
  /\ UNCHANGED <<state, entry, exit>>

\* removeStage(): the sources recorded in inEdges are rewired without n, the
\* destinations forget it; a handler that still holds n keeps the destroyed
\* stage alive.
wired(n, sources) ==
  LET to(m) == IF m \in sources
               THEN wireStageConnections(Without(outEdges[m], n), stages, next[m])
               ELSE next[m]
  IN  [m \in stages \ {n} |->
        [i \in DOMAIN to(m) |-> IF to(m)[i] = n THEN Gone ELSE to(m)[i]]]

detachedNotRewired(n, sources) ==
  /\ outEdges' = [m \in stages \ {n} |->
       IF m \in sources THEN Without(outEdges[m], n) ELSE outEdges[m]]
  /\ inEdges' = [m \in stages \ {n} |->
       IF m \in Elements(outEdges[n]) THEN Without(inEdges[m], n) ELSE inEdges[m]]
  /\ next' = wired(n, {})

detachedSourcesOnly(n, sources) ==
  /\ outEdges' = [m \in stages \ {n} |->
       IF m \in sources THEN Without(outEdges[m], n) ELSE outEdges[m]]
  /\ inEdges' = [m \in stages \ {n} |-> inEdges[m]]
  /\ next' = wired(n, sources)

detachedDestsOnly(n, sources) ==
  /\ outEdges' = [m \in stages \ {n} |-> outEdges[m]]
  /\ inEdges' = [m \in stages \ {n} |->
       IF m \in Elements(outEdges[n]) THEN Without(inEdges[m], n) ELSE inEdges[m]]
  /\ next' = wired(n, {})

detached(n, sources) ==
  /\ outEdges' = [m \in stages \ {n} |->
       IF m \in sources THEN Without(outEdges[m], n) ELSE outEdges[m]]
  /\ inEdges' = [m \in stages \ {n} |->
       IF m \in Elements(outEdges[n]) THEN Without(inEdges[m], n) ELSE inEdges[m]]
  /\ next' = wired(n, sources)

removeStage(n) ==
  /\ isGraphMutable /\ n \in stages
  /\ stages' = stages \ {n}
  /\ format' = [m \in stages' |-> format[m]]
  /\ detached(n, Elements(inEdges[n]))
  /\ UNCHANGED <<state, entry, exit>>

\* Kahn's algorithm: a name is visited once all its predecessors have been, a
\* name that an edge mentions without being registered included.  The graph is
\* taken for acyclic when as many names were visited as there are stages.
visited ==
  LET names == stages \cup UNION {Elements(outEdges[m]) : m \in stages}
      preds(n) == {m \in stages : n \in Elements(outEdges[m])}
      N == Cardinality(names)
      Peeled[k \in 0 .. N] ==
        IF k = 0 THEN {}
        ELSE LET done == Peeled[k - 1] IN {n \in names : preds(n) \subseteq done}
  IN  Peeled[N]

validateAcyclic == Cardinality(visited) = Cardinality(stages)

\* The first stage without incoming edges (without outgoing ones for the exit)
\* in the order of the hash table, any stage when every one has some.
endStage(edges) ==
  LET ends == {n \in stages : edges[n] = <<>>}
  IN  IF stages = {} THEN {{}}
      ELSE {{n} : n \in IF ends # {} THEN ends ELSE stages}

start ==
  /\ state \in {"Created", "Reset"}
  /\ stages = {} \/ validateAcyclic
  /\ entry' \in endStage(inEdges)
  /\ exit' \in endStage(outEdges)
  /\ state' = "Running"
  /\ UNCHANGED <<stages, format, outEdges, inEdges, next>>

stop ==
  /\ state = "Running"
  /\ state' = "Stopped"
  /\ UNCHANGED <<stages, format, outEdges, inEdges, next, entry, exit>>

reset ==
  /\ state = "Stopped"
  /\ state' = "Reset"
  /\ stages' = {}
  /\ format' = <<>> /\ outEdges' = <<>> /\ inEdges' = <<>> /\ next' = <<>>
  /\ entry' = {} /\ exit' = {}

Next ==
  \/ \E n \in Users : \E f \in StageFormats : addStage(n, f)
  \/ \E s, d \in Named : connectStages(s, d)
  \/ \E n \in Named : removeStage(n)
  \/ start \/ stop \/ reset

Spec == Init /\ [][Next]_vars

-----------------------------------------------------------------------------
\* The names are those of the application and of converters; every function is
\* over the registered stages; entry and exit are one name or none.
TypeOK ==
  /\ state \in {"Created", "Running", "Stopped", "Reset"}
  /\ \A n \in stages \ Users : n[3] \in Elements(Kinds)
  /\ DOMAIN format = stages /\ DOMAIN outEdges = stages
  /\ DOMAIN inEdges = stages /\ DOMAIN next = stages
  /\ \A n \in stages : Len(outEdges[n]) <= MaxEdges
  /\ Cardinality(entry) <= 1 /\ Cardinality(exit) <= 1

\* removeStage() finds every edge it must take back: each edge ends at a
\* registered stage, no stage records an incoming edge that does not exist, and
\* a stage of the application records all of its own.  (A converter that is met
\* again by a later connection does not.)
EdgesAgree ==
  \A n \in stages :
    /\ Elements(outEdges[n]) \cup Elements(inEdges[n]) \subseteq stages
    /\ \A m \in stages :
         /\ Count(inEdges[n], m) <= Count(outEdges[m], n)
         /\ n \in Users => Count(inEdges[n], m) = Count(outEdges[m], n)

\* The handlers forward to exactly the stages the graph has edges to: no handler
\* feeds a removed stage, none misses a connected one.
WiringMatchesEdges == next = outEdges

\* A graph that was built through the API is never refused by start().
StartNeverRefused == stages = {} \/ validateAcyclic

\* The stages of the application that s feeds, directly or through converters.
Feeds(s) == Reached(outEdges, Elements(outEdges[s]), stages \ Users) \cap stages \cap Users

Connections == UNION {{s} \X Feeds(s) : s \in stages \cap Users}

\* Seen through its converters, the graph is the directed acyclic graph of
\* StageDag: connecting adds one edge, removing takes back those of one stage.
Dag == INSTANCE StageDag
         WITH Stages <- Users, present <- stages \cap Users, edges <- Connections
ImplementsStageDag == Dag!Spec

\* Documented, but not what the code does.

\* "duplicate connectStages rejected": a call succeeds only for two stages that
\* are not connected yet.
DuplicateRejected ==
  [][\A s, d \in Users : connectStages(s, d) => <<s, d>> \notin Connections]_vars

\* "The stage with no incoming edges is the entry stage."
EntryIsSource ==
  state = "Running" => \A n \in stages : Elements(outEdges[n]) \cap entry = {}

\* "We can't construct a cycle via connectStages() (it rejects)."
NoCycleConstructed == \A n \in stages : \A m \in Elements(outEdges[n]) : n \notin Downstream(m)

=============================================================================
