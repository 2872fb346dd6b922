------------------------------ MODULE StageDag ------------------------------
(***************************************************************************)
(* What MediaPipeline promises about its topology: the application's       *)
(* stages and the connections it asked for form a directed acyclic graph   *)
(* from which a removed stage disappears with its connections.             *)
(* PipelineGraph.tla, where a connection may run through converters that   *)
(* the pipeline inserted, implements it.                                   *)
(***************************************************************************)

CONSTANT Stages         \* every stage name the application may use

VARIABLES
  present,              \* the stages registered now
  edges                 \* the connections between them: pairs <<source, dest>>

vars == <<present, edges>>

\* S contains every stage that an edge of E leads to from S.
Closed(S, E) == \A e \in E : e[1] \in S => e[2] \in S

\* The stages that can be reached from n along E, n among them.
Reach(E, n) ==
  {m \in Stages : \A S \in SUBSET Stages : n \in S /\ Closed(S, E) => m \in S}

\* No edge leads to a stage from which one can come back.
AcyclicEdges(E) == \A e \in E : e[1] \notin Reach(E, e[2])

Init ==
  /\ present = {}
  /\ edges = {}

Add(n) ==
  /\ n \in Stages \ present
  /\ present' = present \cup {n}
  /\ edges' = edges

Connect(s, d) ==
  /\ s \in present /\ d \in present
  /\ s \notin Reach(edges, d)
  /\ edges' = edges \cup {<<s, d>>}
  /\ present' = present

Remove(n) ==
  /\ n \in present
  /\ present' = present \ {n}
  /\ edges' = {e \in edges : n \notin {e[1], e[2]}}

Clear ==
  /\ present' = {}
  /\ edges' = {}

Next ==
  \/ \E n \in Stages : Add(n) \/ Remove(n)
  \/ \E s, d \in Stages : Connect(s, d)
  \/ Clear

Spec == Init /\ [][Next]_vars

\* The edges join registered stages.
EdgesPresent == edges \subseteq present \X present

\* The topology is acyclic.
Acyclic == AcyclicEdges(edges)

=============================================================================
