------------------------- MODULE LifecycleContract -------------------------
(***************************************************************************)
(* What a media pipeline promises its users about its lifecycle, without   *)
(* saying how: the order of the states, when the stage graph may change,   *)
(* and when a frame may be admitted.  MediaPipeline.tla implements it.     *)
(***************************************************************************)

CONSTANTS
  Callers,              \* threads that push frames into the pipeline
  Editable              \* the states in which the stage graph may change

VARIABLES
  state,                \* LifecycleState of the pipeline
  registered,           \* the pipeline has a stage to process frames with
  served                \* callers the pipeline has admitted and not released

vars == <<state, registered, served>>

Init ==
  /\ state = "Created"
  /\ registered = FALSE
  /\ served = {}

\* The graph is edited in the editable states only.  The documentation names
\* Created and Stopped, the code edits in Reset as well.
Configure ==
  /\ state \in Editable
  /\ registered' \in BOOLEAN
  /\ UNCHANGED <<state, served>>

Start ==
  /\ state \in {"Created", "Reset"}
  /\ state' = "Running"
  /\ UNCHANGED <<registered, served>>

Drain ==
  /\ state = "Running"
  /\ state' = "Draining"
  /\ UNCHANGED <<registered, served>>

\* A pipeline is never stopped without having been asked to drain.
Stop ==
  /\ state = "Draining"
  /\ state' = "Stopped"
  /\ UNCHANGED <<registered, served>>

\* Reset hands back an empty pipeline.
Reset ==
  /\ state = "Stopped"
  /\ ~registered
  /\ state' = "Reset"
  /\ UNCHANGED <<registered, served>>

\* Frames are admitted by a running pipeline only ...
Admit(c) ==
  /\ state = "Running"
  /\ c \notin served
  /\ served' = served \cup {c}
  /\ UNCHANGED <<state, registered>>

\* ... and released whatever has become of the pipeline since.
Release(c) ==
  /\ c \in served
  /\ served' = served \ {c}
  /\ UNCHANGED <<state, registered>>

Next ==
  \/ Configure \/ Start \/ Drain \/ Stop \/ Reset
  \/ \E c \in Callers : Admit(c) \/ Release(c)

Spec == Init /\ [][Next]_vars

============================================================================
