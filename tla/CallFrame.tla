------------------------------ MODULE CallFrame ------------------------------
(***************************************************************************)
(* A frame of S16 audio as the handlers of a call leg tell frames apart:   *)
(* its length, its energy, and for each of the two groups of tones the     *)
(* strongest one and its magnitude.  Magnitudes are levels, of which a     *)
(* gain is a factor.                                                       *)
(***************************************************************************)
EXTENDS Integers, FiniteSetsExt

CONSTANTS
  MaxLevel,       \* full scale
  NoBuffer        \* a null pointer

Directions == {"incoming", "outgoing"}

S16Frame ==
  [samples : Nat, odd : BOOLEAN, rms : 0 .. MaxLevel,
   low : 1 .. 4, lowMag : 0 .. MaxLevel, high : 1 .. 4, highMag : 0 .. MaxLevel]

ASSUME FrameAssumption == MaxLevel \in Nat /\ NoBuffer \notin S16Frame

\* Every handler leaves a buffer alone whose size is odd.
Readable(f) == f # NoBuffer /\ ~f.odd

=============================================================================
