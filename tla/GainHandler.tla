----------------------------- MODULE GainHandler -----------------------------
(***************************************************************************)
(* Gain and GainHandler (dsp/gain.hpp): one gain for both directions.      *)
(***************************************************************************)
EXTENDS CallFrame

CONSTANTS Gains         \* the factors that are set; negative ones are refused

VARIABLES gain          \* _gain, _previousGain and _muted

ASSUME GainAssumption == Gains \subseteq Int

\* The constructor takes no negative factor either.
GainInit ==
  \E g \in Gains : g >= 0 /\ gain = [gain |-> g, previousGain |-> g, muted |-> FALSE]

\* Levels are multiplied and clamped.
Scaled(level, g) == Min({level * g, MaxLevel})

\* apply()
applied(f) ==
  LET g == IF gain.muted THEN 0 ELSE gain.gain
  IN  IF Readable(f)
      THEN [f EXCEPT !.rms = Scaled(@, g), !.lowMag = Scaled(@, g), !.highMag = Scaled(@, g)]
      ELSE f

\* setGain() throws for a negative factor.
setGainNow(factor) ==
  /\ factor >= 0
  /\ gain' = [gain EXCEPT !.gain = factor]
setGain(factor) ==
  /\ factor >= 0
  /\ gain' = [gain EXCEPT !.gain = factor, !.previousGain = factor]

mute ==
  /\ ~gain.muted
  /\ gain' = [gain EXCEPT !.previousGain = gain.gain, !.muted = TRUE]

unmute ==
  /\ gain.muted
  /\ gain' = [gain EXCEPT !.gain = gain.previousGain, !.muted = FALSE]

=============================================================================
