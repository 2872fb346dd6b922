------------------------------ MODULE VadHandler ------------------------------
(***************************************************************************)
(* Vad and VadHandler (dsp/vad.hpp): one detector for each direction, whose*)
(* verdict outlives the speech by the hangover.                            *)
(***************************************************************************)
EXTENDS CallFrame

CONSTANTS
  SilenceCap,           \* UINT32_MAX, where the count of silent frames stays
  hangoverFrames,
  silenceThresholdRms,
  Mode                  \* "DROP_SILENT" or "MARK_ONLY"

ASSUME VadAssumption ==
  /\ SilenceCap \in Nat /\ hangoverFrames \in 0 .. SilenceCap - 1
  /\ Mode \in {"DROP_SILENT", "MARK_ONLY"} /\ silenceThresholdRms \in Nat

VARIABLES
  vad,                  \* _vadIncoming and _vadOutgoing
  prevActive            \* _prevActiveIncoming and _prevActiveOutgoing

FreshVad == [silence |-> 0, wasActive |-> FALSE]

VadInit ==
  /\ vad = [d \in Directions |-> FreshVad]
  /\ prevActive = [d \in Directions |-> FALSE]

\* Vad::updateState(): silence is counted up to the cap, and ends activity when it has
\* lasted longer than the hangover.
updateStateEarly(v, above) ==
  LET n == IF above THEN 0 ELSE Min({v.silence + 1, SilenceCap})
  IN  [silence |-> n, wasActive |-> above \/ (v.wasActive /\ n < hangoverFrames)]
updateState(v, above) ==
  LET n == IF above THEN 0 ELSE Min({v.silence + 1, SilenceCap})
  IN  [silence |-> n, wasActive |-> above \/ (v.wasActive /\ n <= hangoverFrames)]

\* Vad::process(): a buffer of odd size is inactive and changes nothing, an empty one is
\* silence.
process(v, f) ==
  IF Readable(f) THEN updateState(v, f.samples > 0 /\ f.rms >= silenceThresholdRms) ELSE v
isActive(v, f) == Readable(f) /\ process(v, f).wasActive

\* incoming() and outgoing(): what becomes of a frame.
Forwarded(dir, f) == f = NoBuffer \/ Mode = "MARK_ONLY" \/ isActive(vad[dir], f)
Marked(dir, f) == isActive(vad[dir], f) /\ ~prevActive[dir]

vadHandle(dir, f) ==
  IF f = NoBuffer THEN UNCHANGED <<vad, prevActive>>
  ELSE /\ vad' = [vad EXCEPT ![dir] = process(@, f)]
       /\ prevActive' = [prevActive EXCEPT ![dir] = isActive(vad[dir], f)]

\* Vad::reset(), through vadIncoming() or vadOutgoing(): the handler's own flag stays.
resetVad(dir) ==
  /\ vad' = [vad EXCEPT ![dir] = FreshVad]
  /\ UNCHANGED prevActive

=============================================================================
