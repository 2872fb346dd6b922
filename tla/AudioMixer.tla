------------------------------ MODULE AudioMixer ------------------------------
(***************************************************************************)
(* The mixing engine of a conference (src/dsp/audio_mixer.cpp): what one   *)
(* participant's state becomes when audio is pushed, who is audible to     *)
(* whom, and what a mix is made of.  Samples are abstracted to the loudness*)
(* of their frame, sums to the set of frames that entered them.            *)
(***************************************************************************)
EXTENDS Integers, FiniteSets, FiniteSetsExt

CONSTANTS
  Participants,   \* the SSRCs that may take part
  Nobody,         \* the participant id 0
  Kinds,          \* the frames that arrive: their samples and RMS level
  MaxSamples,     \* _maxSamplesPerFrame: 20 ms at the target rate
  VadThreshold,   \* MixParams::vadSilenceThreshold
  ParamChoices    \* values of enableVad and maxActiveSpeakers

ASSUME MixerAssumption ==
  /\ Nobody \notin Participants
  /\ Kinds \subseteq [len : Nat, level : Nat]
  /\ MaxSamples \in Nat /\ VadThreshold \in Nat
  /\ ParamChoices \subseteq [enableVad : BOOLEAN, maxActiveSpeakers : Nat]

VARIABLES
  params,         \* MixParams, fixed at construction
  mixer,          \* _participants of the AudioMixer: ParticipantState by id
  dominant,       \* _dominantSpeakerId
  told            \* what the VAD callback last said of each participant

\* A frame has a number per sender; 0 numbers what a decoder made up.
Frame == [seq : Nat, len : Nat, level : Nat]
ParticipantState ==
  [hasData : BOOLEAN, seq : Nat, samples : Nat, energy : Nat, speaking : BOOLEAN]

FreshState ==
  [hasData |-> FALSE, seq |-> 0, samples |-> 0, energy |-> 0, speaking |-> FALSE]

\* addParticipant() and removeParticipant(), for a participant at the target rate.
WithParticipant(m, p) ==
  [q \in DOMAIN m \cup {p} |-> IF q \in DOMAIN m THEN m[q] ELSE FreshState]
WithoutParticipant(m, p) == [q \in DOMAIN m \ {p} |-> m[q]]

\* updateVadState(): without a sample the energy is zero and the rest stays.
UpdatedVadState(st, len, level) ==
  IF len = 0 THEN [st EXCEPT !.energy = 0]
  ELSE [st EXCEPT !.energy = level,
                  !.speaking = params.enableVad => level >= VadThreshold]

\* pushAudio(): copy what fits into 20 ms, then classify.
Pushed(st, f) ==
  UpdatedVadState([st EXCEPT !.hasData = TRUE, !.seq = f.seq,
                             !.samples = Min({f.len, MaxSamples})],
                  f.len, f.level)

\* The VAD callback, after participants' states went from m to n.
ToldOnset(m, n) ==
  [p \in Participants |-> told[p] \/ (p \in DOMAIN m /\ params.enableVad /\ n[p].speaking)]

ToldAfter(m, n) ==
  [p \in Participants |->
     IF p \in DOMAIN m /\ params.enableVad /\ m[p].speaking # n[p].speaking
     THEN n[p].speaking ELSE told[p]]

-----------------------------------------------------------------------------
WithData(m) == {p \in DOMAIN m : m[p].hasData}

\* shouldIncludeInMix(): everybody louder counts, the listener included.
Quieter(m, p) == {q \in WithData(m) \ {p} : m[q].energy < m[p].energy}

Louder(m, p) == {q \in WithData(m) \ {p} : m[q].energy > m[p].energy}
Included(m, p) ==
  /\ params.enableVad => m[p].speaking
  /\ params.maxActiveSpeakers > 0 =>
       Cardinality(Louder(m, p)) < params.maxActiveSpeakers

Sources(m, p) == {q \in WithData(m) \ {p} : Included(m, q)}

\* applyAlgorithm(): the output is as long as the longest frame there is.
SamplesOf(m, S) == Max({m[q].samples : q \in S} \cup {0})

\* mixFor(): no mix without sources, nor without a sample.
NoMix == [from |-> {}, len |-> 0]
MixFor(m, p) ==
  LET len == SamplesOf(m, WithData(m))
  IN  IF Sources(m, p) = {} \/ len = 0 THEN NoMix
      ELSE [from |-> {<<q, m[q].seq>> : q \in Sources(m, p)}, len |-> len]

\* updateDominantSpeaker(): the loudest with data, among equals the first in the hash
\* table, which is any.  Silence dominates nothing.
DominantOf(m) ==
  LET loudest == {p \in WithData(m) : m[p].energy > 0 /\ Louder(m, p) = {}}
  IN  IF loudest = {} THEN {Nobody} ELSE loudest

\* clearBuffers(): energies and speaking states stay.
ClearedSamples(m) == [p \in DOMAIN m |-> [m[p] EXCEPT !.samples = 0]]

Cleared(m) == [p \in DOMAIN m |-> [m[p] EXCEPT !.hasData = FALSE, !.samples = 0]]

=============================================================================
