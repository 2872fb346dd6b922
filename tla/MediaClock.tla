------------------------------ MODULE MediaClock ------------------------------
(***************************************************************************)
(* MediaClock (core/media_clock.hpp) and the drift compensation of         *)
(* AudioMixer: a participant's clock, the reference clock of the mixer,    *)
(* and the frames of the participant.  All clocks read the same time.      *)
(***************************************************************************)
EXTENDS Integers

CONSTANTS
  Wrap,                 \* 2^32, where a media timestamp wraps
  Rates, BaseTimestamps,
  Second,               \* how finely time is divided: units of time to a second
  targetRate,           \* samples per second of the reference clock
  maxSamplesPerFrame,   \* _maxSamplesPerFrame
  Parts,                \* a million
  driftThreshold,       \* driftThresholdPpm
  FrameSizes,           \* how many samples a pushed frame has
  Scale,                \* accumulatedDriftSamples is counted in this fraction of a sample
  MaxTime, MaxDrift, NoClock

ASSUME ClockAssumption ==
  /\ {Wrap, Second, targetRate, maxSamplesPerFrame, Parts, Scale} \subseteq Nat \ {0}
  /\ Rates \subseteq Nat \ {0} /\ BaseTimestamps \subseteq 0 .. Wrap - 1

\* At a threshold of 0 there is always some drift to compensate.
ASSUME ThresholdAssumption == driftThreshold \in Nat \ {0}

VARIABLES
  now,                  \* the steady clock
  clock,                \* the participant's clock
  reference,            \* _referenceClock
  accumulated,          \* accumulatedDriftSamples
  frame                 \* sampleCount of the last frame, as pushed and as compensated

clockVars == <<now, clock, reference, accumulated, frame>>

Abs(x) == IF x < 0 THEN -x ELSE x

ClockInit ==
  /\ now = 0 /\ clock = NoClock /\ reference = NoClock /\ accumulated = 0
  /\ frame = [pushed |-> 0, kept |-> 0]

NewClock(rate, base, t) == [rate |-> rate, base |-> base, anchor |-> t]

toMediaTimestamp(c, t) == (c.base + (((t - c.anchor) * c.rate) \div Second)) % Wrap

\* driftPpm(): the samples that both clocks have counted, normalised to their rates, as a
\* fraction; none while the other clock is at its base.
driftOnTimestamps(c, other) ==
  LET this == toMediaTimestamp(c, now)
      that == toMediaTimestamp(other, now)
  IN  IF that = 0 THEN <<0, 1>>
      ELSE <<this * other.rate - that * c.rate, that * c.rate>>
driftPpm(c, other) ==
  LET this == (toMediaTimestamp(c, now) - c.base) % Wrap
      that == (toMediaTimestamp(other, now) - other.base) % Wrap
  IN  IF that = 0 THEN <<0, 1>>
      ELSE <<this * other.rate - that * c.rate, that * c.rate>>

\* setParticipantClock(): the clock was made earlier, the reference clock is made with the
\* first of them.
setParticipantClock(c) ==
  /\ clock' = c
  /\ reference' = IF reference = NoClock THEN NewClock(targetRate, 0, now) ELSE reference
  /\ UNCHANGED <<now, accumulated, frame>>

\* applyDriftCompensation() for a frame of n samples: one sample is dropped or doubled, the
\* latter only if it fits, once a whole sample of drift has gathered.
applyDriftCompensation(n) ==
  LET drift == driftPpm(clock, reference)
      sum == accumulated + ((n * drift[1] * Scale) \div drift[2])
  IN  IF clock = NoClock \/ n = 0 THEN UNCHANGED accumulated /\ frame' = [pushed |-> n, kept |-> n]
      ELSE IF Abs(drift[1]) * Parts < driftThreshold * drift[2]
      THEN UNCHANGED accumulated /\ frame' = [pushed |-> n, kept |-> n]
      ELSE /\ accumulated' = CASE sum >= Scale -> sum - Scale
                               [] sum <= -Scale -> sum + Scale
                               [] OTHER -> sum
           /\ frame' = [pushed |-> n,
                        kept |-> CASE sum >= Scale /\ n > 1 -> n - 1
                                   [] sum <= -Scale /\ n < maxSamplesPerFrame -> n + 1
                                   [] OTHER -> n]

ClockControl ==
  \/ now < MaxTime /\ now' = now + 1 /\ UNCHANGED <<clock, reference, accumulated, frame>>
  \/ \E rate \in Rates, base \in BaseTimestamps, t \in 0 .. now :
       setParticipantClock(NewClock(rate, base, t))

pushAudio ==
  /\ \E n \in FrameSizes : applyDriftCompensation(n)
  /\ Abs(accumulated') <= MaxDrift
  /\ UNCHANGED <<now, clock, reference>>

=============================================================================
