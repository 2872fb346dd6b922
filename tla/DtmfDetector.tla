---------------------------- MODULE DtmfDetector ----------------------------
(***************************************************************************)
(* ToneGenerator, GoertzelDetector and GoertzelHandler                     *)
(* (dsp/tone_generator.hpp, dsp/goertzel_detector.hpp).  A digit is the    *)
(* pair of its two tones.  The detector counts for how many milliseconds   *)
(* in a row it has seen the same digit, and reports every frame            *)
(* from the minimum on.  A tone of 2^32 milliseconds, where the count wraps,*)
(* is beyond the bound of the model.                                       *)
(***************************************************************************)
EXTENDS CallFrame, Sequences

CONSTANTS
  sampleRate,
  energyThreshold,
  normalTwist,          \* how many levels the high tone may exceed the low one
  reverseTwist,         \* and the low one the high one
  minDurationMs,
  MaxHeldMs             \* bound of the model: how long one tone is held

ASSUME DetectorAssumption ==
  /\ sampleRate \in Nat \ {0} /\ energyThreshold \in Nat \ {0}
  /\ {normalTwist, reverseTwist, minDurationMs, MaxHeldMs} \subseteq Nat

VARIABLES detector      \* _detectorIn and _detectorOut

NoDigit == <<>>
Digits == (1 .. 4) \X (1 .. 4)

FreshDetector == [digit |-> NoDigit, ms |-> 0]
DetectorInit == detector = [d \in Directions |-> FreshDetector]

\* The digit of a frame: both tones strong enough, and neither much stronger.
detectedDigit(f) ==
  IF /\ Min({f.lowMag, f.highMag}) >= energyThreshold
     /\ IF f.highMag > f.lowMag THEN f.highMag - f.lowMag <= normalTwist
                                ELSE f.lowMag - f.highMag <= reverseTwist
  THEN <<f.low, f.high>> ELSE NoDigit

frameMs(f) == (f.samples * 1000) \div sampleRate

updateDurationOnly(x, digit, ms) ==
  IF digit # NoDigit THEN [digit |-> digit, ms |-> x.ms + ms]
  ELSE FreshDetector
updateDuration(x, digit, ms) ==
  IF digit = NoDigit THEN FreshDetector
  ELSE [digit |-> digit, ms |-> IF digit = x.digit THEN x.ms + ms ELSE ms]

\* detect(): a buffer of odd size is passed over, an empty one interrupts the tone.
detect(x, f) ==
  IF ~Readable(f) THEN x
  ELSE updateDuration(x, IF f.samples = 0 THEN NoDigit ELSE detectedDigit(f), frameMs(f))

\* The digit the callback gets for a frame, if any; its duration is always 0.
Reported(x, f) ==
  LET y == detect(x, f)
  IN  IF Readable(f) /\ f.samples > 0 /\ y.digit # NoDigit /\ y.ms >= minDurationMs
      THEN y.digit ELSE NoDigit

\* incoming() and outgoing(); reset() of one detector.
goertzelHandle(dir, f) == detector' = [detector EXCEPT ![dir] = detect(@, f)]
resetDetector(dir) == detector' = [detector EXCEPT ![dir] = FreshDetector]

-----------------------------------------------------------------------------
\* generate() and generateSilence(): a buffer of so many samples, or none at all.
generate(digit, ms, level) ==
  LET n == (sampleRate * ms) \div 1000
  IN  IF digit \in Digits /\ n > 0
      THEN <<[samples |-> n, odd |-> FALSE, rms |-> level, low |-> digit[1],
              lowMag |-> level, high |-> digit[2], highMag |-> level]>>
      ELSE <<>>

generateSilence(ms) ==
  LET n == (sampleRate * ms) \div 1000
  IN  IF n > 0 THEN <<[samples |-> n, odd |-> FALSE, rms |-> 0, low |-> 1, lowMag |-> 0,
                       high |-> 1, highMag |-> 0]>>
      ELSE <<>>

\* generateSequence(): the tones of the valid digits with gaps between them.
generateSequence(digits, toneMs, gapMs, level) ==
  LET result[n \in 0 .. Len(digits)] ==
        IF n = 0 THEN <<>>
        ELSE LET tone == generate(digits[n], toneMs, level)
                 gap == IF result[n - 1] = <<>> THEN <<>> ELSE generateSilence(gapMs)
             IN  IF tone = <<>> THEN result[n - 1] ELSE result[n - 1] \o gap \o tone
  IN  result[Len(digits)]

=============================================================================
