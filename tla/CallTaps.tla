------------------------------ MODULE CallTaps ------------------------------
(***************************************************************************)
(* The handlers of a call leg in a row: a GainHandler, a GoertzelHandler   *)
(* and a VadHandler.  Frames pass in both directions, digits are dialled   *)
(* into the incoming one, and the application turns the gain and the mute. *)
(***************************************************************************)
EXTENDS GainHandler, VadHandler, DtmfDetector

CONSTANTS
  Frames,         \* the frames that arrive from each direction
  Dials,          \* the arguments of generateSequence() that are dialled
  FrameSamples    \* how many samples of a generated buffer travel in one frame

ASSUME CallAssumption ==
  /\ \A d \in Directions : Frames[d] \subseteq S16Frame
  /\ Dials \subseteq [digits : Seq(Nat \X Nat), toneMs : Nat, gapMs : Nat, level : 0 .. MaxLevel]
  /\ FrameSamples \in Nat \ {0}

\* Any two frames in which there may be a tone are as long as a tone must last.
ASSUME TwoFramesSuffice ==
  /\ \A d \in Directions : \A f \in Frames[d] : f.samples > 0 => minDurationMs <= 2 * frameMs(f)
  /\ minDurationMs <= 2 * ((FrameSamples * 1000) \div sampleRate)
  /\ \A d \in Dials : ((sampleRate * d.toneMs) \div 1000) % FrameSamples = 0

\* Each tone lasts long enough in whole frames and is heard, each gap is there.
ASSUME DialsAreHeard ==
  \A d \in Dials :
    LET samples == (sampleRate * d.toneMs) \div 1000
    IN  /\ samples > 0 /\ d.level > 0 /\ (sampleRate * d.gapMs) \div 1000 > 0
        /\ minDurationMs <= (samples \div FrameSamples) * ((FrameSamples * 1000) \div sampleRate)

VARIABLES
  line,           \* buffers of a dialled sequence that are still to come
  out,            \* what became of the last frame of each direction
  \* history
  asked,          \* the factor given to setGain() last, and whether mute() came last
  quiet,          \* per direction: readable frames since the last speech
  talk,           \* per direction: whether the last two frames were part of a talkspurt
  last,           \* per direction: digit and length of the last two readable frames
  dialled,        \* the digits of the sequence dialled last
  reports         \* the digits reported since then, and whether it was disturbed

taps == <<gain, vad, prevActive, detector>>
tapsVars == <<taps, line, out, asked, quiet, talk, last, dialled, reports>>

Both(x) == [d \in Directions |-> x]
Pause == [digit |-> NoDigit, ms |-> 0]

TapsInit ==
  /\ GainInit /\ VadInit /\ DetectorInit
  /\ line = <<>>
  /\ out = Both([readable |-> FALSE, forwarded |-> Mode = "MARK_ONLY", marked |-> FALSE,
                 reported |-> NoDigit])
  /\ asked = [gain |-> gain.gain, muted |-> FALSE]
  /\ quiet = Both(hangoverFrames + 1)
  /\ talk = Both([before |-> FALSE, now |-> FALSE])
  /\ last = Both(<<Pause, Pause>>)
  /\ dialled = <<>>
  /\ reports = [digits |-> <<>>, disturbed |-> FALSE]

-----------------------------------------------------------------------------
\* What there is to hear in a frame at the gain that was asked for.
AsAsked(f) ==
  LET Level(level) == IF asked.muted THEN 0 ELSE Scaled(level, asked.gain)
  IN  [f EXCEPT !.rms = Level(@), !.lowMag = Level(@), !.highMag = Level(@)]
Speech(f) == f.samples > 0 /\ AsAsked(f).rms >= silenceThresholdRms
DigitOf(f) == IF f.samples = 0 THEN NoDigit ELSE detectedDigit(AsAsked(f))

Listen(dir, f) ==
  /\ quiet' = IF ~Readable(f) THEN quiet
              ELSE [quiet EXCEPT ![dir] = IF Speech(f) THEN 0
                                          ELSE Min({@ + 1, hangoverFrames + 1})]
  /\ talk' = [talk EXCEPT ![dir] = [before |-> @.now,
                                    now |-> Readable(f) /\ quiet'[dir] <= hangoverFrames]]
  /\ last' = IF ~Readable(f) THEN last
             ELSE [last EXCEPT ![dir] = <<@[2], [digit |-> DigitOf(f), ms |-> frameMs(f)]>>]

\* A frame passes the three handlers; a null pointer is handed on.
handle(dir, f) ==
  LET g == applied(f)
  IN  IF f = NoBuffer THEN UNCHANGED <<taps, out, quiet, talk, last>>
      ELSE /\ Readable(f) => detector[dir].ms + frameMs(f) <= MaxHeldMs
           /\ goertzelHandle(dir, g) /\ vadHandle(dir, g) /\ UNCHANGED gain
           /\ out' = [out EXCEPT ![dir] = [readable |-> Readable(f),
                                           forwarded |-> Forwarded(dir, g),
                                           marked |-> Marked(dir, g),
                                           reported |-> Reported(detector[dir], g)]]
           /\ Listen(dir, f)

arrive(dir, f) ==
  /\ dir = "incoming" => line = <<>>
  /\ handle(dir, f)
  /\ UNCHANGED <<line, asked, dialled, reports>>

\* Dialling begins after a pause.
dial(d) ==
  /\ line = <<>> /\ last["incoming"][2].digit = NoDigit
  /\ line' = generateSequence(d.digits, d.toneMs, d.gapMs, d.level)
  /\ dialled' = d.digits
  /\ reports' = [digits |-> <<>>, disturbed |-> FALSE]
  /\ UNCHANGED <<taps, out, asked, quiet, talk, last>>

\* The generated buffers are sent in frames, the last of each as short as it comes.
nextFrame == [Head(line) EXCEPT !.samples = Min({FrameSamples, @})]
afterFrame ==
  IF Head(line).samples > FrameSamples
  THEN [line EXCEPT ![1].samples = @ - FrameSamples] ELSE Tail(line)

\* A digit is heard anew where the frame before reported none.
play ==
  LET f == nextFrame
  IN  /\ line # <<>>
      /\ handle("incoming", f)
      /\ line' = afterFrame
      /\ reports' = [digits |-> IF out'["incoming"].reported = NoDigit
                                 \/ out["incoming"].reported # NoDigit THEN reports.digits
                              ELSE Append(reports.digits, out'["incoming"].reported),
                   disturbed |-> reports.disturbed \/ (f.rms > 0 /\ DigitOf(f) = NoDigit)]
      /\ UNCHANGED <<asked, dialled>>

control ==
  /\ \/ \E g \in Gains : setGain(g) /\ asked' = [asked EXCEPT !.gain = g]
     \/ mute /\ asked' = [asked EXCEPT !.muted = TRUE]
     \/ unmute /\ asked' = [asked EXCEPT !.muted = FALSE]
  /\ UNCHANGED <<vad, prevActive, detector, line, out, quiet, talk, last, dialled, reports>>

reset(dir) ==
  /\ \/ resetVad(dir) /\ quiet' = [quiet EXCEPT ![dir] = hangoverFrames + 1]
        /\ UNCHANGED <<detector, out, last, reports>>
     \/ resetDetector(dir) /\ last' = [last EXCEPT ![dir] = <<Pause, Pause>>]
        /\ out' = [out EXCEPT ![dir].readable = FALSE, ![dir].reported = NoDigit]
        /\ reports' = [reports EXCEPT !.disturbed = @ \/ dir = "incoming"]
        /\ UNCHANGED <<vad, prevActive, quiet>>
  /\ UNCHANGED <<gain, line, asked, talk, dialled>>

TapsNext ==
  \/ \E dir \in Directions :
       reset(dir) \/ \E f \in Frames[dir] \cup {NoBuffer} : arrive(dir, f)
  \/ \E d \in Dials : dial(d)
  \/ play \/ control

TapsSpec == TapsInit /\ [][TapsNext]_tapsVars

-----------------------------------------------------------------------------
\* Each direction on its own: a frame goes on exactly if it is part of a talkspurt, that
\* is if there was speech in it or in one of the hangoverFrames readable frames before,
\* at the gain that was asked for (or if silence is only marked); and the marker is set
\* on the first frame of each talkspurt and on no other.
TalkspurtsAreMarked ==
  \A d \in Directions :
    /\ out[d].forwarded <=> talk[d].now \/ Mode = "MARK_ONLY"
    /\ out[d].marked <=> talk[d].now /\ ~talk[d].before

\* A digit is reported exactly for the frames at which the same digit has lasted for the
\* minimum duration without a pause or another digit in the same direction.  (Two frames
\* of a tone are long enough.)
Steady(d) ==
  /\ last[d][2].digit # NoDigit
  /\ minDurationMs <= last[d][2].ms
                      + IF last[d][1].digit = last[d][2].digit THEN last[d][1].ms ELSE 0

ReportedIffSteady ==
  \A d \in Directions :
    out[d].readable => out[d].reported = IF Steady(d) THEN last[d][2].digit ELSE NoDigit

ValidDigits(digits) ==
  LET valid[n \in 0 .. Len(digits)] ==
        IF n = 0 THEN <<>>
        ELSE IF digits[n] \in Digits THEN Append(valid[n - 1], digits[n]) ELSE valid[n - 1]
  IN  valid[Len(digits)]

\* A sequence that was dialled and played to its end is heard as it was dialled, without
\* its invalid digits, unless the gain that was asked for made a tone too quiet: equal
\* neighbours are told apart by the gap between them.
DialledIsHeard ==
  line = <<>> /\ ~reports.disturbed => reports.digits = ValidDigits(dialled)

=============================================================================
