------------------------------- MODULE CallLegs -------------------------------
(***************************************************************************)
(* One leg of a call, of four kinds that share no state: a video leg with  *)
(* its encoder and decoder, an audio leg that transcodes, a sample that is *)
(* converted over and over on its way through telephone exchanges, and a   *)
(* participant of a mixer whose clock is compared with the mixer's.        *)
(***************************************************************************)
EXTENDS VideoCodec, TranscodingLeg, SampleFormat, MediaClock

CONSTANT Legs             \* of "video", "transcoding", "samples", "clock"

VARIABLES
  leg,
  \* history
  wanted,               \* a key frame was asked for and has not come, and whether an
                        \* encode() call that could have brought it came to nothing
  tandem,               \* the laws that coded the sample in turn, its value after each of
                        \* them that was not the first, and the last coding
  together              \* when the last frame was pushed, the two clocks counted from one
                        \* moment on, at one rate or both exactly

legsVars == <<leg, videoVars, transVars, sample, clockVars, wanted, tandem, together>>

Laws == {"Mulaw", "Alaw"}
NotCoded == [law |-> "none", from |-> 0, before |-> 0, to |-> 0]
Untouched == [seen |-> {}, kept |-> [l \in {} |-> 0], coded |-> NotCoded]

\* The parts of the other legs stay as they are, so their first state does not matter.
LegsInit ==
  /\ leg \in Legs
  /\ VideoInit /\ TransInit /\ SampleInit /\ ClockInit
  /\ leg # "video" => library = CHOOSE l \in Libraries : TRUE
  /\ leg # "samples" => sample.fmt = "Alaw" /\ sample.value = CHOOSE b \in Samples : TRUE
  /\ wanted = [key |-> FALSE, failed |-> FALSE]
  /\ tandem = Untouched
  /\ together = FALSE

-----------------------------------------------------------------------------
videoLeg ==
  /\ leg = "video"
  /\ \/ createEncoder /\ wanted' = [key |-> factory.pendingKeyFrame, failed |-> FALSE]
     \/ requestKeyFrame /\ wanted' = [key |-> TRUE, failed |-> FALSE]
     \/ \E whole \in BOOLEAN :
          /\ encodePicture(whole)
          /\ wanted' = IF encoded' = "key" THEN [key |-> FALSE, failed |-> FALSE]
                       ELSE [wanted EXCEPT !.failed = @ \/ (whole /\ encoded' = "nothing")]
     \/ VideoControl /\ UNCHANGED wanted
  /\ UNCHANGED <<leg, transVars, sample, clockVars, tandem, together>>

transcodingLeg ==
  /\ leg = "transcoding" /\ TransNext
  /\ UNCHANGED <<leg, videoVars, sample, clockVars, wanted, tandem, together>>

Coded(law, from, to) ==
  [seen  |-> tandem.seen \cup {law},
   kept  |-> IF tandem.seen \subseteq {law} THEN tandem.kept
             ELSE [l \in DOMAIN tandem.kept \cup {law} |-> IF l = law THEN to ELSE tandem.kept[l]],
   coded |-> [law |-> law, from |-> from, to |-> to,
              before |-> IF law \in DOMAIN tandem.kept THEN tandem.kept[law] ELSE to]]

samplesLeg ==
  /\ leg = "samples"
  /\ \E f \in Formats :
       /\ convertSamples(f)
       /\ tandem' = CASE f \in Laws -> Coded(f, sample.value, converted(f, "S16", sample'.value))
                      [] f \in {"U8", "F32"} -> Untouched
                      [] OTHER -> [tandem EXCEPT !.coded = NotCoded]
  /\ UNCHANGED <<leg, videoVars, transVars, clockVars, wanted, together>>

\* What the clock counts is the time that has passed.
Exact(c) ==
  LET units == (now - c.anchor) * c.rate IN units % Second = 0 /\ units < Wrap * Second

clockLeg ==
  /\ leg = "clock"
  /\ \/ ClockControl /\ UNCHANGED together
     \/ /\ pushAudio
        /\ together' = (/\ clock # NoClock /\ clock.anchor = reference.anchor
                        /\ \/ clock.rate = reference.rate
                           \/ Exact(clock) /\ Exact(reference))
  /\ UNCHANGED <<leg, videoVars, transVars, sample, wanted, tandem>>

LegsNext == videoLeg \/ transcodingLeg \/ samplesLeg \/ clockLeg
LegsSpec == LegsInit /\ [][LegsNext]_legsVars

-----------------------------------------------------------------------------
\* After a key frame was asked for, no other frame leaves before it, whatever was skipped,
\* refused or too small in between: with OpenH264 never, with libvpx and libaom unless the
\* encode() call that carried the request came to nothing.
KeyFrameFollowsRequest ==
  encoded = "delta" => ~wanted.key \/ (wanted.failed /\ library # "h264")

\* What getParameter() reports is what the library works with, whichever calls the library
\* refused.  Left out are the two that the code does not carry through: the frame rate of
\* VPX and AV1, and a speed of the factory that the library does not know.
ReportedIsInForce ==
  /\ encoder # NoCodec =>
       IF library = "h264"
       THEN \A key \in {"bitrate", "framerate"} : getVideoParameter(key) = encoder.lib[key]
       ELSE /\ kbps(getVideoParameter("bitrate")) = encoder.lib.bitrate
            /\ getVideoParameter("speed") \in {encoder.lib.speed} \cup (Speeds \ ValidSpeeds)
  /\ \A c \in {dec, enc} \ {Nothing} :
       \A key \in DOMAIN c.lib : getParameter(c, key) = c.lib[key]

\* A picture that decode() returns is of the packet whose timestamp it bears, also when the
\* packets before held several pictures or none, and its planes fit its buffer.
PictureOfThisPacket == picture.of = picture.as /\ picture.filled <= picture.size

\* A packet of 20 ms, read or concealed, is as long after transcoding as before unless the
\* encoder refuses it, and longer packets do not grow; but not for G.722, whose samples are
\* twice as many as its clock rate says, nor into the 30 ms frames of iLBC.
FrameDurationKept ==
  inService /\ last # NoPacket /\ "G722" \notin {dec.name, enc.name} =>
    /\ last.in = 20 /\ (enc.name = "iLBC" => enc.lib.frameMode = 20) =>
         last.out = IF last.refused THEN 0 ELSE 20
    /\ last.in >= 20 /\ last.readable => last.out <= last.in

\* Mu-law and A-law in turn, any number of times: a positive sample has its final value
\* once each law has coded it after the other, and a negative one only ever moves toward
\* zero and stays negative.
TandemSettles ==
  LET c == tandem.coded
  IN  IF c.before >= 0 THEN c.to = c.before ELSE c.to \in c.before .. -1

\* Two clocks of one time base that start together do not drift: no sample is dropped or
\* doubled, at whatever base the timestamps begin and however often they wrap.  (At two
\* rates the counts differ by a part of a sample, and for good when one has wrapped.)
NoDriftNoCompensation == together => frame.kept = frame.pushed

-----------------------------------------------------------------------------
\* Documented, but not what the code does.

\* A-law as recommended (sample_format.hpp:213): the value of the byte is within half a
\* quantisation step of the sample.
HalfStep(y) == IF Abs(y) < 512 THEN 8
               ELSE 2 ^ ((CHOOSE k \in 9 .. 14 : 2 ^ k <= Abs(y) /\ Abs(y) < 2 ^ (k + 1)) - 5)
AlawTakesNearest ==
  tandem.coded.law = "Alaw" =>
    Abs(tandem.coded.from - tandem.coded.to) <= HalfStep(tandem.coded.to)

\* "requestKeyFrame - force keyframe on next encode" (vpx_codec.hpp:70): the first frame to
\* leave after the request is a key frame, also when an encode() call in between failed.
NextFrameIsKey == encoded = "delta" => ~wanted.key

\* "Pre-allocate resample output buffer for worst-case frame" (transcoding_handler.cpp:39):
\* a G.711 packet of 10, 20 or 40 ms, lengths that Opus has too, becomes an Opus packet of
\* that length.
WorstCaseFrameFits ==
  (/\ inService /\ last # NoPacket /\ last.readable /\ ~last.refused
   /\ dec.name \in {"PCMU", "PCMA"} /\ enc.name = "opus" /\ last.in \in {10, 20, 40}) =>
     last.out = last.in

=============================================================================
