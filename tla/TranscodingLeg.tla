---------------------------- MODULE TranscodingLeg ----------------------------
(***************************************************************************)
(* A TranscodingHandler with two real codecs (transcoding_handler.cpp), by *)
(* the length of what goes through it: decode, conceal, resample, encode.  *)
(***************************************************************************)
EXTENDS AudioCodec

CONSTANT FrameMs          \* how long the packets of the far end last

ASSUME FrameMsAssumption == FrameMs \subseteq Nat

VARIABLES
  dec, enc,             \* the pair of codecs: being configured, then the handler's
  inService,            \* whether the handler has them
  resampleBuf,          \* samples per channel of _resampleBuf, Nothing without a resampler
  last                  \* the last packet: its length, that of what was made of it

transVars == <<dec, enc, inService, resampleBuf, last>>

NoPacket == [in |-> 0, out |-> 0, readable |-> TRUE, refused |-> FALSE]

TransInit ==
  /\ dec = Nothing /\ enc = Nothing /\ inService = FALSE
  /\ resampleBuf = Nothing /\ last = NoPacket

\* The application builds and configures a pair; while it does, the handler goes on with
\* the pair before, which is left out of sight.
provideCodec(mode, c) ==
  /\ IF mode = "decoder" THEN dec' = c /\ enc' = IF inService THEN Nothing ELSE enc
     ELSE enc' = c /\ dec' = IF inService THEN Nothing ELSE dec
  /\ inService' = FALSE /\ resampleBuf' = Nothing /\ last' = NoPacket

setParameter(key, v, ok) ==
  /\ ~inService
  /\ \/ dec # Nothing /\ dec' = withParameter(dec, key, v, ok) /\ UNCHANGED enc
     \/ enc # Nothing /\ enc' = withParameter(enc, key, v, ok) /\ UNCHANGED dec
  /\ UNCHANGED <<inService, resampleBuf, last>>

\* initPipeline(): room for 20 ms of the decoder's clock and 16 samples.
estimateOutputSamples(n, from, to) == (n * to + from - 1) \div from

initPipelineSwapped(d, e) ==
  IF clockRate(d.name) = clockRate(e.name) THEN Nothing
  ELSE estimateOutputSamples(clockRate(d.name) \div 50, clockRate(e.name), clockRate(d.name)) + 16
initPipeline(d, e) ==
  IF clockRate(d.name) = clockRate(e.name) THEN Nothing
  ELSE estimateOutputSamples(clockRate(d.name) \div 50, clockRate(d.name), clockRate(e.name)) + 16

\* The constructor and swapCodecs(): a null codec is refused.
swapCodecs ==
  /\ ~inService /\ dec # Nothing /\ enc # Nothing
  /\ inService' = TRUE /\ resampleBuf' = initPipeline(dec, enc)
  /\ UNCHANGED <<dec, enc, last>>

\* What does not fit the buffer stays in the resampler's input and is lost.
resampled(n) ==
  IF resampleBuf = Nothing THEN n
  ELSE Min({resampleBuf, (n * clockRate(enc.name)) \div clockRate(dec.name)})

Ms(n, c) == (n * 1000) \div audioRate(c.name)

\* incoming() of a packet of ms milliseconds; the encoding library may refuse a frame.
incoming(ms, readable, refused) ==
  LET n == (ms * audioRate(dec.name)) \div 1000
      pcm == IF decode(dec, n, readable) # Nothing THEN decode(dec, n, readable)
             ELSE plc(dec, clockRate(dec.name) \div 50)
      packet == IF refused THEN Nothing ELSE encode(enc, resampled(pcm))
  IN  /\ inService
      /\ last' = [in |-> ms, readable |-> readable, refused |-> refused,
                  out |-> IF packet = Nothing THEN 0 ELSE Ms(packet, enc)]
      /\ UNCHANGED <<dec, enc, inService, resampleBuf>>

\* The frames of an iLBC packet are of the mode that was agreed, those of AMR last 20 ms.
Sent(ms) ==
  CASE dec.name = "iLBC" -> ms % dec.own.frameMode = 0
    [] dec.name \in {"AMR", "AMR-WB"} -> ms = 20
    [] OTHER -> TRUE

TransNext ==
  \/ \E mode \in {"encoder", "decoder"}, name \in CodecNames, arg \in Arguments :
       \E c \in create(name, mode, arg) : provideCodec(mode, c)
  \/ \E key \in OpusKeys \cup {"mode", "bitrateMode", "dtx", "frameMode"}, v \in Values,
        ok \in BOOLEAN : setParameter(key, v, ok)
  \/ swapCodecs
  \/ \E ms \in FrameMs, readable, refused \in BOOLEAN :
       inService /\ Sent(ms) /\ incoming(ms, readable, refused)

=============================================================================
