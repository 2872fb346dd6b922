------------------------------ MODULE VideoCodec ------------------------------
(***************************************************************************)
(* The video plugins: VpxCodec, Av1Codec and H264Codec, with the factory   *)
(* an encoder comes from.  What libvpx, libaom, dav1d and OpenH264 do is    *)
(* external: a field "lib" holds what the library has in force.            *)
(***************************************************************************)
EXTENDS Naturals, Sequences

CONSTANTS
  Libraries,            \* of "vpx", "av1", "h264"
  Bitrates, Framerates, Speeds,
  InitialDefaults,      \* what the factory is made with: a bitrate, a frame rate, a speed
  ValidSpeeds,          \* the speeds the library accepts
  LibrarySpeed,         \* what it runs at when it was never told one
  Packets,              \* what arrives: pictures in the packet, their size and format
  NoCodec

ASSUME VideoAssumption ==
  /\ Libraries \subseteq {"vpx", "av1", "h264"}
  /\ InitialDefaults \in Bitrates \X Framerates \X Speeds
  /\ Bitrates \cup Framerates \cup Speeds \cup {LibrarySpeed} \subseteq Nat

ASSUME PacketAssumption ==
  Packets \subseteq [pictures : Nat, usable : BOOLEAN, width : Nat, height : Nat]

VARIABLES
  library,              \* the plugin of this leg
  factory,              \* the defaults of its factory, and _pendingKeyFrame
  encoder,
  undelivered,          \* packet numbers of the pictures the decoder still holds
  arrived,              \* the number of the current packet, modulo 3
  picture,              \* what decode() returned, and whose picture it is
  encoded               \* what encode() returned, if that was called last

videoVars == <<library, factory, encoder, undelivered, arrived, picture, encoded>>

NoPicture == [of |-> 3, as |-> 3, filled |-> 0, size |-> 0]

VideoInit ==
  /\ library \in Libraries
  /\ factory = [bitrate |-> InitialDefaults[1], framerate |-> InitialDefaults[2],
                speed |-> InitialDefaults[3], pendingKeyFrame |-> FALSE]
  /\ encoder = NoCodec
  /\ undelivered = <<>> /\ arrived = 0 /\ picture = NoPicture
  /\ encoded = "nothing"

-----------------------------------------------------------------------------
\* The constructors.  The speed control of VPX and AV1 may refuse, which nobody looks at.
kbps(bps) == bps \div 1000

vpxNew(d) ==
  [bitrate |-> d.bitrate, framerate |-> d.framerate, speed |-> d.speed,
   forceKeyFrame |-> FALSE, cfgBitrate |-> kbps(d.bitrate),
   lib |-> [bitrate |-> kbps(d.bitrate), framerate |-> d.framerate,
            speed |-> IF d.speed \in ValidSpeeds THEN d.speed ELSE LibrarySpeed,
            intra |-> TRUE]]
av1New(d) == vpxNew(d)
h264New(d) ==
  [bitrate |-> d.bitrate, framerate |-> d.framerate, speed |-> 0, forceKeyFrame |-> FALSE,
   cfgBitrate |-> 0,
   lib |-> [bitrate |-> d.bitrate, framerate |-> d.framerate, speed |-> 0, intra |-> TRUE]]

\* createEncoder(): the pending request goes to the new encoder, unless its constructor
\* throws.
Created(e) == [e EXCEPT !.forceKeyFrame = factory.pendingKeyFrame]
vpxCreateEncoder  == encoder' = Created(vpxNew(factory))
av1CreateEncoder  == encoder' = Created(av1New(factory))
h264CreateEncoder == encoder' = Created(h264New(factory))

createEncoder ==
  /\ CASE library = "vpx"  -> vpxCreateEncoder
       [] library = "av1"  -> av1CreateEncoder
       [] library = "h264" -> h264CreateEncoder
  /\ factory' = [factory EXCEPT !.pendingKeyFrame = FALSE]
  /\ encoded' = "nothing"
  /\ UNCHANGED <<library, undelivered, arrived, picture>>

\* The setters of the factory, for the encoders to come; a size that is zero or odd throws
\* before anything is stored.
vpxFactorySetters(key, v) ==
  CASE key = "setVideoParams"    -> [factory EXCEPT !.bitrate = v[1], !.framerate = v[2]]
    [] key = "setDefaultBitrate" -> [factory EXCEPT !.bitrate = v[1]]
    [] key = "setDefaultSpeed"   -> [factory EXCEPT !.speed = v[3]]
    [] key = "requestKeyFrame"   -> [factory EXCEPT !.pendingKeyFrame = TRUE]
av1FactorySetters(key, v) == vpxFactorySetters(key, v)
h264FactorySetters(key, v) ==
  IF key = "setDefaultSpeed" THEN factory ELSE vpxFactorySetters(key, v)

configureFactory(key, v) ==
  /\ factory' = CASE library = "vpx"  -> vpxFactorySetters(key, v)
                  [] library = "av1"  -> av1FactorySetters(key, v)
                  [] library = "h264" -> h264FactorySetters(key, v)
  /\ UNCHANGED <<library, encoder, undelivered, arrived, picture, encoded>>

-----------------------------------------------------------------------------
\* setParameter() of an encoder; ok is what the library answers.  VPX and AV1 change their
\* configuration before they hand it over; a speed is asked for by a control.
vpxSetParameterStored(e, key, v, ok) ==
  CASE key = "bitrate" ->
         [e EXCEPT !.cfgBitrate = kbps(v), !.bitrate = v,
                   !.lib.bitrate = IF ok THEN kbps(v) ELSE @]
    [] key = "speed" /\ v \in ValidSpeeds -> [e EXCEPT !.speed = v, !.lib.speed = v]
    [] key = "framerate" -> [e EXCEPT !.framerate = v]
    [] key = "requestKeyFrame" -> [e EXCEPT !.forceKeyFrame = TRUE]
    [] OTHER -> e
vpxSetParameter(e, key, v, ok) ==
  CASE key = "bitrate" ->
         [e EXCEPT !.cfgBitrate = kbps(v), !.bitrate = IF ok THEN v ELSE @,
                   !.lib.bitrate = IF ok THEN kbps(v) ELSE @]
    [] key = "speed" /\ v \in ValidSpeeds -> [e EXCEPT !.speed = v, !.lib.speed = v]
    [] key = "framerate" -> [e EXCEPT !.framerate = v]
    [] key = "requestKeyFrame" -> [e EXCEPT !.forceKeyFrame = TRUE]
    [] OTHER -> e
av1SetParameter(e, key, v, ok) == vpxSetParameter(e, key, v, ok)
h264SetParameter(e, key, v, ok) ==
  CASE key = "bitrate" /\ ok   -> [e EXCEPT !.bitrate = v, !.lib.bitrate = v]
    [] key = "framerate" /\ ok -> [e EXCEPT !.framerate = v, !.lib.framerate = v]
    [] key = "requestKeyFrame" -> [e EXCEPT !.forceKeyFrame = TRUE]
    [] OTHER -> e

setVideoParameter(key, v, ok) ==
  /\ encoder # NoCodec
  /\ encoder' = CASE library = "vpx"  -> vpxSetParameter(encoder, key, v, ok)
                  [] library = "av1"  -> av1SetParameter(encoder, key, v, ok)
                  [] library = "h264" -> h264SetParameter(encoder, key, v, ok)
  /\ encoded' = "nothing"
  /\ UNCHANGED <<library, factory, undelivered, arrived, picture>>

\* getParameter(): what the codec has stored.
vpxGetParameter(e, key) ==
  CASE key = "bitrate" -> e.bitrate [] key = "speed" -> e.speed
    [] key = "framerate" -> e.framerate
av1GetParameter(e, key) == vpxGetParameter(e, key)
h264GetParameter(e, key) == CASE key = "bitrate" -> e.bitrate [] key = "framerate" -> e.framerate

getVideoParameter(key) ==
  CASE library = "vpx"  -> vpxGetParameter(encoder, key)
    [] library = "av1"  -> av1GetParameter(encoder, key)
    [] library = "h264" -> h264GetParameter(encoder, key)

-----------------------------------------------------------------------------
\* encode(): a picture that is too small goes no further.  The library makes a key frame of
\* one that is forced to be and of its first one, and of others as it likes; "nothing" is
\* an error or a frame that was skipped.
Made(intra) == IF intra THEN {"key", "nothing"} ELSE {"key", "delta", "nothing"}

vpxEncodeClearedFirst(whole) ==
  \E r \in IF whole THEN Made(encoder.forceKeyFrame \/ encoder.lib.intra) ELSE {"nothing"} :
    /\ encoded' = r
    /\ encoder' = [encoder EXCEPT !.forceKeyFrame = FALSE,
                                  !.lib.intra = @ /\ r = "nothing"]
vpxEncode(whole) ==
  IF ~whole THEN encoded' = "nothing" /\ UNCHANGED encoder
  ELSE \E r \in Made(encoder.forceKeyFrame \/ encoder.lib.intra) :
         /\ encoded' = r
         /\ encoder' = [encoder EXCEPT !.forceKeyFrame = FALSE,
                                       !.lib.intra = @ /\ r = "nothing"]
av1Encode(whole) == vpxEncode(whole)

\* ForceIntraFrame() stays in force in the library until a key frame is out.
h264Encode(whole) ==
  IF ~whole THEN encoded' = "nothing" /\ UNCHANGED encoder
  ELSE LET intra == encoder.forceKeyFrame \/ encoder.lib.intra
       IN  \E r \in Made(intra) :
             /\ encoded' = r
             /\ encoder' = [encoder EXCEPT !.forceKeyFrame = FALSE,
                                           !.lib.intra = intra /\ r = "nothing"]

encodePicture(whole) ==
  /\ encoder # NoCodec
  /\ CASE library = "vpx"  -> vpxEncode(whole)
       [] library = "av1"  -> av1Encode(whole)
       [] library = "h264" -> h264Encode(whole)
  /\ UNCHANGED <<library, factory, undelivered, arrived, picture>>

-----------------------------------------------------------------------------
\* decode() of packet number n: the planes are packed one after the other, under the
\* timestamp of the packet.
Packed(p, of, n) ==
  [of |-> of, as |-> n,
   filled |-> p.width * p.height + 2 * ((p.width \div 2) * (p.height \div 2)),
   size |-> (p.width * p.height * 3) \div 2]

\* libvpx and OpenH264 give one picture a call and forget the others.
vpxDecode(p, n) ==
  /\ picture' = IF p.pictures > 0 THEN Packed(p, n, n) ELSE NoPicture
  /\ UNCHANGED undelivered
h264Decode(p, n) == vpxDecode(p, n)

\* dav1d keeps the pictures of a packet that were not fetched, and takes no packet while
\* it has some: one is thrown away and the packet is offered again, or dropped.
av1DecodeUndrained(p, n) ==
  LET held == undelivered \o [i \in 1 .. p.pictures |-> n]
  IN  IF held = <<>> THEN picture' = NoPicture /\ UNCHANGED undelivered
      ELSE /\ picture' = IF p.usable THEN Packed(p, Head(held), n) ELSE NoPicture
           /\ undelivered' = Tail(held)
av1Decode(p, n) ==
  LET left == IF undelivered = <<>> THEN <<>> ELSE Tail(undelivered)
  IN  IF left # <<>> THEN picture' = NoPicture /\ undelivered' = left
      ELSE IF p.pictures = 0 THEN picture' = NoPicture /\ undelivered' = <<>>
      ELSE /\ picture' = IF p.usable THEN Packed(p, n, n) ELSE NoPicture
           /\ undelivered' = [i \in 1 .. p.pictures - 1 |-> n]

decodePacket(p) ==
  LET n == (arrived + 1) % 3
  IN  /\ arrived' = n
      /\ CASE library = "vpx"  -> vpxDecode(p, n)
           [] library = "av1"  -> av1Decode(p, n)
           [] library = "h264" -> h264Decode(p, n)
      /\ encoded' = "nothing"
      /\ UNCHANGED <<library, factory, encoder>>

requestKeyFrame == setVideoParameter("requestKeyFrame", 1, TRUE)

VideoControl ==
  \/ \E key \in {"setVideoParams", "setDefaultBitrate", "setDefaultSpeed", "requestKeyFrame"},
        v \in Bitrates \X Framerates \X Speeds : configureFactory(key, v)
  \/ \E b \in Bitrates, ok \in BOOLEAN : setVideoParameter("bitrate", b, ok)
  \/ \E f \in Framerates, ok \in BOOLEAN : setVideoParameter("framerate", f, ok)
  \/ \E s \in Speeds : setVideoParameter("speed", s, TRUE)
  \/ \E p \in Packets : decodePacket(p)

=============================================================================
