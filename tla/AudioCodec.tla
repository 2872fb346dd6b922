------------------------------ MODULE AudioCodec ------------------------------
(***************************************************************************)
(* The audio plugins: G711Codec, G722Codec, AmrNbCodec, AmrWbCodec,        *)
(* IlbcCodec, G729Codec and OpusCodec, mono.  A frame or packet is the     *)
(* number of samples in it; what a codec library keeps is external: "lib"  *)
(* holds the parameters the library has in force, "own" those the codec    *)
(* object has stored.                                                      *)
(***************************************************************************)
EXTENDS Integers, FiniteSetsExt

CONSTANTS
  CodecNames,           \* of "PCMU", "PCMA", "G722", "AMR", "AMR-WB", "iLBC", "G729", "opus"
  OpusKeys, OpusValues, \* the controls of the Opus encoder, the values it may accept
  Arguments,            \* what is given to setDefaultMode() and its like
  Values,               \* what is given to setParameter()
  Nothing               \* a null pointer

ASSUME AudioAssumption ==
  /\ CodecNames \subseteq {"PCMU", "PCMA", "G722", "AMR", "AMR-WB", "iLBC", "G729", "opus"}
  /\ Arguments \cup Values \cup OpusValues \subseteq Nat /\ Nothing \notin Nat

\* CodecInfo::clockRate, and the rate of the samples: they differ for G.722.
clockRate(name) == CASE name = "opus" -> 48000 [] name = "AMR-WB" -> 16000 [] OTHER -> 8000
audioRate(name) == IF name = "G722" THEN 16000 ELSE clockRate(name)

Codec(name, mode, own, lib) == [name |-> name, mode |-> mode, own |-> own, lib |-> lib]
NoParameters == [key \in {} |-> 0]

-----------------------------------------------------------------------------
\* What the factories make of the default they were given last.
g711Create(name, mode) == {Codec(name, mode, NoParameters, NoParameters)}

g722SetDefaultMode(arg) == CASE arg = 1 -> 48000 [] arg = 2 -> 56000 [] OTHER -> 64000
g722Create(mode, arg) ==
  LET rate == [mode |-> g722SetDefaultMode(arg)] IN {Codec("G722", mode, rate, rate)}

amrNbSetDefaultMode(arg) == IF arg <= 7 THEN arg ELSE 7
amrNbCreate(mode, arg) ==
  {Codec("AMR", mode,
         [bitrateMode |-> IF mode = "encoder" THEN amrNbSetDefaultMode(arg) ELSE 7, dtx |-> dtx],
         [dtx |-> dtx]) : dtx \in IF mode = "encoder" THEN {0, 1} ELSE {0}}

amrWbSetDefaultMode(arg) == IF arg <= 8 THEN arg ELSE 8
amrWbCreate(mode, arg) ==
  {Codec("AMR-WB", mode,
         [bitrateMode |-> IF mode = "encoder" THEN amrWbSetDefaultMode(arg) ELSE 8, dtx |-> dtx],
         NoParameters) : dtx \in IF mode = "encoder" THEN {0, 1} ELSE {0}}

ilbcSetDefaultFrameMode(arg) == IF arg = 20 THEN 20 ELSE 30
ilbcCreate(mode, arg) ==
  LET len == [frameMode |-> ilbcSetDefaultFrameMode(arg)] IN {Codec("iLBC", mode, len, len)}

g729Create(mode) == {Codec("G729", mode, NoParameters, NoParameters)}

\* The Opus factory sets its defaults as parameters and takes any answer.
opusCreate(mode) ==
  {Codec("opus", mode, NoParameters, lib) :
     lib \in IF mode = "encoder" THEN [OpusKeys -> OpusValues] ELSE {NoParameters}}

create(name, mode, arg) ==
  CASE name \in {"PCMU", "PCMA"} -> g711Create(name, mode)
    [] name = "G722"   -> g722Create(mode, arg)
    [] name = "AMR"    -> amrNbCreate(mode, arg)
    [] name = "AMR-WB" -> amrWbCreate(mode, arg)
    [] name = "iLBC"   -> ilbcCreate(mode, arg)
    [] name = "G729"   -> g729Create(mode)
    [] name = "opus"   -> opusCreate(mode)

-----------------------------------------------------------------------------
\* setParameter(): the codec afterwards; ok is the answer of the library.
g722SetParameter(c, key, v, ok) ==
  IF c.mode = "encoder" /\ key = "mode" /\ v \in {48000, 56000, 64000} /\ ok
  THEN [c EXCEPT !.own.mode = v, !.lib.mode = v] ELSE c

amrNbSetParameter(c, key, v, ok) ==
  LET dtx == IF v = 0 THEN 0 ELSE 1
  IN  CASE c.mode = "encoder" /\ key = "bitrateMode" /\ v <= 7 -> [c EXCEPT !.own.bitrateMode = v]
        [] c.mode = "encoder" /\ key = "dtx" /\ (dtx = c.own.dtx \/ ok) ->
             [c EXCEPT !.own.dtx = dtx, !.lib.dtx = dtx]
        [] OTHER -> c

amrWbSetParameter(c, key, v) ==
  CASE c.mode = "encoder" /\ key = "bitrateMode" /\ v <= 8 -> [c EXCEPT !.own.bitrateMode = v]
    [] c.mode = "encoder" /\ key = "dtx" -> [c EXCEPT !.own.dtx = IF v = 0 THEN 0 ELSE 1]
    [] OTHER -> c

ilbcSetParameter(c, key, v, ok) ==
  IF key = "frameMode" /\ v \in {20, 30} /\ ok
  THEN [c EXCEPT !.own.frameMode = v, !.lib.frameMode = v] ELSE c

opusSetParameter(c, key, v, ok) ==
  IF c.mode = "encoder" /\ key \in OpusKeys /\ v \in OpusValues /\ ok
  THEN [c EXCEPT !.lib[key] = v] ELSE c

withParameter(c, key, v, ok) ==
  CASE c.name = "G722"   -> g722SetParameter(c, key, v, ok)
    [] c.name = "AMR"    -> amrNbSetParameter(c, key, v, ok)
    [] c.name = "AMR-WB" -> amrWbSetParameter(c, key, v)
    [] c.name = "iLBC"   -> ilbcSetParameter(c, key, v, ok)
    [] c.name = "opus"   -> opusSetParameter(c, key, v, ok)
    [] OTHER             -> c

\* getParameter(): the Opus codec asks its encoder, the others tell what they stored.
opusGetParameter(c, key) == IF key \in DOMAIN c.lib THEN c.lib[key] ELSE 0
g722GetParameter(c, key) == IF key = "mode" THEN c.own.mode ELSE 0
amrNbGetParameter(c, key) == IF key \in {"bitrateMode", "dtx"} THEN c.own[key] ELSE 0
amrWbGetParameter(c, key) == amrNbGetParameter(c, key)
ilbcGetParameter(c, key) == IF key = "frameMode" THEN c.own.frameMode ELSE 0

getParameter(c, key) ==
  CASE c.name = "opus" -> opusGetParameter(c, key)
    [] c.name = "G722" -> g722GetParameter(c, key)
    [] c.name = "AMR"  -> amrNbGetParameter(c, key)
    [] c.name = "AMR-WB" -> amrWbGetParameter(c, key)
    [] c.name = "iLBC" -> ilbcGetParameter(c, key)
    [] OTHER -> 0

-----------------------------------------------------------------------------
\* encode(): how many samples of a frame of n are in the packet.
g711Encode(n) == n
g722Encode(n) == IF n > 0 THEN n ELSE Nothing
amrNbEncode(n) == IF n >= 160 THEN 160 ELSE Nothing
amrWbEncode(n) == IF n >= 320 THEN 320 ELSE Nothing
g729Encode(n) == IF n >= 160 THEN 160 ELSE Nothing
ilbcEncode(c, n) ==
  IF n \in {k * 8 * c.lib.frameMode : k \in 1 .. 3} THEN n ELSE Nothing
opusEncode(n) ==
  IF n \in {120, 240, 480, 960, 1920, 2880, 3840, 4800, 5760} THEN n ELSE Nothing

encode(c, n) ==
  CASE c.name \in {"PCMU", "PCMA"} -> g711Encode(n)
    [] c.name = "G722"   -> g722Encode(n)
    [] c.name = "AMR"    -> amrNbEncode(n)
    [] c.name = "AMR-WB" -> amrWbEncode(n)
    [] c.name = "G729"   -> g729Encode(n)
    [] c.name = "iLBC"   -> ilbcEncode(c, n)
    [] c.name = "opus"   -> opusEncode(n)

\* decode() of a packet of n samples that the library can read or cannot.
g711Decode(n) == n
g722Decode(n) == IF n > 0 THEN n ELSE Nothing
amrNbDecode(n) == 160
amrWbDecode(n) == 320
g729Decode(n) == IF n >= 160 THEN 160 ELSE Nothing
ilbcDecode(c, n, readable) ==
  IF readable /\ n \in {k * 8 * c.lib.frameMode : k \in 1 .. 3} THEN n ELSE Nothing
opusDecode(n, readable) == IF readable /\ n <= 960 THEN n ELSE Nothing

decode(c, n, readable) ==
  CASE c.name \in {"PCMU", "PCMA"} -> g711Decode(n)
    [] c.name = "G722"   -> g722Decode(n)
    [] c.name = "AMR"    -> amrNbDecode(n)
    [] c.name = "AMR-WB" -> amrWbDecode(n)
    [] c.name = "G729"   -> g729Decode(n)
    [] c.name = "iLBC"   -> ilbcDecode(c, n, readable)
    [] c.name = "opus"   -> opusDecode(n, readable)

\* plc(): asked for n samples, the codecs with frames of their own give those.
g711Plc(n) == n
g722Plc(n) == n
amrNbPlc(n) == 160
amrWbPlc(n) == 320
g729Plc(n) == 80 * Max({1, Min({n \div 80, 2})})
ilbcPlc(c, n) == 8 * c.own.frameMode
opusPlc(n) == n

plc(c, n) ==
  CASE c.name \in {"PCMU", "PCMA"} -> g711Plc(n)
    [] c.name = "G722"   -> g722Plc(n)
    [] c.name = "AMR"    -> amrNbPlc(n)
    [] c.name = "AMR-WB" -> amrWbPlc(n)
    [] c.name = "G729"   -> g729Plc(n)
    [] c.name = "iLBC"   -> ilbcPlc(c, n)
    [] c.name = "opus"   -> opusPlc(n)

=============================================================================
