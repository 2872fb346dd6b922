----------------------------- MODULE SampleFormat -----------------------------
(***************************************************************************)
(* Sample conversion (format/sample_format.hpp).  A sample is an integer;  *)
(* an F32 sample is the numerator of a fraction of 32768.                  *)
(***************************************************************************)
EXTENDS Integers

CONSTANT Samples          \* the bytes a sample comes from

VARIABLE sample           \* its format and value

\* The quotient that C++ computes.
Quotient(a, b) == IF a >= 0 THEN a \div b ELSE -((-a) \div b)

\* The decode tables by their rule; the bits of a mu-law byte are inverted, and of an
\* A-law byte every other one.
kMulawToS16(b) ==
  LET u == 255 - b
      magnitude == (((u % 16) * 8 + 132) * 2 ^ ((u % 128) \div 16)) - 132
  IN  IF u >= 128 THEN -magnitude ELSE magnitude

\* b XOR 0x55: every other bit is inverted.
Toggled(b) ==
  LET bit(i) == (b \div 2 ^ i) % 2
  IN  b + (1 - 2 * bit(0)) + 4 * (1 - 2 * bit(2)) + 16 * (1 - 2 * bit(4)) + 64 * (1 - 2 * bit(6))

kAlawToS16(b) ==
  LET a == Toggled(b)
      seg == (a % 128) \div 16
      magnitude == IF seg = 0 THEN (a % 16) * 16 + 8
                   ELSE ((a % 16) * 16 + 264) * 2 ^ (seg - 1)
  IN  IF a >= 128 THEN magnitude ELSE -magnitude

\* s16ToMulaw(): the segment is that of the magnitude above the bias.
Exponent(m) == CHOOSE e \in 0 .. 7 : m < 2 ^ (e + 8) /\ (e = 0 \/ m >= 2 ^ (e + 7))

s16ToMulawUnbiased(x) ==
  LET m == IF x < 0 THEN -x ELSE x
      e == Exponent(m)
  IN  255 - ((IF x < 0 THEN 128 ELSE 0) + 16 * e + ((m \div 2 ^ (e + 3)) % 16))
s16ToMulaw(x) ==
  LET clipped == IF x < 0 THEN (IF -x > 32635 THEN 32635 ELSE -x)
                 ELSE IF x > 32635 THEN 32635 ELSE x
      m == clipped + 132
      e == Exponent(m)
  IN  255 - ((IF x < 0 THEN 128 ELSE 0) + 16 * e + ((m \div 2 ^ (e + 3)) % 16))

\* s16ToAlaw(): 13 bits by a division that rounds toward zero, so that the negative
\* samples that are not multiples of 8 fall one step short.
s16ToAlaw(x) ==
  LET p == Quotient(x, 8)
      magnitude == IF p >= 0 THEN p ELSE -p - 1
      seg == CHOOSE s \in 0 .. 7 : /\ magnitude < 2 ^ (s + 5)
                                   /\ s = 0 \/ magnitude >= 2 ^ (s + 4)
      aval == 16 * seg + ((magnitude \div 2 ^ (IF seg < 2 THEN 1 ELSE seg)) % 16)
  IN  Toggled(aval) + (IF p >= 0 THEN 128 ELSE 0)

\* convertSamples() throws for the pairs that are left out.
converted(src, dst, x) ==
  CASE <<src, dst>> = <<"S16", "F32">>   -> x
    [] <<src, dst>> = <<"F32", "S16">>   -> Quotient(x * 32767, 32768)
    [] <<src, dst>> = <<"S16", "S32">>   -> x * 65536
    [] <<src, dst>> = <<"S32", "S16">>   -> x \div 65536
    [] <<src, dst>> = <<"U8", "S16">>    -> (x - 128) * 256
    [] <<src, dst>> = <<"S16", "U8">>    -> (x \div 256) + 128
    [] <<src, dst>> = <<"Mulaw", "S16">> -> kMulawToS16(x)
    [] <<src, dst>> = <<"S16", "Mulaw">> -> s16ToMulaw(x)
    [] <<src, dst>> = <<"Alaw", "S16">>  -> kAlawToS16(x)
    [] <<src, dst>> = <<"S16", "Alaw">>  -> s16ToAlaw(x)

Formats == {"S16", "S32", "F32", "U8", "Mulaw", "Alaw"}

SampleInit == sample \in [fmt : {"Mulaw", "Alaw"}, value : Samples]

convertSamples(dst) ==
  /\ sample.fmt # dst /\ "S16" \in {sample.fmt, dst}
  /\ sample' = [fmt |-> dst, value |-> converted(sample.fmt, dst, sample.value)]

=============================================================================
