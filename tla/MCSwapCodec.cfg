\* One media thread against swapCodec.
SPECIFICATION Spec
CONSTANTS
  Callers = {c1}
  CounterMod = 4
  MaxPolls = 1
  MaxSwaps = 1
PROPERTY
  FrameUsesOneCodecPair
