--------------------------- MODULE MCPipelineGraph ---------------------------
\* Instances of PipelineGraph for TLC.
EXTENDS PipelineGraph, TLC

\* Declared formats: S16 at 8 kHz, or F32 at 8 kHz in stereo.
plain == NoFormat
mono   == [NoFormat EXCEPT !["fmt"] = "S16", !["resampler"] = 8000, !["chmix"] = 1]
stereo == [NoFormat EXCEPT !["fmt"] = "F32", !["resampler"] = 8000, !["chmix"] = 2]
floats == [NoFormat EXCEPT !["fmt"] = "F32"]

\* A source of either kind and a destination of the other.
OneConversion == {[input |-> plain, output |-> mono], [input |-> floats, output |-> plain]}
TwoConversions == {[input |-> plain, output |-> mono], [input |-> floats, output |-> plain],
                   [input |-> stereo, output |-> plain]}

Symmetry == Permutations(Users)

=============================================================================
