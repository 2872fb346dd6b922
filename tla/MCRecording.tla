----------------------------- MODULE MCRecording -----------------------------
\* An instance of Recording for TLC: size fields up to 15, so that the RIFF size wraps;
\* stereo frames of 4 bytes, written in buffers of 2, 3 and 4.
EXTENDS Recording

fmt(n) == [id |-> "fmt", size |-> n, valid |-> TRUE]
data == [id |-> "data", size |-> 4, valid |-> TRUE]
other(n) == [id |-> "other", size |-> n, valid |-> TRUE]

MCLayouts == {<<fmt(18), other(3), data>>, <<other(2), fmt(16), data>>,
              <<data, fmt(16)>>, <<[fmt(16) EXCEPT !.valid = FALSE], data>>,
              <<fmt(14), data>>, <<other(1)>>}
=============================================================================
