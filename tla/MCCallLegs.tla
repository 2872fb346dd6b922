----------------------------- MODULE MCCallLegs -----------------------------
\* An instance of CallLegs for TLC.
EXTENDS CallLegs

MCPackets == {[pictures |-> 0, usable |-> TRUE, width |-> 2, height |-> 2],
              [pictures |-> 1, usable |-> TRUE, width |-> 3, height |-> 3],
              [pictures |-> 1, usable |-> FALSE, width |-> 2, height |-> 2],
              [pictures |-> 3, usable |-> TRUE, width |-> 2, height |-> 2]}
MCDefaults == <<1000, 15, 6>>
MCArguments == {2, 20}
MCValues == {0, 1, 8, 20, 30, 48000}
MCSamples == 0 .. 255
=============================================================================
