-------------------------- MODULE MCAudioMixerHandler --------------------------
\* An instance of AudioMixerHandler for TLC.
EXTENDS AudioMixerHandler, TLC

\* Frames: loud and cut to 20 ms, quieter and short, and a lone byte without a sample;
\* participants who take part fully or only talk; each filter on and off.
MCKinds == {[len |-> 3, level |-> 2], [len |-> 1, level |-> 1], [len |-> 0, level |-> 0]}
MCRoles == {[output |-> TRUE, decoder |-> TRUE], [output |-> FALSE, decoder |-> FALSE]}
MCParamChoices == [enableVad : BOOLEAN, maxActiveSpeakers : {0, 1}]

Symmetry == Permutations(Participants)

=============================================================================
