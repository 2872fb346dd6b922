---------------------------- MODULE MCStageMetrics ----------------------------
\* An instance of StageMetrics for TLC.
EXTENDS StageMetrics, TLC

Symmetry == Permutations(Threads)

=============================================================================
