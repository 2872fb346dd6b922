--------------------------- MODULE MCMediaPipeline ---------------------------
(***************************************************************************)
(* Small instances of MediaPipeline: a counter that wraps at 4, as many    *)
(* callers and swaps as the configuration says.                            *)
(***************************************************************************)
EXTENDS MediaPipeline
=============================================================================
