--------------------------- MODULE MCCodecRegistry ---------------------------
(***************************************************************************)
(* Instances of CodecRegistry for TLC: all nine plugins of the repository, *)
(* or one that registers two factories and one that registers one.         *)
(***************************************************************************)
EXTENDS CodecRegistry

Repository == INSTANCE CodecCatalog
AllInfos == Repository!Catalog
AllModules == Repository!CodecPlugins

TwoInfos == [n \in {"PCMU", "PCMA", "opus"} |-> AllInfos[n]]
TwoModules == [p \in {"g711", "opus"} |-> AllModules[p]]

\* A codec asked for at its own clock rate and at another.
SomeRequests == [name : {"PCMA"}, clockRate : {8000, 16000}, channels : {1}]

=============================================================================
