------------------------------- MODULE WavFile -------------------------------
(***************************************************************************)
(* A WAV file as the library's writer and reader see it: a header of 44    *)
(* bytes with two size fields, and the data behind it.  Data is only ever  *)
(* appended, so its length says which bytes are there.                     *)
(***************************************************************************)
EXTENDS Integers, Sequences

CONSTANTS
  UINT32_MAX,     \* largest value of a size field; the placeholder of an open file
  HeaderRest,     \* bytes of the header that the RIFF chunk size counts, 36
  SampleBytes,    \* bytes of a sample, 2
  FrameBytes      \* bytes of a sample of all channels

ASSUME FileAssumption ==
  /\ UINT32_MAX \in Nat /\ HeaderRest \in 0 .. UINT32_MAX /\ SampleBytes \in Nat \ {0}
  /\ FrameBytes \in {SampleBytes * channels : channels \in 1 .. UINT32_MAX}
  /\ UINT32_MAX % SampleBytes # 0
  /\ HeaderRest + 2 * FrameBytes <= UINT32_MAX

CONSTANT Layouts  \* the sequences of chunks of files that come from elsewhere

VARIABLE disk     \* what has reached the file

\* A chunk of the file: its name, the size it declares, and for the format whether it is
\* PCM of 8, 16 or 24 bits.
Chunk == [id : {"fmt", "data", "other"}, size : Nat, valid : BOOLEAN]
Recorded == <<[id |-> "fmt", size |-> 16, valid |-> TRUE],
              [id |-> "data", size |-> 0, valid |-> TRUE]>>

\* The files that come from elsewhere hold data, and their chunks say so.
ASSUME LayoutAssumption ==
  /\ Layouts \subseteq Seq(Chunk)
  /\ \A l \in Layouts : \A i \in DOMAIN l : l[i].id = "data" => l[i].size > 0

\* No file, or one whose header has not reached the disk, cannot be told apart here.
NoFile == [header |-> FALSE, chunkSize |-> UINT32_MAX, dataSize |-> UINT32_MAX, data |-> 0,
           layout |-> Recorded]

\* A file of another program, whose sizes are right.
Foreign == {[header |-> TRUE, chunkSize |-> HeaderRest + n, dataSize |-> n, data |-> n,
             layout |-> l] : n \in {FrameBytes, 2 * FrameBytes}, l \in Layouts}

=============================================================================
