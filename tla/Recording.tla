------------------------------ MODULE Recording ------------------------------
(***************************************************************************)
(* A call is recorded, the recording is stopped, restarted or cut off by   *)
(* the end of the process, and the file is played back.                    *)
(***************************************************************************)
EXTENDS WavWriter, WavReader

VARIABLES
  sealed          \* history: the size of the data when the last close() went well

writerVars == <<direction, w>>
vars == <<disk, writerVars, r, sealed>>

Init == WriterInit /\ ReaderInit /\ sealed = -1

\* One party at a time has the file open.
WritersStep ==
  /\ ~r.open /\ WriterNext
  /\ sealed' = IF w.at = "done" /\ ~w.bad /\ w'.at = "closed" THEN w.dataBytes
               ELSE IF disk' = disk THEN sealed ELSE -1
  /\ r' = [r EXCEPT !.refused = FALSE]

ReadersStep == w.at = "closed" /\ ReaderNext /\ UNCHANGED <<writerVars, sealed>>

Next == WritersStep \/ ReadersStep

Spec == Init /\ [][Next]_vars

-----------------------------------------------------------------------------
\* The size in the header never runs ahead of the data: whenever the process ends, or
\* whichever write fails, it is the placeholder or exactly the length of the data on
\* disk; and the RIFF size, computed in 32 bits, is the placeholder or that of data all of
\* which is there.
SizeNeverAhead ==
  disk.header =>
    /\ disk.dataSize # UINT32_MAX => disk.dataSize = disk.data
    /\ disk.chunkSize # UINT32_MAX => disk.chunkSize = ChunkSize(disk.data)

\* A recording closed without a failure holds every byte that was accepted, whole
\* samples of it.  The data size says so, and so does the RIFF size as long as data and
\* header together fit its 32 bits (RiffSizeCoversFile is about the rest).
SealedFileIsComplete ==
  sealed >= 0 =>
    /\ disk.header /\ disk.data = sealed /\ sealed % SampleBytes = 0
    /\ disk.dataSize = sealed
    /\ HeaderRest + sealed <= UINT32_MAX => disk.chunkSize = HeaderRest + sealed

\* A file whose chunks are in order is opened, whatever other chunks it has and however
\* long the format is.
InOrder(l) ==
  \E i, j \in DOMAIN l :
    /\ i < j /\ l[i].id = "fmt" /\ l[i].valid /\ l[i].size >= 16 /\ l[i].size % 2 = 0
    /\ l[j].id = "data"
    /\ \A k \in DOMAIN l \ {i, j} : l[k].id = "other"

WellFormedFileOpens == r.refused => ~InOrder(disk.layout)

\* The reader counts samples where its stream is, unless a seek told that it failed:
\* nothing is delivered twice or skipped.
ReaderInStep ==
  r.open /\ ~r.astray => r.position >= 0 /\ r.position \div FrameBytes = r.samplesRead

\* The end is reported only when no whole sample is left, whether the sizes are exact,
\* placeholders or those of a recording that was cut off.
EndMeansNothingLeft ==
  r.open /\ r.ended /\ ~r.astray => r.position + FrameBytes > disk.data

\* Documented, but not what the code does.

\* "ChunkSize: 36 + DataSize": the RIFF size of a closed recording, of whatever length
\* write() has accepted, covers the file.
RiffSizeCoversFile == sealed >= 0 => disk.chunkSize = HeaderRest + sealed

=============================================================================
