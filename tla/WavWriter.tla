------------------------------ MODULE WavWriter ------------------------------
(***************************************************************************)
(* WavWriter and the WavRecorderHandler around it                          *)
(* (dsp/wav_writer.hpp).  The stream buffers: what is written reaches the  *)
(* disk when the buffer is full or the stream is positioned, and may fail  *)
(* to.  A stream that has failed ignores everything after.  close() writes *)
(* the two sizes into the header, with a flush before, between and after;  *)
(* the process may end anywhere.                                           *)
(***************************************************************************)
EXTENDS WavFile

CONSTANTS FrameSizes    \* the sizes in bytes of the buffers that arrive

ASSUME FrameSizesAssumption == FrameSizes \subseteq Nat

VARIABLES
  direction,      \* _direction of the recorder
  w               \* the recorder's _writer with its stream

\* What the stream's buffer holds: the header, data, and a size field of close().
Closed == [bad |-> FALSE, dataBytes |-> 0, at |-> "closed", restart |-> FALSE,
           headerBuffered |-> FALSE, buffered |-> 0, field |-> "none"]

\* The chunk size is computed in 32 bits.
ChunkSize(n) == (HeaderRest + n) % (UINT32_MAX + 1)

\* The disk after the buffer has been written out, and what a failure may leave: the
\* start of what was buffered.
FieldWritten(d) ==
  CASE w.field = "chunkSize" -> [d EXCEPT !.chunkSize = ChunkSize(w.dataBytes)]
    [] w.field = "dataSize" -> [d EXCEPT !.dataSize = w.dataBytes]
    [] OTHER -> d

Landed(more) ==
  FieldWritten([disk EXCEPT !.header = @ \/ w.headerBuffered,
                            !.data = @ + w.buffered + more])

Torn(more) ==
  {disk} \cup {[disk EXCEPT !.header = @ \/ w.headerBuffered, !.data = @ + n] :
                 n \in 0 .. w.buffered + more}

\* A flush that succeeds, after which the writer is at the given place, or fails.
Flush(at, field) ==
  \/ disk' = Landed(0)
     /\ w' = [w EXCEPT !.headerBuffered = FALSE, !.buffered = 0, !.at = at, !.field = field]
  \/ disk' \in Torn(0)
     /\ w' = [w EXCEPT !.headerBuffered = FALSE, !.buffered = 0, !.at = at, !.field = "none",
                       !.bad = TRUE]

\* Positions the stream without writing out what was buffered before.
SeekOnly(at, field) ==
  /\ w' = [w EXCEPT !.at = at, !.field = field]
  /\ disk' = FieldWritten(disk)

-----------------------------------------------------------------------------
\* open(): truncates the file and buffers the header; or the file cannot be opened.
open ==
  \/ /\ disk' = NoFile
     /\ w' = [Closed EXCEPT !.at = "open", !.headerBuffered = TRUE]
  \/ /\ w' = Closed
     /\ UNCHANGED disk

\* write(): refuses half samples and more data than a size field can tell.
Fits(n) == n % SampleBytes = 0 /\ w.dataBytes + n <= UINT32_MAX

write(n) ==
  /\ w.at = "open" /\ ~w.bad /\ Fits(n)
  /\ \/ w' = [w EXCEPT !.dataBytes = @ + n, !.buffered = @ + n] /\ UNCHANGED disk
     \/ disk' = Landed(n)
        /\ w' = [w EXCEPT !.dataBytes = @ + n, !.headerBuffered = FALSE, !.buffered = 0]
     \/ disk' \in Torn(n)
        /\ w' = [w EXCEPT !.bad = TRUE, !.headerBuffered = FALSE, !.buffered = 0]
  /\ UNCHANGED direction

\* WavRecorderHandler::incoming() and outgoing(), for the direction that is recorded.
record(dir, n) ==
  /\ direction \in {dir, "BOTH"}
  /\ write(n)

\* close(): finalizeHeader() seeks to each size field, which writes out what is
\* buffered, and writes the size; on a failed stream nothing happens.
beginClose(restart) ==
  /\ w.at = "open"
  /\ w' = [w EXCEPT !.at = "chunkSize", !.restart = restart]
  /\ UNCHANGED <<disk, direction>>

seekUnflushed(from, to, field) ==
  /\ w.at = from
  /\ SeekOnly(to, field)
  /\ UNCHANGED direction

seek(from, to, field) ==
  /\ w.at = from
  /\ IF w.bad THEN w' = [w EXCEPT !.at = to] /\ UNCHANGED disk ELSE Flush(to, field)
  /\ UNCHANGED direction

finalizeDataSizeOnly ==
  \/ seek("chunkSize", "dataSize", "none")
  \/ seek("dataSize", "end", "dataSize")
  \/ seek("end", "done", "none")

finalizeHeader ==
  \/ seek("chunkSize", "dataSize", "chunkSize")
  \/ seek("dataSize", "end", "dataSize")
  \/ seek("end", "done", "none")

\* The stream is closed; a restarted recording begins with a fresh WavWriter.
endClose ==
  /\ w.at = "done"
  /\ IF w.restart THEN open
     ELSE w' = [w EXCEPT !.at = "closed"] /\ UNCHANGED disk
  /\ UNCHANGED direction

\* startRecording() and stopRecording().
startRecording ==
  \/ w.at = "closed" /\ open /\ UNCHANGED direction
  \/ beginClose(TRUE)
stopRecording == beginClose(FALSE)

\* The process ends: what is buffered is lost, the file stays.
crash ==
  /\ w.at # "closed"
  /\ w' = Closed
  /\ UNCHANGED <<disk, direction>>

WriterInit ==
  /\ disk \in {NoFile} \cup Foreign
  /\ direction \in {"INCOMING", "OUTGOING", "BOTH"}
  /\ w = Closed

WriterNext ==
  \/ startRecording \/ stopRecording
  \/ \E dir \in {"INCOMING", "OUTGOING"}, n \in FrameSizes : record(dir, n)
  \/ finalizeHeader \/ endClose \/ crash

=============================================================================
