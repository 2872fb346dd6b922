------------------------------ MODULE WavReader ------------------------------
(***************************************************************************)
(* WavReader (dsp/wav_reader.hpp) on a file nobody is writing.  Its header *)
(* may carry placeholder sizes, its data may end anywhere.  A read that is *)
(* cut short leaves the stream failed, and a failed stream neither reads   *)
(* nor seeks.                                                              *)
(***************************************************************************)
EXTENDS WavFile, FiniteSetsExt

CONSTANTS ReadSizes     \* samples asked for at a time; read() returns at once for 0

ASSUME ReadSizesAssumption == ReadSizes \subseteq Nat \ {0}

VARIABLES r             \* the reader with its stream

NotOpen == [open |-> FALSE, failed |-> FALSE, totalSamples |-> 0, samplesRead |-> 0,
            position |-> 0, ended |-> FALSE, astray |-> FALSE, refused |-> FALSE]

\* What parseHeader() passes over after the name and the size of a chunk: the rest of the
\* format, other chunks with the byte they are padded with, nothing of the data.
SkippedUnpadded(c) == IF c.id = "data" THEN 0 ELSE c.size
Skipped(c) == CASE c.id = "data" -> 0
                [] c.id = "fmt" -> c.size
                [] c.id = "other" -> c.size + (c.size % 2)

\* It walks until it has seen the format and the data: x.at is where it stands and x.there
\* where the next chunk is.  Where it stands elsewhere, what it reads is no chunk.
Parsed(x, c) ==
  IF x.fmt /\ x.data >= 0 THEN x
  ELSE [at |-> x.at + 8 + Skipped(c), there |-> x.there + 8 + c.size + (c.size % 2),
        bad |-> x.bad \/ x.at # x.there \/ (c.id = "fmt" /\ (c.size < 16 \/ ~c.valid)),
        fmt |-> x.fmt \/ c.id = "fmt",
        data |-> IF c.id = "data" THEN x.at + 8 ELSE x.data]

Start == [at |-> 0, there |-> 0, fmt |-> FALSE, data |-> -1, bad |-> FALSE]

Walk(l) ==
  LET past[n \in 0 .. Len(l)] == IF n = 0 THEN Start ELSE Parsed(past[n - 1], l[n])
  IN  past

parseHeader(l) == Walk(l)[Len(l)]

\* open(): believes the size of the data chunk, and ignores that of the RIFF chunk.
Opened(p, size) ==
  IF p.fmt /\ p.data >= 0 /\ ~p.bad
  THEN [NotOpen EXCEPT !.open = TRUE, !.totalSamples = size \div FrameBytes,
                       !.position = p.at - p.data]
  ELSE [NotOpen EXCEPT !.refused = TRUE]

openReaderByRiff ==
  /\ ~r.open /\ disk.header
  /\ r' = Opened(parseHeader(disk.layout), Min({disk.dataSize, disk.chunkSize}))
  /\ UNCHANGED disk

openReader ==
  /\ ~r.open /\ disk.header
  /\ r' = Opened(parseHeader(disk.layout), disk.dataSize)
  /\ UNCHANGED disk

closeReader ==
  /\ r.open
  /\ r' = NotOpen
  /\ UNCHANGED disk

\* read() of so many samples, in a reader x: never beyond totalSamples; a short read
\* fails the stream, an empty one is the end.
Remaining(x) == IF x.samplesRead >= x.totalSamples THEN 0 ELSE x.totalSamples - x.samplesRead

AfterReadUncounted(x, samples) ==
  LET wanted == Min({samples, Remaining(x)}) * FrameBytes
      there == IF x.failed THEN 0 ELSE Max({0, Min({wanted, disk.data - x.position})})
  IN  [x EXCEPT !.position = @ + there,
                !.samplesRead = @ + wanted \div FrameBytes,
                !.failed = @ \/ there < wanted,
                !.ended = there = 0]

AfterRead(x, samples) ==
  LET wanted == Min({samples, Remaining(x)}) * FrameBytes
      there == IF x.failed THEN 0 ELSE Max({0, Min({wanted, disk.data - x.position})})
  IN  [x EXCEPT !.position = @ + there,
                !.samplesRead = @ + there \div FrameBytes,
                !.failed = @ \/ there < wanted,
                !.ended = there = 0]

read(samples) ==
  /\ r.open
  /\ r' = AfterRead(r, samples)
  /\ UNCHANGED disk

\* seek() counts from the new place even if the stream could not be positioned, which
\* its result tells; readAll() does the same and asks for everything.
Sought(x, sample) ==
  [x EXCEPT !.position = IF x.failed THEN @ ELSE sample * FrameBytes,
            !.samplesRead = sample, !.ended = FALSE, !.astray = x.failed]

seekReader(sample) ==
  /\ r.open /\ sample <= r.totalSamples
  /\ r' = Sought(r, sample)
  /\ UNCHANGED disk

readAll ==
  /\ r.open
  /\ r' = AfterRead(Sought(r, 0), r.totalSamples)
  /\ UNCHANGED disk

ReaderInit == r = NotOpen

ReaderNext ==
  \/ openReader \/ closeReader \/ readAll
  \/ \E n \in ReadSizes : read(n)
  \/ \E s \in 0 .. UINT32_MAX : seekReader(s)

=============================================================================
