SPECIFICATION Spec
CONSTANTS
  Layouts <- MCLayouts
  UINT32_MAX = 15
  HeaderRest = 6
  SampleBytes = 2
  FrameBytes = 4
  FrameSizes = {2, 3, 4}
  ReadSizes = {1, 3}
INVARIANTS SizeNeverAhead SealedFileIsComplete WellFormedFileOpens ReaderInStep EndMeansNothingLeft
