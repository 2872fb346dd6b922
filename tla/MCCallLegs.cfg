SPECIFICATION LegsSpec
CONSTANTS
  Legs = {"video", "transcoding", "samples", "clock"}
  Libraries = {"vpx", "av1", "h264"}
  Bitrates = {1000, 2500}
  Framerates = {15, 30}
  Speeds = {6, 99}
  ValidSpeeds = {6}
  LibrarySpeed = 0
  InitialDefaults <- MCDefaults
  Packets <- MCPackets
  NoCodec = NoCodec
  CodecNames = {"PCMU", "PCMA", "G722", "AMR", "AMR-WB", "iLBC", "G729", "opus"}
  OpusKeys = {"bitrate", "dtx"}
  OpusValues = {0, 1}
  Arguments <- MCArguments
  Values <- MCValues
  Nothing = Nothing
  FrameMs = {10, 20, 30, 40}
  Samples <- MCSamples
  Wrap = 4
  Rates = {1, 2}
  BaseTimestamps = {0, 3}
  Second = 2
  targetRate = 2
  maxSamplesPerFrame = 4
  Parts = 100
  driftThreshold = 1
  FrameSizes = {2, 4}
  Scale = 12
  MaxTime = 6
  MaxDrift = 60
  NoClock = NoClock
INVARIANTS KeyFrameFollowsRequest ReportedIsInForce PictureOfThisPacket FrameDurationKept
  TandemSettles NoDriftNoCompensation
