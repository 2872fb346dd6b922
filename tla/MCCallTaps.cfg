SPECIFICATION TapsSpec
CONSTANTS
  MaxLevel = 4
  NoBuffer = NoBuffer
  Gains <- MCGains
  SilenceCap = 2
  hangoverFrames = 1
  silenceThresholdRms = 2
  Mode = "DROP_SILENT"
  sampleRate = 2000
  energyThreshold = 2
  normalTwist = 1
  reverseTwist = 2
  minDurationMs = 3
  MaxHeldMs = 4
  Frames <- MCFrames
  Dials <- MCDials
  FrameSamples = 4
INVARIANTS TalkspurtsAreMarked ReportedIffSteady DialledIsHeard
