SPECIFICATION CaptureSpec
CONSTANTS
  MaxTurns = 2
  FinalSilence = 2
  TurnBound = 3
  ModeBound = 2
  StartChunks = 2
  EndChunks = 1
  PreRoll = 3
  MinUtterance = 3
  MaxUtterance = 7
  ReplayBound = 4
  ChunkSamples = 2
  QueueChunks = 2
  StartRetries = 1
  RingSamples = 4
  GateFrame = 2
  MinPeak = 2
  MinRms = 1
  MinActive = 3
  ActiveRms = 1
  SpotBuffer = 6
  SpotInterval = 1
  DecoderFrame = 2
INVARIANTS CaptureSound AudioSound
CHECK_DEADLOCK FALSE
