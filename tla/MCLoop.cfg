SPECIFICATION FairSpec
CONSTANTS
  MaxTurns = 1
  FinalSilence = 1
  TurnBound = 2
  ModeBound = 2
INVARIANTS ResumedNeverActs SpeculationSound
PROPERTY LoopDrains
CHECK_DEADLOCK FALSE
