SPECIFICATION Spec
CONSTANTS
  t1 = t1
  t2 = t2
  Turns = {t1, t2}
  Texts <- MCTexts
  Old <- Resumed
  Candidates <- MCCandidates
  Returns <- MCReturns
  Faults = {t2}
  Cycles <- MCCycles
  Attempts <- MCAttempts
INVARIANTS ContextExact TurnsSound  ResultsSound
CHECK_DEADLOCK FALSE
