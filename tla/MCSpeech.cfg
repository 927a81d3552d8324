SPECIFICATION FairSpec
CONSTANTS
  r1 = r1
  r2 = r2
  Replies = {r1, r2}
  None = None
  Chunks = 3
  RequiredVoice = 2
  MaxChars = 3
  FirstChars = 2
  MinFirst = 1
  MinPiece = 1
  TriggerWords <- MCTriggerWords
  OnPhrases <- MCOnPhrases
  Aliases <- MCAliases
  Residues <- MCResidues
INVARIANTS OneLateChunk WhatIsHeard WordsSurvive
PROPERTY RepliesEnd
CHECK_DEADLOCK FALSE
