SPECIFICATION Spec
CONSTANTS
  Prompts = {"tax", "hi"}
  Like = {}
  SmallTalk = {"hi"}
  Nothing = Nothing
  MaxSends = 2
  MaxPieces = 1
  MaxCalls = 2
INVARIANTS
  TypeOK
  ButtonsUnderAnswers
  MarkedKeysKept
  MarkedFlagsHonoured
