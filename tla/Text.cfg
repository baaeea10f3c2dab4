SPECIFICATION Spec
CONSTANTS
  Tokens = {"what", "is", "s", "hi", "up", " ", "'", "%"}
  MaxTokens = 5
  Pieces <- MCPieces
  MaxPieces = 4
  Guide <- MCGuide
  Turns <- MCTurns
  Fits <- MCFits
INVARIANTS
  KeyIsCompact
  SavedKeyNotBlank
  QuestionMatchesTopic
  CasualNeverSaved
  ManualRepliesKept
  AnswerIsSentence
  LearnedShownUnchanged
  NoEchoedContext
  SettledAnswerStays
CHECK_DEADLOCK FALSE
