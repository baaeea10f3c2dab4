SPECIFICATION FairSpec
CONSTANTS
  Space = " "
  Mark = "G"
  CR = "r"
  Letters = {"a", "b", "G"}
  MaxLen = 5
  Prompts <- MCPrompts
  NoPrompt <- MCNoPrompt
  Encoding <- MCEncoding
  VocabSize = 4
  Eos = 2
  Window = 3
  MaxNew = 4
  NaN = NaN
  Levels <- MCLevels
  Floor <- MCFloor
INVARIANTS
  TypeOK
  OnlyTailCounts
  ReportFits
  SpacesOnlySeparate
  MarkedWordsSurvive
PROPERTIES
  EveryRequestAnswered
