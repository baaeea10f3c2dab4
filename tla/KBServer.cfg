SPECIFICATION Spec
CONSTANTS
  Conns = {c1, c2}
  Texts <- MCTexts
  Prompts <- TwoQuestions
  Norm <- MCNorm
  CasualKeys <- MCCasualKeys
  ChallengeKeys <- MCChallengeKeys
  Like <- MCLike
  Answers <- MCAnswers
  Sent <- OneAnswer
  RawOutputs <- OneRaw
  Clean <- MCClean
  Short <- MCShort
  NoText = NoText
  NoAnswer = NoAnswer
  BadValue = BadValue
  RefFiles <- OneFile
  Seeds <- MCSeeds
  MaxChunks = 0
  MaxCrashes = 2
  DbFaults = FALSE
  IoFaults = FALSE
SYMMETRY Interchangeable
INVARIANTS
  TypeOK
  FlagHonoured
  SavedKept
PROPERTIES
  SavedAnswered
