SPECIFICATION Spec
CONSTANTS
  Conns = {c1}
  Texts <- MCTexts
  Prompts <- TwoQuestions
  Norm <- MCNorm
  CasualKeys <- MCCasualKeys
  ChallengeKeys <- MCChallengeKeys
  Like <- MCLike
  Answers <- MCAnswers
  Sent <- OneAnswer
  RawOutputs <- OneRaw
  Clean <- MCClean
  Short <- MCShort
  NoText = NoText
  NoAnswer = NoAnswer
  BadValue = BadValue
  RefFiles <- NoFiles
  Seeds <- MCSeeds
  MaxChunks = 0
  MaxCrashes = 1
  DbFaults = FALSE
  IoFaults = FALSE
INVARIANTS
  AckedFlagLogged
