SPECIFICATION Spec
CONSTANTS
  Conns = {c1}
  Texts <- MCTexts
  Prompts <- OneQuestion
  Norm <- MCNorm
  CasualKeys <- MCCasualKeys
  ChallengeKeys <- MCChallengeKeys
  Like <- MCLike
  Answers <- MCAnswers
  Sent <- OneAnswer
  RawOutputs <- OneRaw
  Clean <- MCClean
  Short <- MCShort
  NoText = NoText
  NoAnswer = NoAnswer
  BadValue = BadValue
  RefFiles <- BootFiles
  Seeds <- MCSeeds
  MaxChunks = 0
  MaxCrashes = 0
  DbFaults = FALSE
  IoFaults = FALSE
PROPERTIES
  BootedNotEmpty
