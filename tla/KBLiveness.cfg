SPECIFICATION FairSpec
CONSTANTS
  Conns = {c1, c2}
  Texts <- MCTexts
  Prompts <- Challenges
  Norm <- MCNorm
  CasualKeys <- MCCasualKeys
  ChallengeKeys <- MCChallengeKeys
  Like <- MCLike
  Answers <- MCAnswers
  Sent <- OneAnswer
  RawOutputs <- OneRaw
  Clean <- MCClean
  Short <- MCShort
  NoText = NoText
  NoAnswer = NoAnswer
  BadValue = BadValue
  RefFiles <- NoFiles
  Seeds <- MCSeeds
  MaxChunks = 1
  MaxCrashes = 1
  DbFaults = FALSE
  IoFaults = FALSE
PROPERTIES
  EveryRequestAnswered
