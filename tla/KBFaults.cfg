SPECIFICATION Spec
CONSTANTS
  Conns = {c1, c2}
  Texts <- MCTexts
  Prompts <- SmallTalk
  Norm <- MCNorm
  CasualKeys <- MCCasualKeys
  ChallengeKeys <- MCChallengeKeys
  Like <- MCLike
  Answers <- MCAnswers
  Sent <- ShortAnswer
  RawOutputs <- OneRaw
  Clean <- MCClean
  Short <- MCShort
  NoText = NoText
  NoAnswer = NoAnswer
  BadValue = BadValue
  RefFiles <- BootFiles
  Seeds <- MCSeeds
  MaxChunks = 0
  MaxCrashes = 1
  DbFaults = TRUE
  IoFaults = TRUE
SYMMETRY Interchangeable
INVARIANTS
  SavedKept
  LearnedRowsSane
PROPERTIES
  FactsLoaded
  ImplementsContract
