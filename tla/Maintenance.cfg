SPECIFICATION Spec
CONSTANTS
  Keys = {"tax", "vat"}
  RowKeys = {"tax", "vat"}
  Topics <- MCTopics
  Titles = {"vat"}
  HandWritten = {"vat"}
  MaxOps = 4
  LearnedFile = {"vat"}
  Seeds = {"tax"}
INVARIANTS
  TypeOK
  ToolsKeepWhatTheyRead
  AllOrNothing
  LateSavesKept
PROPERTIES
  NothingLostAlone
  CompleteMeansAll
CHECK_DEADLOCK FALSE
