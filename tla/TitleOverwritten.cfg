SPECIFICATION Spec
CONSTANTS
  Keys = {"tax", "vat"}
  RowKeys = {"tax", "vat"}
  Topics <- MCTopics
  Titles = {"vat"}
  HandWritten = {"vat"}
  MaxOps = 1
  LearnedFile = {"vat"}
  Seeds = {"tax"}
INVARIANTS
  ExistingFactsKept
CHECK_DEADLOCK FALSE
