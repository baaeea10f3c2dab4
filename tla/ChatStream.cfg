SPECIFICATION FairSpec
CONSTANTS
  Prompts = {"tax"}
  Like = {}
  SmallTalk = {}
  Nothing = Nothing
  MaxSends = 2
  MaxPieces = 2
  MaxCalls = 0
INVARIANTS
  ShownInOrder
  WholeUnlessCut
  HistoryMatches
PROPERTIES
  EverySendEnds
