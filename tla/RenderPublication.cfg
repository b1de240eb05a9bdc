CONSTANTS
  verse = verse
  None = None
  Loops = {verse}
  MaxGenerations = 4
  Structural = {2}
  RestartLimit = 1
  MaxOffers = 2
SPECIFICATION FairSpec
INVARIANTS
  TypeOK
  ServiceFollowsTheRenderer
  EveryFrameIsCovered
PROPERTIES
  PublicationIsAtomic
  FinishedRendersAreHeard
CHECK_DEADLOCK FALSE
