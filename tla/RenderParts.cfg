\* Small instance: a second revision whose render fails after a first offer.
CONSTANTS
  verse = verse
  None = None
  Loops = {verse}
  MaxGenerations = 2
  Structural = {}
  RestartLimit = 1
  MaxOffers = 1
SPECIFICATION Spec
PROPERTIES
  PartsBelongToARunningRender
CHECK_DEADLOCK FALSE
