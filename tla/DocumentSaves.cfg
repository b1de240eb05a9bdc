\* Saves, autosaves and compaction overlap; the process may end once.
CONSTANTS
  a = a b = b dom = dom p = p u = u None = None
  Commands = {a, b}
  Domains = {dom}
  DomainOf <- OneDomain
  PayloadOrder <- OnePayload
  MaxRecoveryCheckpoints = 1
  MaxActiveSegments = 2
  Places = {p}
  RecoveryPackages = {}
  MaxRevision = 2
  MaxInstalls = 2
  MaxPrimarySaves = 1
  AutosaveEnabled = TRUE
  Replacements = {"recovery"}
  MaxFaults = 1
SPECIFICATION Spec
INVARIANTS
  TypeOK
  ManifestsAreWhole
  JournalFollowsCheckpoint
  SavedMarkIsContent
  CleanDocumentsMatchTheirLastSave
PROPERTIES
  CommandsAreNeverLost
  AcknowledgedFramesAreDurable
SYMMETRY CommandSymmetry
CHECK_DEADLOCK FALSE
