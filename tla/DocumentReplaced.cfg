\* An autosave is still running when the document is replaced.
CONSTANTS
  a = a b = b dom = dom p = p u = u None = None
  Commands = {a, b}
  Domains = {dom}
  DomainOf <- OneDomain
  PayloadOrder <- OnePayload
  MaxRecoveryCheckpoints = 1
  MaxActiveSegments = 2
  Places = {p}
  RecoveryPackages = {u}
  MaxRevision = 2
  MaxInstalls = 2
  MaxPrimarySaves = 1
  AutosaveEnabled = TRUE
  Replacements = {"new"}
  MaxFaults = 0
SPECIFICATION Spec
PROPERTIES
  AcknowledgedFramesAreDurable
CHECK_DEADLOCK FALSE
