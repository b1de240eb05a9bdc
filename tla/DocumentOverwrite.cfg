\* Two explicit saves of one document run at once.
CONSTANTS
  a = a b = b dom = dom p = p u = u None = None
  Commands = {a, b}
  Domains = {dom}
  DomainOf <- OneDomain
  PayloadOrder <- OnePayload
  MaxRecoveryCheckpoints = 1
  MaxActiveSegments = 2
  Places = {p}
  RecoveryPackages = {}
  MaxRevision = 1
  MaxInstalls = 1
  MaxPrimarySaves = 2
  AutosaveEnabled = FALSE
  Replacements = {}
  MaxFaults = 0
SPECIFICATION Spec
INVARIANTS
  CleanDocumentsMatchTheirLastSave
CHECK_DEADLOCK FALSE
