\* A new project is saved over a package that already has a journal.
CONSTANTS
  a = a b = b dom = dom p = p u = u None = None
  Commands = {a, b}
  Domains = {dom}
  DomainOf <- OneDomain
  PayloadOrder <- OnePayload
  MaxRecoveryCheckpoints = 1
  MaxActiveSegments = 2
  Places = {p}
  RecoveryPackages = {}
  MaxRevision = 2
  MaxInstalls = 2
  MaxPrimarySaves = 1
  AutosaveEnabled = TRUE
  Replacements = {"new"}
  MaxFaults = 0
SPECIFICATION Spec
INVARIANTS
  AcknowledgedWorkIsRecoverable
CHECK_DEADLOCK FALSE
