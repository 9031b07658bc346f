SPECIFICATION Spec
CONSTANTS
  Null = Null
  Case = {c1}
  Request = {r1, r2, r3}
  Owner = {o1, o2}
  Instance = {i1, i2}
  Account <- MCAccount
  Bucket <- MCBucket
  Input <- OneInputPerAnswer
  Sources = {"sandbox", "live"}
  ComputeConfigured = FALSE
  StorageConfigured = FALSE
  AnchorConfigured = TRUE
  Overlap = TRUE
  Faults = TRUE
SYMMETRY RequestSymmetry
INVARIANTS
  TypeOK
  RecordsConsistent
  OnlyApprovedMessagesLeave
  StoredAnchorGenuine
  FeeBacked
PROPERTIES
  CaseIdentityFixed
