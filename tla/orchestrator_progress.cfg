SPECIFICATION FairSpec
CONSTANTS
  Null = Null
  Case = {c1, c2}
  Request = {r1, r2, r3}
  Owner = {o1}
  Instance = {i1}
  Account <- MCAccount
  Bucket <- MCBucket
  Input <- RefundOrSilence
  Sources = {"sandbox", "live"}
  ComputeConfigured = FALSE
  StorageConfigured = FALSE
  AnchorConfigured = TRUE
  Overlap = TRUE
  Faults = FALSE
INVARIANTS
  NoCaseIsLeft
  StepsAreEnabled
PROPERTIES
  EveryRequestAnswered
  CaseComesToRest
  RejectionsMayOverlap
