SPECIFICATION PageFairSpec
CONSTANTS
  Null = Null
  Case = {c1}
  Request = {r1, r2, r3}
  Owner = {o1}
  Instance = {i1}
  Account <- MCAccount
  Bucket <- MCBucket
  Input <- MCInput
  Sources = {"sandbox"}
  ComputeConfigured = FALSE
  StorageConfigured = FALSE
  AnchorConfigured = FALSE
  Overlap = FALSE
  Faults = TRUE
  Tab = {t1, t2}
  User = o1
INVARIANTS
  PageOK
  SentAsReviewed
  EndsShownAreTrue
  EndsShownAreFinal
  ReportIsOfReceiptShown
PROPERTY
  BusyEnds
