SPECIFICATION PageSpec
CONSTANTS
  Null = Null
  Case = {c1}
  Request = {r1, r2, r3}
  Owner = {o1}
  Instance = {i1}
  Account <- MCAccount
  Bucket <- MCBucket
  Input <- RefundOnly
  Sources = {"sandbox"}
  ComputeConfigured = FALSE
  StorageConfigured = FALSE
  AnchorConfigured = FALSE
  Overlap = TRUE
  Faults = FALSE
  Tab = {t1}
  User = o1
SYMMETRY RequestSymmetry
INVARIANT
  AtMostOneSend
