SPECIFICATION Spec
CONSTANTS
  Null = Null
  Case = {c1}
  Request = {r1, r2, r3}
  Owner = {o1}
  Instance = {i1, i2}
  Account <- MCAccount
  Bucket <- MCBucket
  Input <- AllInputs
  Sources = {"sandbox", "live"}
  ComputeConfigured = TRUE
  StorageConfigured = TRUE
  AnchorConfigured = TRUE
  Overlap = FALSE
  Faults = TRUE
SYMMETRY RequestSymmetry
INVARIANTS
  AtMostOneSend
  RejectedNeverSent
  ApprovalOnRecord
  SuccessVerifies
  AnchorMatchesReceipt
  FeeMatchesOutcome
  FeesBounded
  CardTellsReport
  NoticedIffLinked
  AnswersAreTrue
PROPERTIES
  ImplementsLifecycle
  ImplementsRequests
