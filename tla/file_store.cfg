SPECIFICATION Spec
CONSTANTS
  draft = draft
  verified = verified
  hers = hers
  his = his
  she = she
  he = he
  NotFound = NotFound
  Client = {c1, c2, c3}
  Case = {hers, his}
  Owner = {she, he}
  OwnerOf <- MCOwnerOf
  Version = {draft, verified}
  Length <- MCLength
  Overlap = "gets"
  Crashes = TRUE
SYMMETRY ClientSymmetry
INVARIANTS
  SettledIsLatest
PROPERTIES
  UndisturbedGetIsLatest
  UndisturbedListIsComplete
