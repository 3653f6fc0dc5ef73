SPECIFICATION FairSpec
CONSTANTS
  Workers = {w1, w2}
  Cards = {p1, p2}
  Keys = {main}
  KeyOf <- OneBranch
  GitHub = {p1}
  Consolidates = FALSE
  NoCard = noCard
  Free = free
  GiveUpAttempts = 2
  ScanLimit = 1
  MaxAttempts = 0
  MaxCrashes = 1
PROPERTIES
  Settled
  MergedOnGitHubLands
