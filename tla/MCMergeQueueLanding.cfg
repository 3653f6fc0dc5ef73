SPECIFICATION FairSpec
CONSTANTS
  Workers = {w1}
  Cards = {p1}
  Keys = {main}
  KeyOf <- OneBranch
  GitHub = {}
  Consolidates = TRUE
  NoCard = noCard
  Free = free
  GiveUpAttempts = 3
  ScanLimit = 5
  MaxAttempts = 1
  MaxCrashes = 0
PROPERTIES
  MergedByQueueLands
