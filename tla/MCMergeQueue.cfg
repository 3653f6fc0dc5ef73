SPECIFICATION Spec
CONSTANTS
  Workers = {w1, w2}
  Cards = {p1, p2}
  Keys = {main}
  KeyOf <- OneBranch
  GitHub = {p1}
  Consolidates = TRUE
  NoCard = noCard
  Free = free
  GiveUpAttempts = 3
  ScanLimit = 5
  MaxAttempts = 2
  MaxCrashes = 1
SYMMETRY MCSymmetry
INVARIANTS
  TypeOK
  OneMergePerBranch
  MergedIsMerged
  NoneStuckMerging
  BoundedOvertaking
