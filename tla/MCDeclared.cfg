SPECIFICATION FamiliesSpec
CONSTANTS
  Documents <- MCDocuments
  Users <- MCUsers
  Splits <- MCSplits
INVARIANT DeclaredCounts
CHECK_DEADLOCK FALSE
