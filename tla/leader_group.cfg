SPECIFICATION FairSpec
CONSTANTS
  Group = {"g1", "g2"}
  Candidate = {"c1"}
  RetryPeriod = {2}
  InitGroups = {"g1"}
  Budget = 2
  MaxRevision = 4
  MaxLag = 1
INVARIANTS TypeOK
PROPERTIES ElectionsStand LeaseIsFenced TokenGrowsWithinLease StatusFollowsLease
CHECK_DEADLOCK FALSE
