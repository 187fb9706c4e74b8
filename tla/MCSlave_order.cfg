CONSTANTS
  a = a
  b = b
  Clients <- One
  MaxRows = 2
  Limits = {1, 2}
  MaxCommits = 2
  MaxFaults = 2
SPECIFICATION FairSpec
INVARIANTS TypeOK CommitIdsDistinct NothingSkipped ListedIsWhole
PROPERTIES ImplementsOrderedApply CommitsGetApplied
