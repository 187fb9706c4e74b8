CONSTANTS
  a = a
  b = b
  Clients <- Two
  MaxRows = 1
  Limits = {2}
  MaxCommits = 2
  MaxFaults = 0
SPECIFICATION Spec
INVARIANT NothingSkipped
