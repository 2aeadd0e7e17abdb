SPECIFICATION FairSpec
CONSTANTS
  Others = {a, b}
  Period = 3
  MinTime = 3
  Costs = {2, 3}
  MaxLate = 1
  LongAgo = 13
INVARIANT MembersCurrent
PROPERTIES ReportsApart ReportsGoOn
