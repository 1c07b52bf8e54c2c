CONSTANTS
  u1 = u1
  UserIds = {u1}
  Environments <- MCEnvironments
  Missing = Missing  Blank = Blank  Invalid = Invalid  Null = Null  Absent = Absent
  NoContext = NoContext  NoRole = NoRole
SPECIFICATION FairSpec
INVARIANTS ListensWithRegistry  NeverStopsOverRegistry RanksKeepTheirOrder
PROPERTY StartEnds
CHECK_DEADLOCK FALSE
