CONSTANTS
  e1 = e1  e2 = e2  p1 = p1  p2 = p2  n1 = n1  t1 = t1  t2 = t2
  Emails = {e1, e2}
  Passwords = {p1}
  Names = {n1}
  Tokens = {t1, t2}
  ForeignRows <- OldRows
  Blank = Blank  Null = Null
SPECIFICATION Spec
INVARIANTS TypeOK DeletedTogether VerifiedEmailWasConfirmed RoundTrip
PROPERTIES DeletionIsFinal FailureKeepsUser
