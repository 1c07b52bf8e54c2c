CONSTANTS
  q1 = q1  q2 = q2  root = root  boss = boss  e1 = e1  e2 = e2  p1 = p1  p2 = p2
  Emails = {e1, e2}
  Passwords = {p1, p2}
  NoToken = NoToken  BadToken = BadToken  Absent = Absent
  NoContext = NoContext  NoRole = NoRole
  UserIds = {q1, q2, boss, root}
  Requests = {q1, q2}
  SeedAccounts <- BossAndRoot
  Calls <- RefusedCalls
  MaxChanges = 0
  LogWorks = {TRUE}
  CallsMayFail = FALSE
SPECIFICATION Spec
INVARIANT LoginRefusalIs401
CHECK_DEADLOCK FALSE
