CONSTANTS
  q1 = q1  q2 = q2  root = root  boss = boss  e1 = e1  e2 = e2  p1 = p1  p2 = p2
  Emails = {e1, e2}
  Passwords = {p1, p2}
  NoToken = NoToken  BadToken = BadToken  Absent = Absent
  NoContext = NoContext  NoRole = NoRole
  UserIds = {q1, q2, boss}
  Requests = {q1, q2}
  SeedAccounts <- BossAlone
  Calls <- LifeCalls
  MaxChanges = 2
  LogWorks = {TRUE, FALSE}
  CallsMayFail = TRUE
SPECIFICATION Spec
INVARIANTS TypeOK UniqueEmail ServedWhileActive ForbiddenOnlyWithCause AuditMatchesReply TokensEarned
PROPERTY RegistrationIsAtomicClaim
SYMMETRY Interchangeable
CHECK_DEADLOCK FALSE
