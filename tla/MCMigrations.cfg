CONSTANTS
  s1 = s1  s2 = s2  run = run  revert = revert
  Servers = {s1, s2}
  Runs = {run}
  Reverts = {revert}
  RetryAttempts = 3
  MaxFaults = 2
SPECIFICATION FairSpec
INVARIANTS LedgerMatchesSchema LostRacesCostTwoAttempts ReadyWithTables
PROPERTIES RefusedOnlyWhenStale EveryServerReady
CHECK_DEADLOCK FALSE
