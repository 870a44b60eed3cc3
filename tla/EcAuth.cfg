SPECIFICATION Spec
CONSTANTS
  run1 = run1
  run2 = run2
  run3 = run3
  Clients = {run1, run2, run3}
  Users = {"peggy", "victor"}
  Secrets = {"s1", "s2", "s3"}
  UserOf <- MCUserOf
  SecretOf <- MCSecretOf
  None = None
  MaxCalls = 2
INVARIANTS TypeOK SoleRunNotRejected
PROPERTIES NoLoginWithUsedChallenge SoleRunLogsIn
CHECK_DEADLOCK FALSE
