SPECIFICATION Spec
CONSTANTS
  run1 = run1
  run2 = run2
  run3 = run3
  Clients = {run1, run2, run3}
  Users = {"peggy", "victor"}
  Secrets = {"s1", "s2", "s3"}
  UserOf <- MCUserOf
  SecretOf <- MCSameSecret
  None = None
  MaxCalls = 1
INVARIANT HonestRunNotRejected
CHECK_DEADLOCK FALSE
