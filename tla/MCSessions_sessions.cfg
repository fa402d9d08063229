CONSTANTS
  Users = {u1}
  Ips = {i1}
  Requests = {r1, r2}
  MaxLoginFailures = 2
  LoginWindow = 1
  RefreshTtl = 2
  MaxTime = 2
  MaxTokens = 3
  MaxSecrets = 2
  Workloads <- MCWorkloads
SPECIFICATION Spec
SYMMETRY MCSymmetry

INVARIANTS SessionsInv RotationKeepsOneToken LockoutOvershoot
