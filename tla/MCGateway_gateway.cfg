CONSTANTS
  Clients = {c1}
  Tiers = {"auth", "orders"}
  Bucketed = {"orders"}
  Limit = 1
  Window = 2
  Grace = 1
  Requests = {r1, r2}
  Keys = {"k1"}
  Spellings = {lower, upper}
  Signatures <- MCSignatures
  Workloads <- MCWorkloads
  MaxSkew = 1
  ReplayTtl = 2
  MaxTime = 4
  Horizon <- MCHorizon
SPECIFICATION Spec
SYMMETRY MCSymmetry
INVARIANTS LimitsHold ReplayNeedsDelay RevokedKeyRefused
