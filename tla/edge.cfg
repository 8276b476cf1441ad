SPECIFICATION EvmSpec
CONSTANTS
  u1 = u1
  u2 = u2
  k1 = k1
  k2 = k2
  b = b
  z1 = z1
  z2 = z2
  none = none
  nobody = nobody
  n1 = n1
  n2 = n2
  r1 = r1
  r2 = r2
  a1 = a1
  a2 = a2
  Users = {u1, u2}
  Keys = {k1, k2}
  Names = {b, z1, z2}
  NoValue = none
  NoUser = nobody
  PrefixPairs <- SamePrefixes
  Nodes = {n1, n2}
  Requests = {r1, r2}
  BillingName <- Billing
  KeyOwner <- Owners
  InitialScopes <- KeyScopesAtFirst
  Bucket = b
  CacheTtl = 2
  HttpTimeout = 1
  ReadCost = 1
  WriteCost = 2
  Seed <- SeedCredits
  Volatile = {k1}
  ReadOnlyKeys = {k2}
  MaxClock = 2
  MaxOps = 1
  RawNames = {b, z1}
  MaxRequests = 2
  MaxUnsettled = 2
  IntWidth = 8
  Txs <- SomeTxs
  Addresses = {a1, a2}
  Deposit <- Deposits
  Chain = 7
  EvmTtl = 0
  MeshMayBeEmpty = FALSE
SYMMETRY SlotSymmetry
CHECK_DEADLOCK FALSE
INVARIANTS    TransfersEnd 
