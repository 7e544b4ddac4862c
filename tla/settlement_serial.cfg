SPECIFICATION Spec
CONSTANTS
  None = None
  r1 = r1
  r2 = r2
  m1 = m1
  m2 = m2
  Databases = {"SQLite"}
  Workers = {r1}
  Parties <- MCParties
  Late <- MCLate
  Role <- MCRole
  Wallet <- MCWallet
  Milestones <- MCMilestones
  Amount <- MCAmount
  Total = 3
  Bps = 5000
  Chain <- WholeChain
  Targets <- MCTargets
  Retries = FALSE
  MaxRequests = 4
INVARIANTS
  TotalsExact
PROPERTIES
  LedgerSpec
\* Users may send nothing more.
CHECK_DEADLOCK FALSE
