SPECIFICATION Spec
CONSTANTS
  None = None
  r1 = r1
  r2 = r2
  m1 = m1
  m2 = m2
  Databases = {"PostgreSQL"}
  Workers = {r1, r2}
  Parties <- MCParties
  Late <- MCLate
  Role <- MCRole
  Wallet <- MCWallet
  Milestones <- MCMilestones
  Amount <- MCAmount
  Total = 3
  Bps = 5000
  Chain <- WholeChain
  Targets <- MCTargets
  Retries = FALSE
  MaxRequests = 3
PROPERTIES
  TransitionSeesCurrentDeal
\* Users may send nothing more.
CHECK_DEADLOCK FALSE
