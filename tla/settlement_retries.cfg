SPECIFICATION FairSpec
CONSTANTS
  None = None
  r1 = r1
  r2 = r2
  m1 = m1
  m2 = m2
  Databases = {"PostgreSQL", "SQLite"}
  Workers = {r1, r2}
  Parties <- MCParties
  Late <- MCLate
  Role <- MCRole
  Wallet <- MCWallet
  Milestones <- MCMilestones
  Amount <- MCAmount
  Total = 3
  Bps = 5000
  Chain <- RacingChain
  Targets = {"EXPIRED"}
  Retries = TRUE
  MaxRequests = 3
INVARIANTS
  TypeOK
  FundedWithinTotal
  EvidenceChained
  ChainBacked
  TotalsNotOverstated
PROPERTIES
  ColumnsIsolated
  RequestsFinish
\* Users may send nothing more.
CHECK_DEADLOCK FALSE
