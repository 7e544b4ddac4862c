SPECIFICATION FairSpec
CONSTANTS
  None = None
  r1 = r1
  r2 = r2
  u1 = u1
  u2 = u2
  w1 = w1
  k1 = k1
  k2 = k2
  g1 = g1
  Workers = {r1, r2}
  Users = {u1, u2}
  Linked <- MCLinked
  Keys = {k1, k2}
  Offers <- MCOffers
  Slugs = {g1}
  BigInt = 3
  MaxRequests = 3
INVARIANTS
  TypeOK
  DealsComplete
  FitToSettle
  OnlyRacesDuplicate
  OrganisationsOwned
PROPERTIES
  RequestsFinish
\* Nobody has to create anything more.
CHECK_DEADLOCK FALSE
