SPECIFICATION FairSpec
CONSTANTS
  None = None
  r1 = r1
  r2 = r2
  ann = ann
  bob = bob
  Workers = {r1, r2}
  Slots <- MCSlots
  RoleOf <- MCRoleOf
  Users = {ann, bob}
  Matches <- MCMatches
  Registered = {"a"}
  Targets <- MCTargets
  MaxRequests = 4
INVARIANTS
  TypeOK
  JoinsRecorded
PROPERTIES
  AnsweredStaysAnswered
  SigningFollowsLastJoin
  RequestsFinish
\* Users may send nothing more.
CHECK_DEADLOCK FALSE
