SPECIFICATION Spec
CONSTANTS
  None = None
  r1 = r1
  r2 = r2
  n1 = n1
  n2 = n2
  email = email
  wallet = wallet
  Workers = {r1, r2}
  Emails = {email}
  Nonces = {n1, n2}
  AddressOf <- MCAddressOf
  MaxRequests = 4
SYMMETRY MCSymmetry
INVARIANTS
  TypeOK
  OneAccountEach
  WalletLoginsOwned
\* Users may send nothing more.
CHECK_DEADLOCK FALSE
