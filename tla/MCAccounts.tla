---------------------------- MODULE MCAccounts ----------------------------
(***************************************************************************)
(* One person with an email, two login messages for one wallet.            *)
(***************************************************************************)
EXTENDS Accounts, TLC

CONSTANTS r1, r2, n1, n2, email, wallet

MCAddressOf == [n \in {n1, n2} |-> wallet]

MCSymmetry == Permutations({r1, r2}) \cup Permutations({n1, n2})
==========================================================================
