-------------------------- MODULE MCInvitations --------------------------
(***************************************************************************)
(* Two contributors are invited, Ann and Bob by email.  Bob also holds the *)
(* wallet named in Ann's invitation; Ann has an account already.           *)
(***************************************************************************)
EXTENDS Invitations

CONSTANTS r1, r2, ann, bob

MCSlots   == {"a", "b"}
MCRoleOf  == [a |-> "CONTRIBUTOR", b |-> "CONTRIBUTOR"]
MCMatches == {<<ann, "a">>, <<bob, "a">>, <<bob, "b">>}

(* Managers reopen the negotiation, or declare the agreement signed.       *)
MCTargets == {"NEGOTIATING", "AWAITING_FUNDING"}
==========================================================================
