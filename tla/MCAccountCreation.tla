------------------------- MODULE MCAccountCreation -------------------------
(***************************************************************************)
(* Instances of AccountCreation for TLC.  The keys of one kind are alike,  *)
(* but tuples cannot be permuted by a symmetry set, so few keys are used.  *)
(***************************************************************************)
EXTENDS AccountCreation

AllKinds == {"ECDSA", "alias", "ED25519"}
AllFaults == {"outage", "error"}
=============================================================================
