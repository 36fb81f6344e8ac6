--------------------------- MODULE MCInvitations ---------------------------
(***************************************************************************)
(* Invitations on a small instance: a person and a device, whose account   *)
(* is made by a pairing code or the bootstrap.                             *)
(***************************************************************************)
EXTENDS Invitations, TLC

Symmetric == Permutations(User \ Paired) \cup Permutations(Inv) \cup Permutations(Call)
===========================================================================
