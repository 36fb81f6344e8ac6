---------------------------- MODULE MCReplayGuard ----------------------------
(***************************************************************************)
(* ReplayGuard on small instances: one message for each endpoint, the      *)
(* slack between window and nonce lifetime used up exactly.                *)
(***************************************************************************)
EXTENDS ReplayGuard, TLC

Symmetry == Permutations(Req)
=============================================================================
