-------------------------- MODULE MCSessionFamily --------------------------
(***************************************************************************)
(* SessionFamily on small instances.  Requests, tokens and families are    *)
(* interchangeable.                                                        *)
(***************************************************************************)
EXTENDS SessionFamily, TLC

Symmetry == Permutations(Req) \cup Permutations(Token)
=============================================================================
