---------------------------- MODULE MCEmailOutbox ----------------------------
(***************************************************************************)
(* EmailOutbox on small instances: delays of one and two ticks, locks that *)
(* are stale after two.                                                    *)
(***************************************************************************)
EXTENDS EmailOutbox
=============================================================================
