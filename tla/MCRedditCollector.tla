------------------------- MODULE MCRedditCollector -------------------------
(***************************************************************************)
(* RedditCollector on small instances.  A batch says more of the page f1   *)
(* than the form keeps (f2); u2 is a page of its own whose URL is not in   *)
(* canonical form (u1).                                                    *)
(***************************************************************************)
EXTENDS RedditCollector, TLC

CONSTANTS f1, f2, u1, u2

Symmetric == Permutations(Worker) \cup Permutations(Run) \cup Permutations(Source)
Alike == Permutations(Source) \cup Permutations(Req)

MCStored == [f \in Feed |-> CASE f = f2 -> f1 [] f = u2 -> u1 [] OTHER -> f]
=============================================================================
