--------------------------- MODULE MCLeadPipeline ---------------------------
(***************************************************************************)
(* LeadPipeline on small instances.  The verdicts are one that just        *)
(* makes a lead and one just below the threshold.                          *)
(***************************************************************************)
EXTENDS LeadPipeline, TLC

CONSTANTS w1, w2, p1, p2, s1, s2

MCWorkspaceOf == [s \in Source |-> w1]

Hot == [isBuyingSignal |-> TRUE, priorityScore |-> 50]
Warm == [isBuyingSignal |-> TRUE, priorityScore |-> 49]
MCVerdict == {Hot, Warm}

=============================================================================
