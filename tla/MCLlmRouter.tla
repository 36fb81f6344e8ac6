----------------------------- MODULE MCLlmRouter -----------------------------
(***************************************************************************)
(* LlmRouter on small instances: every connection has the same limit.      *)
(***************************************************************************)
EXTENDS LlmRouter

CONSTANT EachLimit
MCLimit == [k \in Connection |-> EachLimit]
=============================================================================
