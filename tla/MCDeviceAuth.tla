---------------------------- MODULE MCDeviceAuth ----------------------------
(***************************************************************************)
(* DeviceAuth on small instances.  Ids of one kind are interchangeable.    *)
(***************************************************************************)
EXTENDS DeviceAuth, TLC

Symmetry == Permutations(Req) \cup Permutations(Workspace) \cup Permutations(Device)
              \cup Permutations(Code) \cup Permutations(Challenge) \cup Permutations(Ticket)
=============================================================================
